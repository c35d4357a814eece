----------------------------- MODULE StartupInv ------------------------------
(***************************************************************************)
(* The inductive invariant behind the properties of Startup: what the      *)
(* tokens, the connectors built so far and a failure tell of each other.   *)
(***************************************************************************)
EXTENDS Startup

Mailbox == {"gmail", "calendar"}
ScopesAt(path) == IF path = "default" THEN Mailbox ELSE {"drive"}

\* The phases behind the building of the workbook connector, and so on.
PastGoogle == {"excel", "named", "drive", "salesforce", "jira", "up"}
PastExcel == {"drive", "salesforce", "jira", "up"}
PastDrive == {"salesforce", "jira", "up"}
PastSalesforce == {"jira", "up"}

-----------------------------------------------------------------------------
\* What is built when: each connector by its own factory, if it is asked for.
BuiltSoFar ==
    /\ "gmail" \in BuiltTools <=> "google_calendar" \in BuiltTools
    /\ phase = "down" => tools = {}
    /\ phase # "failed" =>
           /\ "excel_file" \in BuiltTools <=> phase \in PastExcel /\ settings.excel # "none"
           /\ "drive" \in BuiltTools <=> phase \in PastDrive /\ settings.folder
           /\ "salesforce" \in BuiltTools <=> phase \in PastSalesforce /\ settings.salesforce
           /\ "jira" \in BuiltTools <=> phase = "up" /\ settings.jira

\* A start that got so far, or a server that was up before, had settings that
\* are no reason to fail.
SettingsAreGood ==
    /\ phase = "up" => cameUp
    /\ cameUp \/ phase \in {"google"} \cup PastGoogle =>
           settings.database /\ settings.keys # "malformed"
    /\ cameUp \/ phase \in PastGoogle =>
           settings.tokenJson # "malformed" /\ (settings.tokenJson = "set" => envToken.refreshable)
    /\ phase = "named" => settings.excel = "name"
    /\ cameUp \/ phase \in PastExcel => settings.excel # "both"

\* There is a token file: it can be refreshed, or it cannot be read at all.
OnFile(p) == tokenFile[p].refreshable \/ tokenFile[p].torn

\* A token in a file that works can be refreshed.
FilesRefresh ==
    \A p \in Path : tokenFile[p].fresh => tokenFile[p].refreshable

\* A start fails because of the settings, of a token that is refused, or of
\* something outside the server.
FailedWhy ==
    phase = "failed" /\ ~trouble =>
        \/ ~settings.database \/ settings.keys = "malformed" \/ settings.excel = "both"
        \/ settings.tokenJson # "unset" \/ settings.client \/ NeedsDrive
        \/ \E p \in Path : OnFile(p)

-----------------------------------------------------------------------------
(***************************************************************************)
(* When the token files are used by the server and the workbook demo only  *)
(***************************************************************************)

\* A token that works was issued for the scopes its file is used with.
TokensCover ==
    /\ \A p \in Path : tokenFile[p].fresh => ScopesAt(p) \subseteq tokenFile[p].access
    /\ Mailbox \subseteq envToken.access

ToolsCovered == CredentialsCoverScopes

\* Until the owner takes it back, the consent is there to refresh a token.
GrantsLast ==
    ~trouble =>
        /\ \A p \in Path : tokenFile[p].refreshable => ScopesAt(p) \subseteq tokenFile[p].grant
        /\ Mailbox \subseteq envToken.grant

\* Where a connector on Drive was built there is a token to build it again,
\* and where the Google account's own connectors were asked for, too.
TokensLast ==
    ~trouble /\ settings.tokenJson = "unset" =>
        /\ (settings.excel \in {"id", "name"} /\ phase \in PastExcel)
               \/ (settings.folder /\ phase \in PastDrive) \/ (NeedsDrive /\ cameUp) =>
               OnFile("drive")
        /\ settings.client /\ (phase \in PastGoogle \/ cameUp) => OnFile("default")

ServerAndWorkbook ==
    /\ TokensCover
    /\ ToolsCovered
    /\ GrantsLast
    /\ TokensLast
    /\ RestartsComeUp

\* The inductive invariant.
IInv ==
    /\ TypeOK
    /\ BuiltSoFar
    /\ SettingsAreGood
    /\ FilesRefresh
    /\ FailedWhy
    /\ Scripts \subseteq {"excel"} => ServerAndWorkbook
=============================================================================
