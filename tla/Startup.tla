------------------------------- MODULE Startup -------------------------------
(***************************************************************************)
(* The start of the API server: get_action_graph and get_tools build the   *)
(* connectors the settings ask for, the Google ones from credentials that  *)
(* load_credentials takes from GOOGLE_TOKEN_JSON, from a token file, or    *)
(* from the owner's consent in a browser.  Servers are stopped and started *)
(* again, tokens expire, and the demo scripts use the same token files.    *)
(*                                                                         *)
(* Requests are not modelled here: a connector is what it was built with.  *)
(***************************************************************************)

CONSTANTS
    Settings,       \* the environments a server may be started in
    EnvTokens,      \* the tokens GOOGLE_TOKEN_JSON may hold
    Scripts,        \* the demo scripts that are run: "gmail", "calendar", "excel"
    Faults          \* "network": a request at start-up fails; "name": the
                    \* workbook's name matches no file or several; "crash": a
                    \* process dies while it writes a token file

Scope == {"gmail", "calendar", "drive"}

\* An access token for some scopes, still valid or not, with a refresh token
\* that stands for what the owner consented to; or a token file that was
\* truncated and never written.
Token ==
    [access : SUBSET Scope, grant : SUBSET Scope, fresh : BOOLEAN, refreshable : BOOLEAN,
     torn : BOOLEAN]

Setting ==
    [client : BOOLEAN, tokenJson : {"unset", "set", "malformed"}, browser : BOOLEAN,
     excel : {"none", "path", "id", "name", "both"}, folder : BOOLEAN,
     salesforce : BOOLEAN, jira : BOOLEAN, database : BOOLEAN,
     keys : {"unset", "set", "malformed"}]

\* GOOGLE_TOKEN_JSON holds the token of the consent to Gmail and Calendar.
ASSUME StartupAssumption ==
    /\ Settings \subseteq Setting
    /\ EnvTokens \subseteq
           {k \in Token : ~k.torn /\ {"gmail", "calendar"} \subseteq k.access \cap k.grant}
    /\ Scripts \subseteq {"gmail", "calendar", "excel"}
    /\ Faults \subseteq {"network", "name", "crash"}

VARIABLES
    settings,       \* the environment variables
    envToken,       \* the token in GOOGLE_TOKEN_JSON
    tokenFile,      \* the token files
    phase,          \* how far the server is
    tools,          \* the connectors get_tools has built
    cameUp,         \* the server was up once, with these settings
    trouble         \* something went wrong outside the server

tokens == <<envToken, tokenFile>>
vars == <<settings, tokens, phase, tools, cameUp, trouble>>

-----------------------------------------------------------------------------
(***************************************************************************)
(* Tokens                                                                  *)
(***************************************************************************)

Path == {"default", "drive"}

NoToken ==
    [access |-> {}, grant |-> {}, fresh |-> FALSE, refreshable |-> FALSE, torn |-> FALSE]
Truncated == [NoToken EXCEPT !.torn = TRUE]
Consented(scopes) ==
    [access |-> scopes, grant |-> scopes, fresh |-> TRUE, refreshable |-> TRUE, torn |-> FALSE]

Returns(k) == [error |-> "none", token |-> k]
Raises(error) == [error |-> error, token |-> NoToken]

Cached(path) == IF settings.tokenJson = "set" THEN envToken ELSE tokenFile[path]

\* from_authorized_user_info and from_authorized_user_file raise for what is
\* no JSON, and for a token without its refresh token, valid as it may be.
Unreadable(path) ==
    \/ settings.tokenJson = "malformed"
    \/ settings.tokenJson = "set" /\ ~envToken.refreshable
    \/ settings.tokenJson = "unset" /\ tokenFile[path].torn

\* creds.refresh: Google grants a new access token for scopes that were
\* consented to, and only for those.
Refresh(k, scopes) ==
    {IF scopes \subseteq k.grant
     THEN Returns([k EXCEPT !.access = scopes, !.fresh = TRUE])
     ELSE Raises("RefreshError")}
    \cup {Raises(f) : f \in Faults \cap {"network"}}

\* flow.run_local_server: the owner consents or declines, if there is a browser.
Consent(scopes) ==
    IF settings.browser THEN {Returns(Consented(scopes)), Raises("declined")}
    ELSE {Raises("no browser")}

\* Variant: an expired token is not refreshed.
LoadWithoutRefresh(scopes, path) ==
    LET k == Cached(path) IN
    CASE Unreadable(path) -> {Raises("ValueError")}
      [] ~Unreadable(path) /\ k.fresh -> {Returns(k)}
      [] OTHER -> IF settings.client THEN Consent(scopes) ELSE {Raises("RuntimeError")}

\* load_credentials.  A cached token that is still valid is taken whatever
\* scopes it was issued for.  The RuntimeError for GOOGLE_TOKEN_JSON is never
\* raised: what would cause it is Unreadable.
LoadCredentials(scopes, path) ==
    LET k == Cached(path) IN
    CASE Unreadable(path) -> {Raises("ValueError")}
      [] ~Unreadable(path) /\ k.fresh -> {Returns(k)}
      [] ~Unreadable(path) /\ ~k.fresh /\ k.refreshable -> Refresh(k, scopes)
      [] OTHER -> IF settings.client THEN Consent(scopes) ELSE {Raises("RuntimeError")}

\* Credentials that do not come from the environment are written back.
Saved(path, r) ==
    tokenFile' = IF r.error = "none" /\ settings.tokenJson # "set"
                 THEN [tokenFile EXCEPT ![path] = r.token] ELSE tokenFile

\* The process dies in write_text, which empties the file before it writes;
\* a token that was valid is not written.
DiesWhileSaving(scopes, path) ==
    /\ "crash" \in Faults
    /\ settings.tokenJson = "unset" /\ ~tokenFile[path].fresh
    /\ \E r \in LoadCredentials(scopes, path) : r.error = "none"
    /\ tokenFile' = [tokenFile EXCEPT ![path] = Truncated]
    /\ UNCHANGED envToken

Tool(name, needs, k) == [name |-> name, needs |-> needs, access |-> k.access]

-----------------------------------------------------------------------------
Init ==
    /\ settings \in Settings
    /\ envToken \in EnvTokens
    /\ tokenFile \in [Path -> {NoToken, Consented({"gmail", "calendar"}), Consented({"drive"})}]
    /\ tokenFile["default"].grant # {"drive"}
    /\ tokenFile["drive"].grant \subseteq {"drive"}
    /\ phase = "down"
    /\ tools = {}
    /\ cameUp = FALSE
    /\ trouble = FALSE

\* Errors that others cause: the network, the owner of the account, a rename.
Outside == {"network", "declined", "name"}

\* An exception leaves get_tools: the server does not start.
Fail(error) ==
    /\ phase' = "failed"
    /\ trouble' = (trouble \/ error \in Outside)
    /\ UNCHANGED <<settings, tools, cameUp>>

Built(new, next) ==
    /\ tools' = tools \cup new
    /\ phase' = next
    /\ UNCHANGED <<settings, cameUp, trouble>>

-----------------------------------------------------------------------------
(***************************************************************************)
(* get_action_graph and get_tools, factory by factory                      *)
(***************************************************************************)

\* load_settings, _require_database_url, and the checkpointer's setup.
Boot ==
    /\ phase = "down"
    /\ \/ settings.database /\ settings.keys # "malformed" /\ Built({}, "google")
       \/ ~settings.database /\ Fail("RuntimeError")
       \/ settings.keys = "malformed" /\ Fail("ValueError")
       \/ \E f \in Faults \cap {"network"} : Fail(f)
    /\ UNCHANGED tokens

\* Variant: get_tools does not catch the factory's RuntimeError.
BuildGmailAndCalendarUncaught ==
    /\ phase = "google"
    /\ \E r \in LoadCredentials({"gmail", "calendar"}, "default") :
        /\ \/ /\ r.error = "none"
              /\ Built({Tool("gmail", {"gmail"}, r.token),
                        Tool("google_calendar", {"calendar"}, r.token)}, "excel")
           \/ r.error # "none" /\ Fail(r.error)
        /\ Saved("default", r)
    /\ UNCHANGED envToken

\* build_gmail_and_calendar_tools: one consent for both; get_tools catches
\* RuntimeError, and nothing else.
BuildGmailAndCalendar ==
    /\ phase = "google"
    /\ \E r \in LoadCredentials({"gmail", "calendar"}, "default") :
        /\ \/ /\ r.error = "none"
              /\ Built({Tool("gmail", {"gmail"}, r.token),
                        Tool("google_calendar", {"calendar"}, r.token)}, "excel")
           \/ r.error = "RuntimeError" /\ Built({}, "excel")
           \/ r.error \notin {"none", "RuntimeError"} /\ Fail(r.error)
        /\ Saved("default", r)
    /\ UNCHANGED envToken

\* Variant: the token file of Gmail and Calendar is used for Drive too.
DriveTokenPathShared == "default"
DriveTokenPath == "drive"

\* A tool on Drive: no exception of its factory is caught.
BuildOnDrive(name, next) ==
    \E r \in LoadCredentials({"drive"}, DriveTokenPath) :
        /\ \/ r.error = "none" /\ Built({Tool(name, {"drive"}, r.token)}, next)
           \/ r.error # "none" /\ Fail(r.error)
        /\ Saved(DriveTokenPath, r)
        /\ UNCHANGED envToken

\* resolve_drive_file_id: the workbook's name is looked up on Drive, with
\* credentials of its own; the request is refused if they are not for Drive.
ResolveWorkbook ==
    /\ phase = "excel" /\ settings.excel = "name"
    /\ \E r \in LoadCredentials({"drive"}, DriveTokenPath) :
        /\ \/ r.error # "none" /\ Fail(r.error)
           \/ r.error = "none" /\ "drive" \notin r.token.access \cap r.token.grant /\ Fail("HttpError")
           \/ r.error = "none" /\ "drive" \in r.token.access \cap r.token.grant /\ Built({}, "named")
           \/ r.error = "none" /\ \E f \in Faults \cap {"network", "name"} : Fail(f)
        /\ Saved(DriveTokenPath, r)
        /\ UNCHANGED envToken

\* build_configured_excel_tool.
BuildExcel ==
    /\ phase = "excel"
    /\ \/ settings.excel = "none" /\ Built({}, "drive") /\ UNCHANGED tokens
       \/ settings.excel = "both" /\ Fail("ValueError") /\ UNCHANGED tokens
       \/ /\ settings.excel = "path"
          /\ Built({Tool("excel_file", {}, NoToken)}, "drive")
          /\ UNCHANGED tokens
       \/ settings.excel = "id" /\ BuildOnDrive("excel_file", "drive")

\* The same, with the workbook's id found.
BuildNamedExcel ==
    /\ phase = "named"
    /\ BuildOnDrive("excel_file", "drive")

\* Variant: a factory's None is put into the dictionary.
BuildDriveUnchecked ==
    /\ phase = "drive"
    /\ \/ ~settings.folder /\ Built({[name |-> "drive"]}, "salesforce") /\ UNCHANGED tokens
       \/ settings.folder /\ BuildOnDrive("drive", "salesforce")

\* build_configured_drive_tool.
BuildDrive ==
    /\ phase = "drive"
    /\ \/ ~settings.folder /\ Built({}, "salesforce") /\ UNCHANGED tokens
       \/ settings.folder /\ BuildOnDrive("drive", "salesforce")

\* build_configured_salesforce_tool and acquire_access_token.
BuildSalesforce ==
    /\ phase = "salesforce"
    /\ \/ ~settings.salesforce /\ Built({}, "jira")
       \/ settings.salesforce /\ Built({Tool("salesforce", {}, NoToken)}, "jira")
       \/ settings.salesforce /\ \E f \in Faults \cap {"network"} : Fail(f)
    /\ UNCHANGED tokens

\* Variant: the tool is built without its three settings.
BuildJiraAlways ==
    /\ phase = "jira"
    /\ tools' = tools \cup {Tool("jira", {}, NoToken)}
    /\ phase' = "up"
    /\ cameUp' = TRUE
    /\ UNCHANGED <<settings, tokens, trouble>>

\* build_configured_jira_tool; with it, the server is up.
BuildJira ==
    /\ phase = "jira"
    /\ tools' = tools \cup (IF settings.jira THEN {Tool("jira", {}, NoToken)} ELSE {})
    /\ phase' = "up"
    /\ cameUp' = TRUE
    /\ UNCHANGED <<settings, tokens, trouble>>

-----------------------------------------------------------------------------
(***************************************************************************)
(* What happens around the server                                          *)
(***************************************************************************)

\* A redeploy, a crash or a task replacement, in the middle of a start or
\* later; what lru_cache held is gone.
Stop ==
    /\ phase # "down"
    /\ phase' = "down"
    /\ tools' = {}
    /\ UNCHANGED <<settings, tokens, cameUp, trouble>>

\* The same while the start writes a token file.
StopWhileSaving ==
    /\ \/ phase = "google" /\ DiesWhileSaving({"gmail", "calendar"}, "default")
       \/ /\ \/ phase = "excel" /\ settings.excel \in {"id", "name"}
             \/ phase = "named"
             \/ phase = "drive" /\ settings.folder
          /\ DiesWhileSaving({"drive"}, DriveTokenPath)
    /\ phase' = "down"
    /\ tools' = {}
    /\ UNCHANGED <<settings, cameUp, trouble>>

ScopesOf(script) == CASE script = "gmail" -> {"gmail"}
                      [] script = "calendar" -> {"calendar"}
                      [] script = "excel" -> {"drive"}
PathOf(script) == IF script = "excel" THEN DriveTokenPath ELSE "default"

\* scripts/gmail_demo.py, calendar_demo.py, excel_file_demo.py gdrive.
RunScript(script) ==
    /\ \/ \E r \in LoadCredentials(ScopesOf(script), PathOf(script)) : Saved(PathOf(script), r)
       \/ DiesWhileSaving(ScopesOf(script), PathOf(script))
    /\ UNCHANGED <<settings, envToken, phase, tools, cameUp, trouble>>

\* An hour passes.
Expire ==
    /\ envToken' = [envToken EXCEPT !.fresh = FALSE]
    /\ tokenFile' = [p \in Path |-> [tokenFile[p] EXCEPT !.fresh = FALSE]]
    /\ UNCHANGED <<settings, phase, tools, cameUp, trouble>>

\* The owner takes the consent back.
Revoke ==
    /\ envToken' = [envToken EXCEPT !.grant = {}]
    /\ tokenFile' = [p \in Path |-> [tokenFile[p] EXCEPT !.grant = {}]]
    /\ trouble' = TRUE
    /\ UNCHANGED <<settings, phase, tools, cameUp>>

\* The operator deletes a token file, to consent anew.
DeleteTokenFile(path) ==
    /\ tokenFile' = [tokenFile EXCEPT ![path] = NoToken]
    /\ trouble' = TRUE
    /\ UNCHANGED <<settings, envToken, phase, tools, cameUp>>

Next ==
    \/ Boot
    \/ BuildGmailAndCalendar
    \/ ResolveWorkbook
    \/ BuildExcel
    \/ BuildNamedExcel
    \/ BuildDrive
    \/ BuildSalesforce
    \/ BuildJira
    \/ Stop
    \/ StopWhileSaving
    \/ \E script \in Scripts : RunScript(script)
    \/ Expire
    \/ Revoke
    \/ \E path \in Path : DeleteTokenFile(path)

Spec == Init /\ [][Next]_vars

-----------------------------------------------------------------------------
(***************************************************************************)
(* Properties                                                              *)
(***************************************************************************)

ToolNames == {"gmail", "google_calendar", "excel_file", "drive", "salesforce", "jira"}

TypeOK ==
    /\ settings \in Settings
    /\ envToken \in Token
    /\ tokenFile \in [Path -> Token]
    /\ phase \in {"down", "google", "excel", "named", "drive", "salesforce", "jira", "up", "failed"}
    /\ tools \subseteq [name : ToolNames, needs : SUBSET Scope, access : SUBSET Scope]
    /\ cameUp \in BOOLEAN
    /\ trouble \in BOOLEAN

BuiltTools == {t.name : t \in tools}
NeedsDrive == settings.excel \in {"id", "name"} \/ settings.folder

\* A server that is up has the connectors its settings ask for and no others,
\* and Gmail and Calendar together or not at all, whatever happened to Google's
\* tokens meanwhile.
ConnectorsMatchSettings ==
    phase = "up" =>
        /\ "excel_file" \in BuiltTools <=> settings.excel # "none"
        /\ "drive" \in BuiltTools <=> settings.folder
        /\ "salesforce" \in BuiltTools <=> settings.salesforce
        /\ "jira" \in BuiltTools <=> settings.jira
        /\ "gmail" \in BuiltTools <=> "google_calendar" \in BuiltTools

\* No Google account: no OAuth client, no token, nothing kept on Drive.
NoGoogle ==
    /\ ~settings.client /\ settings.tokenJson = "unset"
    /\ \A p \in Path : tokenFile[p] = NoToken
    /\ ~NeedsDrive

\* A server without a Google account starts, with the connectors that need
\* none: build_gmail_and_calendar_tools' RuntimeError stops nothing.
StartsWithoutGoogle ==
    NoGoogle /\ settings.database /\ settings.keys # "malformed" /\ settings.excel # "both" =>
        (phase = "failed" => trouble)

\* Each Google connector's credentials were issued for the scopes it uses, as
\* long as a token file is used by the server and the workbook demo only; a
\* token in GOOGLE_TOKEN_JSON is for Gmail and Calendar.
CredentialsCoverScopes ==
    \A t \in tools :
        settings.tokenJson = "unset" \/ t.needs # {"drive"} => t.needs \subseteq t.access

\* A server that was up comes up again after a restart, however long after
\* and without anybody at a browser, unless something went wrong outside it,
\* GOOGLE_TOKEN_JSON has to serve for Drive, or a process died while it wrote
\* a token file: nothing repairs a truncated one.
RestartsComeUp ==
    phase = "failed" /\ cameUp =>
        \/ trouble
        \/ settings.tokenJson = "set" /\ NeedsDrive
        \/ settings.tokenJson = "unset" /\ \E p \in Path : tokenFile[p].torn

-----------------------------------------------------------------------------
\* What the documentation says and the code does not keep: GOOGLE_TOKEN_JSON
\* is a one-time set-up, good for every deploy until the consent is revoked.
TokenIsSetUpOnce ==
    phase = "failed" /\ cameUp => trouble
=============================================================================
