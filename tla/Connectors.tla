----------------------------- MODULE Connectors ------------------------------
(***************************************************************************)
(* The connectors: one call of a method of GmailTool, CalendarTool,        *)
(* ExcelFileTool, DriveTool, SalesforceTool or JiraTool, from the route    *)
(* (reads) or from execute_node with dry_run=False (writes) to its answer. *)
(*                                                                         *)
(* A method is the sequence of steps it takes: requests to its external    *)
(* system, made through the client class and with_retry where the client   *)
(* method is decorated with it, and local work that may raise.  Calls run  *)
(* concurrently on FastAPI's threads; the external systems are shared.     *)
(* What the payloads hold is left out, except which calls' cells are in    *)
(* the workbook and whether the addressed Drive file is in the folder.     *)
(*                                                                         *)
(* Google's client renews its access token within the request that needs   *)
(* it; the Salesforce client keeps the one it was built with; Jira's never *)
(* ends.                                                                   *)
(***************************************************************************)
EXTENDS Naturals, Sequences

CONSTANTS
    Call,           \* the calls that may be made
    Configurations, \* records [tools, source]: connectors built, workbook kind
    Faults,         \* "lost" answers, HTTP "status" errors, "store", "crash",
                    \* a "revoked" consent, a "moved" Drive file
    Messages        \* how many messages a Gmail search may find

ASSUME ConnectorsAssumption ==
    /\ Faults \subseteq {"lost", "status", "store", "crash", "revoked", "moved"}
    /\ Configurations \subseteq [tools : SUBSET STRING, source : {"google", "file"}]
    /\ Messages \subseteq Nat

VARIABLES
    config,         \* the server's configuration, read at start-up
    call,           \* what each call is doing
    events,         \* audit events: which call logged what
    applied,        \* how often each call's write took place
    workbook,       \* the calls whose cells the configured workbook holds
    torn,           \* the workbook file is truncated
    inFolder,       \* the addressed Drive file is in the configured folder
    expired,        \* the Salesforce access token of the server is past its life
    consented       \* the Google account's owner consents to the scopes used

written == <<applied, workbook, torn>>
outside == <<inFolder, expired, consented>>
shared == <<events, written, outside>>
vars == <<config, call, shared>>

-----------------------------------------------------------------------------
(***************************************************************************)
(* Client requests: what one does, whether it is decorated with with_retry *)
(* and which library raises its errors                                     *)
(***************************************************************************)

Step(does, retried, client) == [does |-> does, retried |-> retried, client |-> client]
Local(does) == Step(does, FALSE, "none")

GmailGet == Step("fetch", TRUE, "google")
GmailSend == Step("put", FALSE, "google")
CalendarGet == Step("fetch", TRUE, "google")
CalendarInsert == Step("put", FALSE, "google")
DriveGet == Step("fetch", TRUE, "google")
DriveMetadata == Step("metadata", TRUE, "google")
DrivePut == Step("put", FALSE, "google")

\* update_content builds its MediaIoBaseUpload without the mimetype that the
\* class requires: it raises a TypeError before any request.
DriveUpdateContent == Local("media")

SalesforceGet == Step("fetch", TRUE, "requests")
SalesforcePut == Step("put", FALSE, "requests")
JiraGet == Step("fetch", TRUE, "requests")

\* Variant: create_issue and update_issue are decorated like the reads.
JiraPutRetried == Step("put", TRUE, "requests")
JiraPut == Step("put", FALSE, "requests")

\* The whole workbook is downloaded from Drive, or read from a local file.
LoadWorkbook(source) == Step("load", source = "google", source)

\* Drive replaces the file at once; write_bytes truncates a local file first.
SaveWorkbook(source) ==
    IF source = "google" THEN <<Step("save", FALSE, "google")>>
    ELSE <<Step("truncate", FALSE, "file"), Step("save", FALSE, "file")>>

-----------------------------------------------------------------------------
(***************************************************************************)
(* The methods of the connectors                                           *)
(***************************************************************************)

Method(tool, name, kind, steps) ==
    [tool |-> tool, name |-> name, kind |-> kind, steps |-> steps]

\* search_emails lists ids, then fetches each message; send_email refuses a
\* placeholder recipient.
GmailMethods ==
    {Method("gmail", "search_emails", "read",
            <<GmailGet>> \o [i \in 1..n |-> GmailGet]) : n \in Messages}
        \cup
    {Method("gmail", "read_message", "read", <<GmailGet>>),
     Method("gmail", "send_email", "write", <<GmailSend>>),
     Method("gmail", "send_email", "refused", <<>>)}

CalendarMethods ==
    {Method("google_calendar", "search_events", "read", <<CalendarGet>>),
     Method("google_calendar", "read_event", "read", <<CalendarGet>>),
     Method("google_calendar", "create_event", "write", <<CalendarInsert>>)}

\* Variant: only the affected sheet is looked up, nothing is loaded first.
ExcelMethodsBlind(source) ==
    {Method("excel_file", "write_range", "write",
            <<Local("compute")>> \o SaveWorkbook(source))}

\* write_range loads the whole workbook, changes the cells and saves it all.
ExcelMethods(source) ==
    {Method("excel_file", "list_worksheets", "read", <<LoadWorkbook(source)>>),
     Method("excel_file", "read_range", "read",
            <<LoadWorkbook(source), Local("compute")>>),
     Method("excel_file", "write_range", "write",
            <<LoadWorkbook(source), Local("compute")>> \o SaveWorkbook(source))}

\* Variant: read_file does not look at the file's parents.
DriveMethodsUnchecked ==
    {Method("drive", "read_file", "read", <<DriveMetadata, DriveGet>>)}

DriveMethods ==
    {Method("drive", "list_files", "read", <<DriveGet>>),
     Method("drive", "read_file", "read", <<DriveMetadata, Local("folder"), DriveGet>>),
     Method("drive", "upload_file", "write", <<Local("compute"), DrivePut>>),
     Method("drive", "update_file", "write",
            <<DriveMetadata, Local("folder"), Local("compute"), DriveUpdateContent>>)}

SalesforceMethods ==
    {Method("salesforce", "query_records", "read", <<SalesforceGet>>),
     Method("salesforce", "get_record", "read", <<SalesforceGet>>),
     Method("salesforce", "create_record", "write", <<SalesforcePut>>),
     Method("salesforce", "update_record", "write", <<SalesforcePut>>)}

JiraMethods ==
    {Method("jira", "search_issues", "read", <<JiraGet>>),
     Method("jira", "get_issue", "read", <<JiraGet>>),
     Method("jira", "create_issue", "write", <<JiraPut>>),
     Method("jira", "update_issue", "write", <<JiraPut>>)}

Methods ==
    [source \in {"google", "file"} |->
        GmailMethods \cup CalendarMethods \cup ExcelMethods(source)
            \cup DriveMethods \cup SalesforceMethods \cup JiraMethods]

-----------------------------------------------------------------------------
NoMethod == Method("none", "none", "none", <<>>)

NoCallYet ==
    [phase |-> "idle", method |-> NoMethod, at |-> 1, attempt |-> 1,
     lastError |-> "none", seen |-> FALSE, loaded |-> {}, overlapped |-> FALSE,
     reply |-> "none"]

InFlight(c) == call[c].phase \notin {"idle", "done", "dead"}
StepOf(c) == call[c].method.steps[call[c].at]
UsesGoogle ==
    \/ config.tools \cap {"gmail", "google_calendar", "drive"} # {}
    \/ "excel_file" \in config.tools /\ config.source = "google"

Editing(c) == InFlight(c) /\ call[c].method.name = "write_range"

Init ==
    /\ config \in Configurations
    /\ call = [c \in Call |-> NoCallYet]
    /\ events = {}
    /\ applied = [c \in Call |-> 0]
    /\ workbook = {}
    /\ torn = FALSE
    /\ inFolder \in (IF "drive" \in config.tools THEN BOOLEAN ELSE {FALSE})
    /\ expired = FALSE
    /\ consented = TRUE

Log(c, type) == events' = events \cup {[call |-> c, type |-> type]}

Answer(c, r) == call' = [call EXCEPT ![c].phase = "done", ![c].reply = r]
Goto(c, p) == call' = [call EXCEPT ![c].phase = p]

-----------------------------------------------------------------------------
(***************************************************************************)
(* Routes, execute_node and the base class                                 *)
(***************************************************************************)

\* _tool: the connector is not configured; nothing is recorded.
NotConfigured(c, m) ==
    /\ call[c].phase = "idle"
    /\ m.tool \notin config.tools
    /\ call' = [call EXCEPT ![c].phase = "done", ![c].reply = "503"]
    /\ UNCHANGED <<config, shared>>

Start(c, m) ==
    /\ call[c].phase = "idle"
    /\ m.tool \in config.tools
    /\ LET others == {d \in Call : m.name = "write_range" /\ Editing(d)} IN
       call' = [d \in Call |->
           IF d = c
           THEN [NoCallYet EXCEPT !.method = m, !.overlapped = others # {},
                    !.phase = IF m.kind = "read" THEN "step" ELSE "guard"]
           ELSE [call[d] EXCEPT !.overlapped = @ \/ d \in others]]
    /\ UNCHANGED <<config, shared>>

\* Variant: a write is logged once it is done, as a read is.
GuardLogsNothing(c) ==
    /\ call[c].phase = "guard" /\ call[c].method.kind = "write"
    /\ Goto(c, "step")
    /\ UNCHANGED <<config, shared>>

\* require_dry_run_guard comes before the first request.
Guard(c) ==
    /\ call[c].phase = "guard" /\ call[c].method.kind = "write"
    /\ Log(c, "executed")
    /\ Goto(c, "step")
    /\ UNCHANGED <<config, written, outside>>

\* A placeholder recipient: nothing is sent, executed = False is returned.
Refuse(c) ==
    /\ call[c].phase = "guard" /\ call[c].method.kind = "refused"
    /\ Log(c, "failed")
    /\ Answer(c, "refused")
    /\ UNCHANGED <<config, written, outside>>

\* A read method logs when it has what it returns.
LogRead(c) ==
    /\ call[c].phase = "log"
    /\ Log(c, "read")
    /\ Answer(c, "200")
    /\ UNCHANGED <<config, written, outside>>

\* Variant: the except block raises HTTPException without recording.
FailUnrecorded(c) ==
    /\ call[c].phase = "failing"
    /\ Answer(c, "502")
    /\ UNCHANGED <<config, shared>>

\* The except block of a read route or of execute_node.
RecordFailure(c) ==
    /\ call[c].phase = "failing"
    /\ Log(c, "failed")
    /\ Answer(c, "502")
    /\ UNCHANGED <<config, written, outside>>

-----------------------------------------------------------------------------
(***************************************************************************)
(* The steps of a method, and with_retry                                   *)
(***************************************************************************)

\* The step is done: on to the next one, or to the end of the method.
Advance(c, k) ==
    call' = [call EXCEPT ![c] =
        IF k.at < Len(k.method.steps)
            THEN [k EXCEPT !.at = @ + 1, !.attempt = 1]
        ELSE IF k.method.kind = "read" THEN [k EXCEPT !.phase = "log"]
        ELSE [k EXCEPT !.phase = "done", !.reply = "200"]]

\* What the external system does with a request it receives.
Processed(c) ==
    LET does == StepOf(c).does IN
    /\ applied' = IF does \in {"put", "save"} THEN [applied EXCEPT ![c] = @ + 1] ELSE applied
    /\ workbook' = IF does = "save" THEN call[c].loaded \cup {c} ELSE workbook
    /\ torn' = IF does = "truncate" THEN TRUE ELSE IF does = "save" THEN FALSE ELSE torn
    /\ UNCHANGED <<config, events, outside>>

IsRequest(s) == s.client # "none"

\* Whether a request's credentials are accepted: Google's are renewed if need
\* be, Salesforce's Authorization header is built from the token that was
\* fetched when the server started.
Admitted(c) ==
    /\ StepOf(c).client = "google" => consented
    /\ call[c].method.tool = "salesforce" => ~expired

Request(c) ==
    LET k == call[c] IN
    /\ k.phase = "step" /\ IsRequest(StepOf(c))
    /\ Admitted(c)
    /\ StepOf(c).does = "load" => ~torn
    /\ Processed(c)
    /\ Advance(c, CASE StepOf(c).does = "metadata" -> [k EXCEPT !.seen = inFolder]
                    [] StepOf(c).does = "load" -> [k EXCEPT !.loaded = workbook]
                    [] OTHER -> k)

\* Local work that succeeds: the file is in the folder, the payload parses.
Compute(c) ==
    /\ call[c].phase = "step" /\ ~IsRequest(StepOf(c))
    /\ StepOf(c).does = "folder" => call[c].seen
    /\ StepOf(c).does # "media"
    /\ Advance(c, call[c])
    /\ UNCHANGED <<config, shared>>

\* Local work that raises: PermissionError for a file out of the folder,
\* BadZipFile for a truncated workbook, an unknown sheet or bad base64, and
\* always the TypeError of update_content.
ComputeRaises(c) ==
    /\ call[c].phase = "step"
    /\ \/ StepOf(c).does = "folder" /\ ~call[c].seen
       \/ StepOf(c).does = "load" /\ torn
       \/ StepOf(c).does \in {"compute", "media"}
    /\ Goto(c, "failing")
    /\ UNCHANGED <<config, shared>>

Attempts == 3

\* Is the error an OSError?  Connection errors and timeouts are, and so is
\* every exception of requests, HTTPError included; googleapiclient's
\* HttpError is not.
Transient(error, client) == error = "lost" \/ client # "google"

\* Variant: the loop does not count its attempts.
RequestRaisesUncounted(c, error) ==
    LET k == call[c]
        s == StepOf(c) IN
    /\ error \in Faults
    /\ k.phase = "step" /\ IsRequest(s)
    /\ error = "status" => s.client # "file"
    /\ (Admitted(c) /\ Processed(c)) \/ UNCHANGED <<config, shared>>
    /\ call' = [call EXCEPT ![c] =
           IF s.retried /\ Transient(error, s.client)
           THEN [k EXCEPT !.phase = "backoff", !.lastError = error]
           ELSE [k EXCEPT !.phase = "failing"]]

\* Variant: one attempt too many.
RequestRaisesOnceMore(c, error) ==
    LET k == call[c]
        s == StepOf(c) IN
    /\ error \in Faults
    /\ k.phase = "step" /\ IsRequest(s)
    /\ error = "status" => s.client # "file"
    /\ (Admitted(c) /\ Processed(c)) \/ UNCHANGED <<config, shared>>
    /\ call' = [call EXCEPT ![c] =
           IF s.retried /\ Transient(error, s.client) /\ k.attempt <= Attempts
           THEN [k EXCEPT !.phase = "backoff", !.attempt = @ + 1, !.lastError = error]
           ELSE [k EXCEPT !.phase = "failing"]]

\* Variant: the error is swallowed and the method goes on without a result.
RequestRaisesInVain(c, error) ==
    /\ error \in Faults
    /\ call[c].phase = "step" /\ IsRequest(StepOf(c))
    /\ (Admitted(c) /\ Processed(c)) \/ UNCHANGED <<config, shared>>
    /\ Advance(c, call[c])

\* A request raises: the answer was lost, before or after the request took
\* place, or it is an HTTP error status (a gateway's, perhaps).
RequestRaises(c, error) ==
    LET k == call[c]
        s == StepOf(c) IN
    /\ error \in Faults
    /\ k.phase = "step" /\ IsRequest(s)
    /\ error = "status" => s.client # "file"
    /\ (Admitted(c) /\ Processed(c)) \/ UNCHANGED <<config, shared>>
    /\ call' = [call EXCEPT ![c] =
           IF s.retried /\ Transient(error, s.client) /\ k.attempt < Attempts
           THEN [k EXCEPT !.phase = "backoff", !.attempt = @ + 1, !.lastError = error]
           ELSE [k EXCEPT !.phase = "failing"]]

\* The request is turned down: HTTP 401 from Salesforce, RefreshError, which
\* is not an OSError, from Google.
Unauthorized(c) ==
    LET k == call[c]
        s == StepOf(c) IN
    /\ k.phase = "step" /\ IsRequest(s)
    /\ ~Admitted(c)
    /\ call' = [call EXCEPT ![c] =
           IF s.retried /\ Transient("auth", s.client) /\ k.attempt < Attempts
           THEN [k EXCEPT !.phase = "backoff", !.attempt = @ + 1, !.lastError = "auth"]
           ELSE [k EXCEPT !.phase = "failing", !.lastError = "auth"]]
    /\ UNCHANGED <<config, shared>>

\* time.sleep(base_delay_seconds * attempt) is over.
Backoff(c) ==
    /\ call[c].phase = "backoff"
    /\ Goto(c, "step")
    /\ UNCHANGED <<config, shared>>

-----------------------------------------------------------------------------
(***************************************************************************)
(* Faults of the server, and what others do                                *)
(***************************************************************************)

\* log_event raises inside the try block.
StoreRaises(c) ==
    /\ "store" \in Faults
    /\ call[c].phase \in {"guard", "log"}
    /\ Goto(c, "failing")
    /\ UNCHANGED <<config, shared>>

\* record_failure raises: a read route answers 500, and decide_action, which
\* catches whatever leaves the graph, 502.
StoreRaisesAgain(c) ==
    /\ "store" \in Faults
    /\ call[c].phase = "failing"
    /\ Answer(c, IF call[c].method.kind = "read" THEN "500" ELSE "502")
    /\ UNCHANGED <<config, shared>>

\* The server dies with its calls, and its successor gets its own tokens.
Restart ==
    /\ "crash" \in Faults
    /\ \E c \in Call : InFlight(c)
    /\ call' = [c \in Call |-> IF InFlight(c) THEN [call[c] EXCEPT !.phase = "dead"] ELSE call[c]]
    /\ expired' = FALSE
    /\ UNCHANGED <<config, events, written, inFolder, consented>>

\* The access token outlives what Salesforce grants it.
Expire ==
    /\ "salesforce" \in config.tools
    /\ expired' = TRUE
    /\ UNCHANGED <<config, call, events, written, inFolder, consented>>

\* The owner of the Google account withdraws the consent.  (A token that was
\* never consented to for a connector's scope fails the same way.)
Revoke ==
    /\ "revoked" \in Faults /\ UsesGoogle
    /\ consented' = FALSE
    /\ UNCHANGED <<config, call, events, written, inFolder, expired>>

\* Somebody moves the Drive file.
MoveFile ==
    /\ "moved" \in Faults /\ "drive" \in config.tools
    /\ inFolder' = ~inFolder
    /\ UNCHANGED <<config, call, events, written, expired, consented>>

Arrive(c) == \E m \in Methods[config.source] : NotConfigured(c, m) \/ Start(c, m)

Run(c) ==
    \/ Guard(c)
    \/ Refuse(c)
    \/ LogRead(c)
    \/ RecordFailure(c)
    \/ Request(c)
    \/ Compute(c)
    \/ ComputeRaises(c)
    \/ \E error \in {"lost", "status"} : RequestRaises(c, error)
    \/ Unauthorized(c)
    \/ Backoff(c)
    \/ StoreRaises(c)
    \/ StoreRaisesAgain(c)

Next ==
    \/ \E c \in Call : Arrive(c) \/ Run(c)
    \/ Restart
    \/ Expire
    \/ Revoke
    \/ MoveFile

Spec == Init /\ [][Next]_vars

\* Threads run on as long as one of them can: every request, having a
\* timeout, returns or raises.
FairSpec == Spec /\ WF_vars(\E c \in Call : Run(c))

-----------------------------------------------------------------------------
(***************************************************************************)
(* Properties                                                              *)
(***************************************************************************)

Called(c) ==
    /\ call[c].phase \in {"idle", "guard", "step", "backoff", "log", "failing", "done", "dead"}
    /\ call[c].method \in Methods[config.source] \cup {NoMethod}
    /\ call[c].at \in 1..(Len(call[c].method.steps) + 1)
    /\ call[c].attempt \in 1..Attempts
    /\ call[c].lastError \in {"none", "lost", "status", "auth"}
    /\ call[c].seen \in BOOLEAN
    /\ call[c].loaded \subseteq Call
    /\ call[c].overlapped \in BOOLEAN
    /\ call[c].reply \in {"none", "200", "refused", "500", "502", "503"}

TypeOK ==
    /\ config \in Configurations
    /\ \A c \in Call : Called(c)
    /\ events \subseteq [call : Call, type : {"read", "executed", "failed"}]
    /\ applied \in [Call -> Nat]
    /\ workbook \subseteq Call
    /\ torn \in BOOLEAN
    /\ inFolder \in BOOLEAN
    /\ expired \in BOOLEAN
    /\ consented \in BOOLEAN

Logged(c, type) == [call |-> c, type |-> type] \in events

\* A write request is never repeated, whatever its connection does: no call
\* writes twice, and no read or refused call writes at all.
WritesOnce ==
    \A c \in Call : applied[c] <= IF call[c].method.kind = "write" THEN 1 ELSE 0

\* A success is real and on the record: the read was logged, the write took
\* place, and nothing of it was logged as failed.
SuccessIsReal ==
    \A c \in Call : call[c].reply = "200" =>
        /\ ~Logged(c, "failed")
        /\ IF call[c].method.kind = "read" THEN Logged(c, "read") ELSE applied[c] = 1

\* A failed read is on the record, and on a server without the connector
\* nothing is; only a failing store keeps a failure out (500).
FailureIsRecorded ==
    \A c \in Call :
        /\ call[c].reply = "502" /\ call[c].method.kind = "read" => Logged(c, "failed")
        /\ call[c].reply = "503" => \A e \in events : e.call # c

\* No external system is changed before the call's action_executed event,
\* down to the truncation of the workbook file.
AuditedBeforeWriting ==
    /\ \A c \in Call : applied[c] > 0 => Logged(c, "executed")
    /\ torn => \E c \in Call : call[c].method.name = "write_range" /\ Logged(c, "executed")

\* The content of a Drive file is read or replaced only by a call that saw
\* the file in the configured folder.  (That leaves read_file: update_file
\* fails right after its check.)
FolderRespected ==
    \A c \in Call :
        (/\ call[c].method.name \in {"read_file", "update_file"}
         /\ call[c].reply = "200" \/ applied[c] > 0)
            => call[c].seen

\* What a successful write_range wrote stays in the workbook for good,
\* unless another write_range was at work at the same time (nothing locks
\* the workbook: the one that saves last restores the other's old cells) or
\* a local file was left truncated between truncation and writing.
WorkbookKeepsWrites ==
    \/ \A c \in Call :
           call[c].method.name = "write_range" /\ call[c].reply = "200"
               => call[c].overlapped \/ c \in workbook
    \/ torn /\ config.source = "file"

\* What execute_node sees of a call of a write method.
Stage(c) ==
    LET k == call[c] IN
    IF k.method.kind \notin {"write", "refused"} THEN "execute"
    ELSE CASE k.phase = "guard" -> "execute"
           [] k.phase \in {"step", "backoff"} -> "acting"
           [] k.phase = "failing" -> "failing"
           [] k.phase = "done" ->
                  (CASE k.reply = "200" -> "acted"
                     [] k.reply = "refused" -> "refused"
                     [] OTHER -> "failing")
           [] OTHER -> "over"

Tool == INSTANCE ToolWrite WITH stage <- [c \in Call |-> Stage(c)], made <- applied

\* Every write method of every connector does what ActionGraph takes a tool
\* call to do: it is audited, then made at most once, and if it returns it
\* was made; with_retry, the requests before the write and the answers that
\* are lost do not show.
ToolWriteSpec == Tool!Spec

\* Whoever calls is answered: the retries of a request come to an end.
\* (Calls are finitely many.)
EveryCallIsAnswered == <>[](\A c \in Call : ~InFlight(c))

-----------------------------------------------------------------------------
(***************************************************************************)
(* What the comments say and the code does not keep                        *)
(***************************************************************************)

\* An HTTP error status is not retried, and an expired token's least of all.
StatusIsNotRetried ==
    \A c \in Call : call[c].phase = "backoff" => call[c].lastError \notin {"status", "auth"}
=============================================================================
