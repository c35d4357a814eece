--------------------------- MODULE ConnectorsInv ----------------------------
(***************************************************************************)
(* The inductive invariant behind the safety properties of Connectors:     *)
(* what is known of a call wherever it is in its method.                   *)
(***************************************************************************)
EXTENDS Connectors

Phase == {"idle", "guard", "step", "backoff", "log", "failing", "done", "dead"}
Reply == {"none", "200", "refused", "500", "502", "503"}
StepRecord ==
    [does : {"fetch", "metadata", "load", "folder", "compute", "media", "truncate", "put",
             "save"},
     retried : BOOLEAN, client : {"none", "google", "requests", "file"}]
ToolName == {"none", "gmail", "google_calendar", "excel_file", "drive", "salesforce", "jira"}
MethodName ==
    {"none", "search_emails", "read_message", "send_email", "search_events", "read_event",
     "create_event", "list_worksheets", "read_range", "write_range", "list_files",
     "read_file", "upload_file", "update_file", "query_records", "get_record",
     "create_record", "update_record", "search_issues", "get_issue", "create_issue",
     "update_issue"}
MethodRecord ==
    [tool : ToolName, name : MethodName, kind : {"none", "read", "write", "refused"},
     steps : Seq(StepRecord)]
CallRecord ==
    [phase : Phase, method : MethodRecord, at : Nat, attempt : 1..Attempts,
     lastError : {"none", "lost", "status", "auth"}, seen : BOOLEAN,
     loaded : SUBSET Call, overlapped : BOOLEAN, reply : Reply]

Writing == {"put", "save"}
Ending == Writing \cup {"media"}
Guarded == {"read_file", "update_file"}

\* What the properties need of a method: only a write method changes
\* anything, by its last step, which is not retried (update_file never makes
\* it); a workbook is loaded first; a Drive file is looked up and checked
\* before anything else.
Shape(m) ==
    LET last == Len(m.steps)
        does(i) == m.steps[i].does IN
    /\ m \in MethodRecord
    /\ m.kind \in {"read", "write", "refused"}
    /\ m.kind # "refused" => last > 0
    /\ \A i \in 1..last :
           /\ does(i) \in Ending <=> m.kind = "write" /\ i = last
           /\ does(i) \in Writing => ~m.steps[i].retried
           /\ does(i) \in {"truncate", "save"} => m.name = "write_range"
           /\ does(i) = "metadata" \/ does(i) = "load" => i = 1
           /\ does(i) \in {"folder", "compute", "media"} <=> m.steps[i].client = "none"
    /\ m.name = "write_range" =>
           m.kind = "write" /\ last > 2 /\ does(1) = "load" /\ does(last) = "save"
    /\ m.name \in Guarded => last > 2 /\ does(2) = "folder"

-----------------------------------------------------------------------------
NothingLogged(c) == \A type \in {"read", "executed", "failed"} : ~Logged(c, type)
Last(c) == Len(call[c].method.steps)
IsWrite(c) == call[c].method.kind = "write"

\* A call that has not begun, or found no connector, left no trace.
NoTrace(c) ==
    call[c].phase = "idle" \/ call[c].reply = "503" =>
        /\ call[c].method = NoMethod
        /\ applied[c] = 0
        /\ NothingLogged(c)

HasMethod(c) ==
    \/ call[c].method \in Methods[config.source]
    \/ call[c].method = NoMethod /\ (call[c].phase = "idle" \/ call[c].reply = "503")

\* Where a call is tells how far it is in its method.
PlaceInMethod(c) ==
    /\ call[c].at \in 1..(Last(c) + 1)
    /\ call[c].phase = "idle" => call[c] = NoCallYet
    /\ call[c].phase = "guard" => call[c].at = 1 /\ call[c].method.kind # "read"
    /\ call[c].phase \in {"step", "backoff"} =>
           call[c].at <= Last(c) /\ call[c].method.kind # "refused"
    /\ call[c].phase = "log" => call[c].at = Last(c) /\ call[c].method.kind = "read"
    /\ call[c].phase = "done" <=> call[c].reply # "none"

\* On its way a call has changed nothing and failed nowhere; a write in its
\* method is on the record.
OnItsWay(c) ==
    /\ call[c].phase \in {"guard", "step", "backoff", "log"} =>
           applied[c] = 0 /\ ~Logged(c, "failed")
    /\ call[c].phase \in {"step", "backoff"} /\ IsWrite(c) => Logged(c, "executed")

\* What was written was written by the last step of an audited write.
Wrote(c) ==
    /\ applied[c] \in {0, 1}
    /\ applied[c] = 1 => IsWrite(c) /\ Logged(c, "executed") /\ call[c].at = Last(c)

\* The folder check lies behind a call that is past its second step.
FolderSeen(c) == call[c].method.name \in Guarded /\ call[c].at > 2 => call[c].seen

Replied(c) ==
    /\ call[c].reply = "200" =>
           /\ call[c].at = Last(c) /\ ~Logged(c, "failed")
           /\ IF call[c].method.kind = "read" THEN Logged(c, "read") ELSE applied[c] = 1
    /\ call[c].reply = "502" /\ call[c].method.kind = "read" => Logged(c, "failed")

CallInv(c) ==
    /\ NoTrace(c)
    /\ HasMethod(c)
    /\ PlaceInMethod(c)
    /\ OnItsWay(c)
    /\ Wrote(c)
    /\ FolderSeen(c)
    /\ Replied(c)

-----------------------------------------------------------------------------
(***************************************************************************)
(* The workbook                                                            *)
(***************************************************************************)

TornByAWrite ==
    torn => \E c \in Call : call[c].method.name = "write_range" /\ Logged(c, "executed")

\* Of two calls at work on the workbook, both know that there are two.
OverlapIsNoted ==
    \A c, d \in Call : c # d /\ Editing(c) /\ Editing(d) => call[c].overlapped

\* The cells of a write that had the workbook to itself are in it, and in
\* every copy that was loaded since: a copy that is older belongs to a call
\* it overlapped with.
CellsAreKept ==
    \A c \in Call :
        call[c].method.name = "write_range" /\ call[c].reply = "200" /\ ~call[c].overlapped =>
            /\ c \in workbook
            /\ \A d \in Call : Editing(d) /\ call[d].at > 1 => c \in call[d].loaded

Types ==
    /\ config \in Configurations
    /\ call \in [Call -> CallRecord]
    /\ events \subseteq [call : Call, type : {"read", "executed", "failed"}]
    /\ applied \in [Call -> Nat]
    /\ workbook \subseteq Call
    /\ torn \in BOOLEAN
    /\ inFolder \in BOOLEAN
    /\ expired \in BOOLEAN
    /\ consented \in BOOLEAN

CallsInv == \A c \in Call : CallInv(c)

\* The inductive invariant.
IInv ==
    /\ Types
    /\ CallsInv
    /\ TornByAWrite
    /\ OverlapIsNoted
    /\ CellsAreKept
=============================================================================
