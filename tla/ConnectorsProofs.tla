-------------------------- MODULE ConnectorsProofs --------------------------
(***************************************************************************)
(* Theorems about Connectors for any calls, servers, faults and sizes of   *)
(* search results: IInv is inductive, and the safety properties follow.    *)
(***************************************************************************)
EXTENDS ConnectorsInv, TLAPS

-----------------------------------------------------------------------------
(***************************************************************************)
(* The methods                                                             *)
(***************************************************************************)

LEMMA MethodNames ==
    ASSUME NEW source \in {"google", "file"}, NEW m \in Methods[source]
    PROVE  m \in GmailMethods \cup CalendarMethods \cup ExcelMethods(source)
                     \cup DriveMethods \cup SalesforceMethods \cup JiraMethods
BY DEF Methods

\* A method that makes one request: it reads, or it writes without a retry.
LEMMA OneStepShape ==
    ASSUME NEW m \in MethodRecord, Len(m.steps) = 1,
           m.name \notin Guarded \cup {"write_range"},
           m.steps[1].client # "none",
           \/ m.kind = "read" /\ m.steps[1].does = "fetch"
           \/ m.kind = "write" /\ m.steps[1].does = "put" /\ ~m.steps[1].retried
    PROVE  Shape(m)
<1>1. \A i \in 1..Len(m.steps) : i = 1
  OBVIOUS
<1> QED
  BY <1>1 DEF Shape, Ending, Writing, Guarded

LEMMA OneRequestShape ==
    ASSUME NEW tool \in ToolName, NEW name \in MethodName \ (Guarded \cup {"write_range"}),
           NEW kind, NEW s \in StepRecord, s.client # "none",
           \/ kind = "read" /\ s.does = "fetch"
           \/ kind = "write" /\ s.does = "put" /\ ~s.retried
    PROVE  Shape(Method(tool, name, kind, <<s>>))
<1> DEFINE m == Method(tool, name, kind, <<s>>)
<1>1. m \in MethodRecord
  BY DEF Method, MethodRecord
<1>2. m.kind = kind /\ m.name = name
  BY DEF Method
<1>3. Len(m.steps) = 1 /\ m.steps[1] = s
  BY DEF Method
<1> HIDE DEF m
<1>4. Shape(m)
  BY <1>1, <1>2, <1>3, OneStepShape
<1> QED
  BY <1>4 DEF m

\* The requests are of the types of requests.
LEMMA Requests ==
    /\ \A s \in {GmailGet, CalendarGet, DriveGet, SalesforceGet, JiraGet} :
           s \in StepRecord /\ s.client # "none" /\ s.does = "fetch"
    /\ \A s \in {GmailSend, CalendarInsert, DrivePut, SalesforcePut, JiraPut} :
           s \in StepRecord /\ s.client # "none" /\ s.does = "put" /\ ~s.retried
BY DEF GmailGet, CalendarGet, DriveGet, SalesforceGet, JiraGet, GmailSend, CalendarInsert,
       DrivePut, SalesforcePut, JiraPut, Step, StepRecord

LEMMA GmailShape == \A m \in GmailMethods : Shape(m)
<1> SUFFICES ASSUME NEW m \in GmailMethods PROVE Shape(m)
  OBVIOUS
<1>1. CASE \E n \in Messages : m = Method("gmail", "search_emails", "read",
                                    <<GmailGet>> \o [i \in 1..n |-> GmailGet])
  <2>1. PICK n \in Messages : m = Method("gmail", "search_emails", "read",
                                    <<GmailGet>> \o [i \in 1..n |-> GmailGet])
    BY <1>1
  <2> DEFINE first == <<GmailGet>>
             rest == [i \in 1..n |-> GmailGet]
  <2>2. n \in Nat
    BY ConnectorsAssumption
  <2>3. GmailGet \in StepRecord
    BY DEF GmailGet, Step, StepRecord
  <2>4. first \in Seq(StepRecord) /\ Len(first) = 1 /\ first[1] = GmailGet
    BY <2>3
  <2>5. rest \in Seq(StepRecord) /\ Len(rest) = n
    BY <2>2, <2>3
  <2>6. m.steps = first \o rest /\ m.kind = "read" /\ m.name = "search_emails" /\ m.tool = "gmail"
    BY <2>1 DEF Method
  <2>7. m.steps \in Seq(StepRecord) /\ Len(m.steps) = n + 1
    BY <2>2, <2>4, <2>5, <2>6
  <2>8. \A i \in 1..(n + 1) : m.steps[i] = GmailGet
    BY <2>2, <2>4, <2>5, <2>6
  <2> HIDE DEF first, rest
  <2>9. m \in MethodRecord
    BY <2>1, <2>7 DEF Method, MethodRecord, ToolName, MethodName
  <2> QED
    BY <2>2, <2>6, <2>7, <2>8, <2>9 DEF Shape, GmailGet, Step, Ending, Writing, Guarded
<1>2. CASE m = Method("gmail", "send_email", "refused", <<>>)
  <2>1. m \in MethodRecord
    BY <1>2 DEF Method, MethodRecord, ToolName, MethodName
  <2>2. Len(m.steps) = 0 /\ m.kind = "refused" /\ m.name = "send_email"
    BY <1>2 DEF Method
  <2> QED
    BY <2>1, <2>2 DEF Shape, Guarded
<1>3. CASE m \in {Method("gmail", "read_message", "read", <<GmailGet>>),
                  Method("gmail", "send_email", "write", <<GmailSend>>)}
  BY <1>3, OneRequestShape, Requests DEF ToolName, MethodName, Guarded
<1> QED
  BY <1>1, <1>2, <1>3 DEF GmailMethods

LEMMA CalendarShape == \A m \in CalendarMethods : Shape(m)
BY OneRequestShape, Requests DEF CalendarMethods, ToolName, MethodName, Guarded

LEMMA SalesforceShape == \A m \in SalesforceMethods : Shape(m)
BY OneRequestShape, Requests DEF SalesforceMethods, ToolName, MethodName, Guarded

LEMMA JiraShape == \A m \in JiraMethods : Shape(m)
BY OneRequestShape, Requests DEF JiraMethods, ToolName, MethodName, Guarded

LEMMA DriveShape == \A m \in DriveMethods : Shape(m)
<1> SUFFICES ASSUME NEW m \in DriveMethods PROVE Shape(m)
  OBVIOUS
<1>1. DriveMetadata \in StepRecord /\ DriveMetadata.does = "metadata" /\ DriveMetadata.client = "google"
  BY DEF DriveMetadata, Step, StepRecord
<1>2. \A does \in {"folder", "compute", "media"} :
        Local(does) \in StepRecord /\ Local(does).does = does /\ Local(does).client = "none"
  BY DEF Local, Step, StepRecord
<1>3. CASE m = Method("drive", "list_files", "read", <<DriveGet>>)
  BY <1>3, OneRequestShape, Requests DEF ToolName, MethodName, Guarded
<1>4. CASE m = Method("drive", "read_file", "read", <<DriveMetadata, Local("folder"), DriveGet>>)
  <2>1. m \in MethodRecord
    BY <1>1, <1>2, <1>4, Requests DEF Method, MethodRecord, ToolName, MethodName
  <2>2. m.kind = "read" /\ m.name = "read_file" /\ Len(m.steps) = 3
    BY <1>4 DEF Method
  <2>3. m.steps[1] = DriveMetadata /\ m.steps[2] = Local("folder") /\ m.steps[3] = DriveGet
    BY <1>4 DEF Method
  <2> QED
    BY <1>1, <1>2, <2>1, <2>2, <2>3, Requests DEF Shape, Ending, Writing, Guarded
<1>5. CASE m = Method("drive", "upload_file", "write", <<Local("compute"), DrivePut>>)
  <2>1. m \in MethodRecord
    BY <1>2, <1>5, Requests DEF Method, MethodRecord, ToolName, MethodName
  <2>2. m.kind = "write" /\ m.name = "upload_file" /\ Len(m.steps) = 2
    BY <1>5 DEF Method
  <2>3. m.steps[1] = Local("compute") /\ m.steps[2] = DrivePut
    BY <1>5 DEF Method
  <2> QED
    BY <1>2, <2>1, <2>2, <2>3, Requests DEF Shape, Ending, Writing, Guarded
<1>6. CASE m = Method("drive", "update_file", "write",
                      <<DriveMetadata, Local("folder"), Local("compute"), DriveUpdateContent>>)
  <2>1. m \in MethodRecord
    BY <1>1, <1>2, <1>6, Requests
       DEF Method, MethodRecord, ToolName, MethodName, DriveUpdateContent
  <2>2. m.kind = "write" /\ m.name = "update_file" /\ Len(m.steps) = 4
    BY <1>6 DEF Method
  <2>3. /\ m.steps[1] = DriveMetadata /\ m.steps[2] = Local("folder")
        /\ m.steps[3] = Local("compute") /\ m.steps[4] = Local("media")
    BY <1>6 DEF Method, DriveUpdateContent
  <2> QED
    BY <1>1, <1>2, <2>1, <2>2, <2>3, Requests DEF Shape, Ending, Writing, Guarded
<1> QED
  BY <1>3, <1>4, <1>5, <1>6 DEF DriveMethods

LEMMA ExcelShape ==
    ASSUME NEW source \in {"google", "file"}, NEW m \in ExcelMethods(source)
    PROVE  Shape(m)
<1> DEFINE load == LoadWorkbook(source)
           compute == Local("compute")
           save == Step("save", FALSE, source)
           truncate == Step("truncate", FALSE, "file")
<1>1. load \in StepRecord /\ load.does = "load" /\ load.client # "none"
  BY DEF LoadWorkbook, Step, StepRecord
<1>2. compute \in StepRecord /\ compute.does = "compute" /\ compute.client = "none"
  BY DEF Local, Step, StepRecord
<1>3. save \in StepRecord /\ save.does = "save" /\ save.client # "none" /\ ~save.retried
  BY DEF Step, StepRecord
<1>4. truncate \in StepRecord /\ truncate.does = "truncate" /\ truncate.client # "none"
  BY DEF Step, StepRecord
<1>5. SaveWorkbook(source) = IF source = "google" THEN <<save>> ELSE <<truncate, save>>
  BY DEF SaveWorkbook
<1> HIDE DEF load, compute, save, truncate
<1>6. CASE m = Method("excel_file", "list_worksheets", "read", <<load>>)
  <2>1. m \in MethodRecord
    BY <1>1, <1>6 DEF Method, MethodRecord, ToolName, MethodName
  <2>2. m.kind = "read" /\ m.name = "list_worksheets" /\ Len(m.steps) = 1 /\ m.steps[1] = load
    BY <1>6 DEF Method
  <2> QED
    BY <1>1, <2>1, <2>2 DEF Shape, Ending, Writing, Guarded
<1>7. CASE m = Method("excel_file", "read_range", "read", <<load, compute>>)
  <2>1. m \in MethodRecord
    BY <1>1, <1>2, <1>7 DEF Method, MethodRecord, ToolName, MethodName
  <2>2. m.kind = "read" /\ m.name = "read_range" /\ Len(m.steps) = 2
    BY <1>7 DEF Method
  <2>3. m.steps[1] = load /\ m.steps[2] = compute
    BY <1>7 DEF Method
  <2> QED
    BY <1>1, <1>2, <2>1, <2>2, <2>3 DEF Shape, Ending, Writing, Guarded
<1>8. CASE m = Method("excel_file", "write_range", "write",
                      <<load, compute>> \o SaveWorkbook(source))
  <2>1. m.kind = "write" /\ m.name = "write_range" /\ m.tool = "excel_file"
    BY <1>8 DEF Method
  <2>2. CASE source = "google"
    <3>1. m.steps = <<load, compute>> \o <<save>>
      BY <1>5, <1>8, <2>2 DEF Method
    <3>2. /\ m.steps \in Seq(StepRecord) /\ Len(m.steps) = 3
          /\ m.steps[1] = load /\ m.steps[2] = compute /\ m.steps[3] = save
      BY <1>1, <1>2, <1>3, <3>1
    <3>3. m \in MethodRecord
      BY <1>8, <3>2 DEF Method, MethodRecord, ToolName, MethodName
    <3> QED
      BY <1>1, <1>2, <1>3, <2>1, <3>2, <3>3 DEF Shape, Ending, Writing, Guarded
  <2>3. CASE source = "file"
    <3>1. m.steps = <<load, compute>> \o <<truncate, save>>
      BY <1>5, <1>8, <2>3 DEF Method
    <3>2. /\ m.steps \in Seq(StepRecord) /\ Len(m.steps) = 4
          /\ m.steps[1] = load /\ m.steps[2] = compute
          /\ m.steps[3] = truncate /\ m.steps[4] = save
      BY <1>1, <1>2, <1>3, <1>4, <3>1
    <3>3. m \in MethodRecord
      BY <1>8, <3>2 DEF Method, MethodRecord, ToolName, MethodName
    <3> QED
      BY <1>1, <1>2, <1>3, <1>4, <2>1, <3>2, <3>3 DEF Shape, Ending, Writing, Guarded
  <2> QED
    BY <2>2, <2>3
<1> QED
  BY <1>6, <1>7, <1>8 DEF ExcelMethods, load, compute

\* Every method of every connector has the shape.
LEMMA MethodShape ==
    ASSUME NEW source \in {"google", "file"}, NEW m \in Methods[source]
    PROVE  Shape(m)
BY MethodNames, GmailShape, CalendarShape, SalesforceShape, JiraShape, DriveShape, ExcelShape

-----------------------------------------------------------------------------
(***************************************************************************)
(* What the invariant says of a call's next step                           *)
(***************************************************************************)

LEMMA SourceKnown ==
    ASSUME Types
    PROVE  config.source \in {"google", "file"}
BY ConnectorsAssumption DEF Types

LEMMA HasShape ==
    ASSUME Types, NEW c \in Call, HasMethod(c), call[c].phase # "idle", call[c].reply = "none"
    PROVE  call[c].method \in Methods[config.source] /\ Shape(call[c].method)
BY SourceKnown, MethodShape DEF HasMethod

\* The step a call is at, as its method's shape has it.
LEMMA AtStep ==
    ASSUME Types, NEW c \in Call, CallInv(c), call[c].phase \in {"step", "backoff"}
    PROVE  LET s == StepOf(c) IN
           /\ call[c].reply = "none"
           /\ Shape(call[c].method)
           /\ call[c].method.kind \in {"read", "write"}
           /\ call[c].at \in 1..Last(c)
           /\ s \in StepRecord
           /\ s.does \in Ending <=> IsWrite(c) /\ call[c].at = Last(c)
           /\ s.does \in Writing => ~s.retried
           /\ s.does \in {"truncate", "save"} => call[c].method.name = "write_range"
           /\ s.does = "metadata" \/ s.does = "load" => call[c].at = 1
           /\ s.does \in {"folder", "compute", "media"} <=> s.client = "none"
           /\ call[c].method.name = "write_range" =>
                  /\ IsWrite(c) /\ Last(c) > 2
                  /\ call[c].at = 1 => s.does = "load"
                  /\ call[c].at = Last(c) => s.does = "save"
           /\ call[c].method.name \in Guarded =>
                  Last(c) > 2 /\ (call[c].at = 2 => s.does = "folder")
<1>1. call[c].reply = "none" /\ call[c].phase # "idle"
  BY DEF CallInv, PlaceInMethod
<1>2. Shape(call[c].method)
  BY <1>1, HasShape DEF CallInv
<1>3. call[c].at \in 1..Last(c) /\ call[c].method.kind # "refused"
  BY DEF CallInv, PlaceInMethod
<1>4. call[c].method \in MethodRecord /\ call[c].method.kind \in {"read", "write"}
  BY <1>2, <1>3 DEF Shape
<1>5. StepOf(c) \in StepRecord
  BY <1>3, <1>4 DEF MethodRecord, StepOf, Last
<1> QED
  BY <1>1, <1>2, <1>3, <1>4, <1>5 DEF Shape, StepOf, Last, IsWrite

-----------------------------------------------------------------------------
(***************************************************************************)
(* Types                                                                   *)
(***************************************************************************)

Logging == {"read", "executed", "failed"}

LEMMA ProcessedTypes ==
    ASSUME Types, NEW c \in Call, Processed(c)
    PROVE  /\ applied' \in [Call -> Nat] /\ workbook' \subseteq Call /\ torn' \in BOOLEAN
           /\ expired' \in BOOLEAN
           /\ config' = config /\ events' = events /\ inFolder' = inFolder /\ consented' = consented
           /\ \A d \in Call : d # c => applied'[d] = applied[d]
<1>1. call[c].loaded \subseteq Call
  BY DEF Types, CallRecord
<1>2. applied' \in [Call -> Nat] /\ \A d \in Call : d # c => applied'[d] = applied[d]
  BY DEF Types, Processed
<1> QED
  BY <1>1, <1>2 DEF Types, Processed, outside

LEMMA AdvanceType ==
    ASSUME Types, NEW c \in Call, NEW k \in CallRecord, Advance(c, k)
    PROVE  call' \in [Call -> CallRecord] /\ \A d \in Call : d # c => call'[d] = call[d]
<1>1. [k EXCEPT !.at = @ + 1, !.attempt = 1] \in CallRecord
  <2>1. k.at \in Nat /\ k.at + 1 \in Nat
    BY DEF CallRecord
  <2>2. 1 \in 1..Attempts
    BY DEF Attempts
  <2> QED
    BY <2>1, <2>2 DEF CallRecord
<1>2. /\ [k EXCEPT !.phase = "log"] \in CallRecord
      /\ [k EXCEPT !.phase = "done", !.reply = "200"] \in CallRecord
  BY DEF CallRecord, Phase, Reply
<1> QED
  BY <1>1, <1>2 DEF Types, Advance

LEMMA LogTypes ==
    ASSUME Types, NEW c \in Call, NEW type \in Logging, Log(c, type)
    PROVE  /\ events' \subseteq [call : Call, type : {"read", "executed", "failed"}]
           /\ \A d \in Call : \A t \in Logging :
                  Logged(d, t)' <=> Logged(d, t) \/ (d = c /\ t = type)
BY DEF Types, Log, Logged, Logging

\* What a step of c leaves to the others.
Alone(c) ==
    /\ config' = config /\ inFolder' = inFolder /\ consented' = consented
    /\ \A d \in Call : d # c =>
           /\ call'[d] = call[d]
           /\ applied'[d] = applied[d]
           /\ \A type \in Logging : Logged(d, type)' <=> Logged(d, type)

LEMMA RunTypes ==
    ASSUME Types, NEW c \in Call, Run(c)
    PROVE  Types' /\ Alone(c)
<1>1. call[c] \in CallRecord /\ call \in [Call -> CallRecord]
  BY DEF Types
<1>2. ASSUME call' \in [Call -> CallRecord], \A d \in Call : d # c => call'[d] = call[d],
             config' = config, UNCHANGED shared
      PROVE  Types' /\ Alone(c)
  BY <1>2 DEF Alone, Types, shared, written, outside, Logged
<1>3. ASSUME call' \in [Call -> CallRecord], \A d \in Call : d # c => call'[d] = call[d],
             config' = config, NEW type \in Logging, Log(c, type), UNCHANGED <<written, outside>>
      PROVE  Types' /\ Alone(c)
  BY <1>3, LogTypes DEF Alone, Types, written, outside
<1>4. ASSUME call' \in [Call -> CallRecord], \A d \in Call : d # c => call'[d] = call[d],
             Processed(c)
      PROVE  Types' /\ Alone(c)
  BY <1>4, ProcessedTypes DEF Alone, Types, Logged
<1>5. \A p \in Phase, r \in Reply :
        /\ [call[c] EXCEPT !.phase = p] \in CallRecord
        /\ [call[c] EXCEPT !.phase = p, !.reply = r] \in CallRecord
  BY <1>1 DEF CallRecord
<1>6. \A p \in Phase : Goto(c, p) =>
        call' \in [Call -> CallRecord] /\ \A d \in Call : d # c => call'[d] = call[d]
  <2> SUFFICES ASSUME NEW p \in Phase, Goto(c, p)
               PROVE  call' \in [Call -> CallRecord] /\ \A d \in Call : d # c => call'[d] = call[d]
    OBVIOUS
  <2>1. [call[c] EXCEPT !.phase = p] \in CallRecord
    BY <1>1 DEF CallRecord
  <2>2. call' = [call EXCEPT ![c] = [call[c] EXCEPT !.phase = p]]
    BY <1>1 DEF Goto
  <2> QED
    BY <1>1, <2>1, <2>2
<1>7. \A r \in Reply : Answer(c, r) =>
        call' \in [Call -> CallRecord] /\ \A d \in Call : d # c => call'[d] = call[d]
  <2> SUFFICES ASSUME NEW r \in Reply, Answer(c, r)
               PROVE  call' \in [Call -> CallRecord] /\ \A d \in Call : d # c => call'[d] = call[d]
    OBVIOUS
  <2>1. [call[c] EXCEPT !.phase = "done", !.reply = r] \in CallRecord
    BY <1>5 DEF Phase
  <2>2. call' = [call EXCEPT ![c] = [call[c] EXCEPT !.phase = "done", !.reply = r]]
    BY <1>1 DEF Answer
  <2> QED
    BY <1>1, <2>1, <2>2
<1>8. CASE Guard(c)
  BY <1>3, <1>6, <1>8 DEF Guard, Logging, Phase
<1>9. CASE Refuse(c)
  BY <1>3, <1>7, <1>9 DEF Refuse, Logging, Reply
<1>10. CASE LogRead(c)
  BY <1>3, <1>7, <1>10 DEF LogRead, Logging, Reply
<1>11. CASE RecordFailure(c)
  BY <1>3, <1>7, <1>11 DEF RecordFailure, Logging, Reply
<1>12. CASE Request(c)
  <2>1. /\ [call[c] EXCEPT !.seen = inFolder] \in CallRecord
        /\ [call[c] EXCEPT !.loaded = workbook] \in CallRecord
    BY <1>1 DEF CallRecord, Types
  <2>2. PICK k \in CallRecord : Advance(c, k)
    BY <1>1, <1>12, <2>1 DEF Request
  <2> QED
    BY <1>4, <1>12, <2>2, AdvanceType DEF Request
<1>13. CASE Compute(c)
  BY <1>1, <1>2, <1>13, AdvanceType DEF Compute
<1>14. CASE ComputeRaises(c)
  BY <1>2, <1>6, <1>14 DEF ComputeRaises, Phase
<1>15. CASE \E error \in {"lost", "status"} : RequestRaises(c, error)
  <2>1. PICK error \in {"lost", "status"} : RequestRaises(c, error)
    BY <1>15
  <2>2. /\ call[c].attempt < Attempts =>
             [call[c] EXCEPT !.phase = "backoff", !.attempt = @ + 1, !.lastError = error] \in CallRecord
        /\ [call[c] EXCEPT !.phase = "failing"] \in CallRecord
    <3>1. call[c].attempt < Attempts => call[c].attempt + 1 \in 1..Attempts
      BY <1>1 DEF CallRecord, Attempts
    <3> QED
      BY <1>1, <3>1 DEF CallRecord, Phase
  <2>3. call' \in [Call -> CallRecord] /\ \A d \in Call : d # c => call'[d] = call[d]
    BY <1>1, <2>1, <2>2 DEF RequestRaises
  <2>4. Processed(c) \/ UNCHANGED <<config, shared>>
    BY <2>1 DEF RequestRaises
  <2> QED
    BY <1>2, <1>4, <2>3, <2>4
<1>16. CASE Unauthorized(c)
  <2>1. /\ call[c].attempt < Attempts =>
             [call[c] EXCEPT !.phase = "backoff", !.attempt = @ + 1, !.lastError = "auth"] \in CallRecord
        /\ [call[c] EXCEPT !.phase = "failing", !.lastError = "auth"] \in CallRecord
    <3>1. call[c].attempt < Attempts => call[c].attempt + 1 \in 1..Attempts
      BY <1>1 DEF CallRecord, Attempts
    <3> QED
      BY <1>1, <3>1 DEF CallRecord, Phase
  <2>2. call' \in [Call -> CallRecord] /\ \A d \in Call : d # c => call'[d] = call[d]
    BY <1>1, <1>16, <2>1 DEF Unauthorized
  <2> QED
    BY <1>2, <1>16, <2>2 DEF Unauthorized
<1>17. CASE Backoff(c)
  BY <1>2, <1>6, <1>17 DEF Backoff, Phase
<1>18. CASE StoreRaises(c)
  BY <1>2, <1>6, <1>18 DEF StoreRaises, Phase
<1>19. CASE StoreRaisesAgain(c)
  BY <1>2, <1>7, <1>19 DEF StoreRaisesAgain, Reply
<1> QED
  BY <1>8, <1>9, <1>10, <1>11, <1>12, <1>13, <1>14, <1>15, <1>16, <1>17, <1>18, <1>19 DEF Run

-----------------------------------------------------------------------------
(***************************************************************************)
(* A call's own invariant                                                  *)
(***************************************************************************)

LEMMA OthersKeepCallInv ==
    ASSUME NEW c \in Call, NEW d \in Call, d # c, CallInv(d), Alone(c)
    PROVE  CallInv(d)'
BY DEF Alone, Logging, CallInv, NoTrace, HasMethod, PlaceInMethod, OnItsWay, Wrote,
       FolderSeen, Replied, NothingLogged, Last, IsWrite

\* The steps of a call outside its method.
LEMMA RouteCallInv ==
    ASSUME Types, NEW c \in Call, CallInv(c),
           \/ Guard(c) \/ Refuse(c) \/ LogRead(c) \/ RecordFailure(c)
           \/ StoreRaises(c) \/ StoreRaisesAgain(c)
    PROVE  CallInv(c)'
<1> DEFINE k == call[c]
<1>1. k \in CallRecord /\ k.reply = "none" /\ k.phase \in {"guard", "log", "failing"}
  BY DEF Types, CallInv, PlaceInMethod, Guard, Refuse, LogRead, RecordFailure, StoreRaises,
         StoreRaisesAgain
<1>2. k.method \in Methods[config.source] /\ Shape(k.method)
  BY <1>1, HasShape DEF CallInv
<1>3. /\ call'[c].method = k.method /\ call'[c].at = k.at /\ call'[c].seen = k.seen
      /\ config' = config /\ applied' = applied
  BY <1>1 DEF Guard, Refuse, LogRead, RecordFailure, StoreRaises, StoreRaisesAgain,
         Goto, Answer, Types, CallRecord, shared, written
<1>4. CASE Guard(c)
  <2>1. call'[c].phase = "step" /\ call'[c].reply = "none"
    BY <1>1, <1>4 DEF Guard, Goto, Types, CallRecord
  <2>2. \A t \in Logging : Logged(c, t)' <=> Logged(c, t) \/ t = "executed"
    BY <1>4, LogTypes DEF Guard, Logging
  <2>3. k.method.kind = "write" /\ k.at = 1 /\ Last(c) > 0
    BY <1>2, <1>4 DEF Guard, Shape, CallInv, PlaceInMethod, Last
  <2>4. Last(c) \in Nat
    BY <1>2 DEF Shape, MethodRecord, Last
  <2> QED
    BY <1>1, <1>2, <1>3, <1>4, <2>1, <2>2, <2>3, <2>4 DEF Logging, CallInv, NoTrace,
       HasMethod, PlaceInMethod, OnItsWay, Wrote, FolderSeen, Replied, Last, IsWrite, Guard
<1>5. CASE Refuse(c)
  <2>1. call'[c].phase = "done" /\ call'[c].reply = "refused"
    BY <1>1, <1>5 DEF Refuse, Answer, Types, CallRecord
  <2>2. \A t \in Logging : Logged(c, t)' <=> Logged(c, t) \/ t = "failed"
    BY <1>5, LogTypes DEF Refuse, Logging
  <2> QED
    BY <1>1, <1>2, <1>3, <1>5, <2>1, <2>2 DEF Logging, CallInv, NoTrace,
       HasMethod, PlaceInMethod, OnItsWay, Wrote, FolderSeen, Replied, Last, IsWrite, Refuse
<1>6. CASE LogRead(c)
  <2>1. call'[c].phase = "done" /\ call'[c].reply = "200"
    BY <1>1, <1>6 DEF LogRead, Answer, Types, CallRecord
  <2>2. \A t \in Logging : Logged(c, t)' <=> Logged(c, t) \/ t = "read"
    BY <1>6, LogTypes DEF LogRead, Logging
  <2> QED
    BY <1>1, <1>2, <1>3, <1>6, <2>1, <2>2 DEF Logging, CallInv, NoTrace,
       HasMethod, PlaceInMethod, OnItsWay, Wrote, FolderSeen, Replied, Last, IsWrite, LogRead
<1>7. CASE RecordFailure(c)
  <2>1. call'[c].phase = "done" /\ call'[c].reply = "502"
    BY <1>1, <1>7 DEF RecordFailure, Answer, Types, CallRecord
  <2>2. \A t \in Logging : Logged(c, t)' <=> Logged(c, t) \/ t = "failed"
    BY <1>7, LogTypes DEF RecordFailure, Logging
  <2> QED
    BY <1>1, <1>2, <1>3, <1>7, <2>1, <2>2 DEF Logging, CallInv, NoTrace,
       HasMethod, PlaceInMethod, OnItsWay, Wrote, FolderSeen, Replied, Last, IsWrite, RecordFailure
<1>8. CASE StoreRaises(c)
  <2>1. call'[c].phase = "failing" /\ call'[c].reply = "none" /\ events' = events
    BY <1>1, <1>8 DEF StoreRaises, Goto, Types, CallRecord, shared
  <2> QED
    BY <1>1, <1>2, <1>3, <1>8, <2>1 DEF Logging, CallInv, NoTrace,
       HasMethod, PlaceInMethod, OnItsWay, Wrote, FolderSeen, Replied, Last, IsWrite, StoreRaises, Logged
<1>9. CASE StoreRaisesAgain(c)
  <2>1. /\ call'[c].phase = "done" /\ events' = events
        /\ call'[c].reply = IF k.method.kind = "read" THEN "500" ELSE "502"
    BY <1>1, <1>9 DEF StoreRaisesAgain, Answer, Types, CallRecord, shared
  <2> QED
    BY <1>1, <1>2, <1>3, <1>9, <2>1 DEF Logging, CallInv, NoTrace,
       HasMethod, PlaceInMethod, OnItsWay, Wrote, FolderSeen, Replied, Last, IsWrite, StoreRaisesAgain, Logged
<1> QED
  BY <1>4, <1>5, <1>6, <1>7, <1>8, <1>9

\* A step of the method is done: the last one of a write made the change.
LEMMA AdvanceCallInv ==
    ASSUME Types, NEW c \in Call, CallInv(c), call[c].phase = "step",
           NEW k \in CallRecord, Advance(c, k),
           k.phase = "step", k.method = call[c].method, k.at = call[c].at, k.reply = "none",
           k.method.name \in Guarded /\ k.at > 1 => k.seen,
           config' = config, events' = events,
           applied'[c] = IF IsWrite(c) /\ call[c].at = Last(c) THEN 1 ELSE 0
    PROVE  CallInv(c)'
<1>1. /\ call[c].reply = "none" /\ Shape(k.method) /\ k.method.kind \in {"read", "write"}
      /\ k.at \in 1..Last(c)
  BY AtStep
<1>2. Last(c) \in Nat /\ k.at \in Nat /\ k.method \in Methods[config.source]
  BY <1>1, HasShape DEF Shape, MethodRecord, Last, CallInv, CallRecord
<1>3. CASE k.at < Last(c)
  <2>1. /\ call'[c].method = k.method /\ call'[c].at = k.at + 1 /\ call'[c].seen = k.seen
        /\ call'[c].phase = "step" /\ call'[c].reply = "none"
    BY <1>3 DEF Advance, Last, Types, CallRecord
  <2> QED
    BY <1>1, <1>2, <1>3, <2>1 DEF Logged, CallInv, NoTrace, HasMethod,
       PlaceInMethod, OnItsWay, Wrote, FolderSeen, Replied, Last, IsWrite
<1>4. CASE ~(k.at < Last(c)) /\ k.method.kind = "read"
  <2>1. /\ call'[c].method = k.method /\ call'[c].at = k.at /\ call'[c].seen = k.seen
        /\ call'[c].phase = "log" /\ call'[c].reply = "none"
    BY <1>4 DEF Advance, Last, Types, CallRecord
  <2> QED
    BY <1>1, <1>2, <1>4, <2>1 DEF Logged, CallInv, NoTrace, HasMethod,
       PlaceInMethod, OnItsWay, Wrote, FolderSeen, Replied, Last, IsWrite
<1>5. CASE ~(k.at < Last(c)) /\ k.method.kind = "write"
  <2>1. /\ call'[c].method = k.method /\ call'[c].at = k.at /\ call'[c].seen = k.seen
        /\ call'[c].phase = "done" /\ call'[c].reply = "200"
    BY <1>5 DEF Advance, Last, Types, CallRecord
  <2> QED
    BY <1>1, <1>2, <1>5, <2>1 DEF Logged, CallInv, NoTrace, HasMethod,
       PlaceInMethod, OnItsWay, Wrote, FolderSeen, Replied, Last, IsWrite
<1> QED
  BY <1>1, <1>3, <1>4, <1>5

\* The method raises, or an attempt failed and another one follows.
LEMMA LeaveCallInv ==
    ASSUME Types, NEW c \in Call, CallInv(c), call[c].phase \in {"step", "backoff"},
           call'[c].phase \in {"failing", "backoff", "step"},
           call'[c].method = call[c].method, call'[c].at = call[c].at,
           call'[c].seen = call[c].seen, call'[c].reply = "none",
           config' = config, events' = events,
           \/ applied'[c] = 0
           \/ /\ applied'[c] = 1 /\ call'[c].phase = "failing"
              /\ IsWrite(c) /\ call[c].at = Last(c)
    PROVE  CallInv(c)'
<1>1. call[c].reply = "none" /\ call[c].method.kind \in {"read", "write"} /\ call[c].at \in 1..Last(c)
  BY AtStep
<1> QED
  BY <1>1 DEF Logged, CallInv, NoTrace, HasMethod,
       PlaceInMethod, OnItsWay, Wrote, FolderSeen, Replied, Last, IsWrite

\* A request changes the outside only as the last step of a write.
LEMMA ProcessedWrites ==
    ASSUME Types, NEW c \in Call, CallInv(c), call[c].phase = "step",
           IsRequest(StepOf(c)), Processed(c)
    PROVE  /\ applied'[c] = IF IsWrite(c) /\ call[c].at = Last(c) THEN 1 ELSE 0
           /\ config' = config /\ events' = events
<1>1. applied[c] = 0
  BY DEF CallInv, OnItsWay
<1>2. StepOf(c).does \in Writing <=> IsWrite(c) /\ call[c].at = Last(c)
  BY AtStep DEF IsRequest, Ending, Writing
<1> QED
  BY <1>1, <1>2 DEF Processed, Types, Writing

LEMMA RequestCallInv ==
    ASSUME Types, NEW c \in Call, CallInv(c), Request(c)
    PROVE  CallInv(c)'
<1> DEFINE k == CASE StepOf(c).does = "metadata" -> [call[c] EXCEPT !.seen = inFolder]
                  [] StepOf(c).does = "load" -> [call[c] EXCEPT !.loaded = workbook]
                  [] OTHER -> call[c]
<1>1. /\ call[c].phase = "step" /\ IsRequest(StepOf(c)) /\ Processed(c) /\ Advance(c, k)
  BY DEF Request
<1>2. call[c] \in CallRecord
  BY DEF Types
<1>3. /\ k \in CallRecord /\ k.phase = call[c].phase /\ k.method = call[c].method
      /\ k.at = call[c].at /\ k.reply = call[c].reply
      /\ StepOf(c).does # "metadata" => k.seen = call[c].seen
  BY <1>2 DEF Types, CallRecord
<1>4. call[c].reply = "none"
  BY <1>1, AtStep
<1>5. ASSUME call[c].method.name \in Guarded, call[c].at > 1
      PROVE  k.seen
  <2>1. StepOf(c).does # "metadata" /\ StepOf(c).client # "none"
    BY <1>1, <1>5, AtStep DEF IsRequest
  <2>2. call[c].at # 2
    BY <1>1, <1>5, <2>1, AtStep
  <2>3. call[c].at > 2
    BY <1>2, <1>5, <2>2 DEF CallRecord
  <2> QED
    BY <1>3, <1>5, <2>1, <2>3 DEF CallInv, FolderSeen
<1> HIDE DEF k
<1> QED
  BY <1>1, <1>3, <1>4, <1>5, ProcessedWrites, AdvanceCallInv

LEMMA ComputeCallInv ==
    ASSUME Types, NEW c \in Call, CallInv(c), Compute(c)
    PROVE  CallInv(c)'
<1>1. /\ call[c].phase = "step" /\ StepOf(c).client = "none" /\ Advance(c, call[c])
      /\ StepOf(c).does = "folder" => call[c].seen
      /\ config' = config /\ events' = events /\ applied' = applied
  BY DEF Compute, IsRequest, shared, written
<1>2. call[c] \in CallRecord
  BY DEF Types
<1>3. call[c].reply = "none" /\ StepOf(c).does \in {"folder", "compute"}
  BY <1>1, AtStep DEF Compute
<1>4. ASSUME call[c].method.name \in Guarded, call[c].at > 1
      PROVE  call[c].seen
  <2>1. CASE call[c].at = 2
    BY <1>1, <1>4, <2>1, AtStep
  <2>2. CASE call[c].at > 2
    BY <1>4, <2>2 DEF CallInv, FolderSeen
  <2> QED
    BY <1>2, <1>4, <2>1, <2>2 DEF CallRecord
<1>5. applied'[c] = IF IsWrite(c) /\ call[c].at = Last(c) THEN 1 ELSE 0
  BY <1>1, <1>3, AtStep DEF CallInv, OnItsWay, Ending, Writing
<1> QED
  BY <1>1, <1>2, <1>3, <1>4, <1>5, AdvanceCallInv

LEMMA RaiseCallInv ==
    ASSUME Types, NEW c \in Call, CallInv(c),
           \/ \E error \in {"lost", "status"} : RequestRaises(c, error)
           \/ ComputeRaises(c) \/ Unauthorized(c) \/ Backoff(c)
    PROVE  CallInv(c)'
<1>1. call[c] \in CallRecord /\ call[c].phase \in {"step", "backoff"}
  BY DEF Types, RequestRaises, ComputeRaises, Unauthorized, Backoff
<1>2. call[c].reply = "none" /\ applied[c] = 0
  BY <1>1, AtStep DEF CallInv, OnItsWay
<1>3. CASE ComputeRaises(c) \/ Backoff(c)
  <2>1. /\ call'[c].phase \in {"failing", "backoff", "step"}
        /\ call'[c].method = call[c].method /\ call'[c].at = call[c].at
        /\ call'[c].seen = call[c].seen /\ call'[c].reply = call[c].reply
    BY <1>1, <1>3 DEF Types, CallRecord, ComputeRaises, Backoff, Goto
  <2>2. config' = config /\ events' = events /\ applied' = applied
    BY <1>3 DEF ComputeRaises, Backoff, shared, written
  <2> QED
    BY <1>1, <1>2, <2>1, <2>2, LeaveCallInv
<1>5. CASE Unauthorized(c)
  <2> DEFINE again == [call[c] EXCEPT !.phase = "backoff", !.attempt = @ + 1, !.lastError = "auth"]
             raised == [call[c] EXCEPT !.phase = "failing", !.lastError = "auth"]
  <2>1. call'[c] \in {again, raised}
    BY <1>5 DEF Types, Unauthorized
  <2>2. \A k \in {again, raised} :
           /\ k.method = call[c].method /\ k.at = call[c].at
           /\ k.seen = call[c].seen /\ k.reply = call[c].reply
           /\ k.phase \in {"failing", "backoff"}
    BY <1>1 DEF CallRecord
  <2>3. config' = config /\ events' = events /\ applied' = applied
    BY <1>5 DEF Unauthorized, shared, written
  <2> HIDE DEF again, raised
  <2> QED
    BY <1>1, <1>2, <2>1, <2>2, <2>3, LeaveCallInv
<1>4. ASSUME NEW error \in {"lost", "status"}, RequestRaises(c, error)
      PROVE  CallInv(c)'
  <2>1. call[c].phase = "step" /\ IsRequest(StepOf(c))
    BY <1>4 DEF RequestRaises
  <2>2. /\ call'[c].phase \in {"failing", "backoff"}
        /\ call'[c].phase = "backoff" => StepOf(c).retried
        /\ call'[c].method = call[c].method /\ call'[c].at = call[c].at
        /\ call'[c].seen = call[c].seen /\ call'[c].reply = call[c].reply
    <3> DEFINE again == [call[c] EXCEPT !.phase = "backoff", !.attempt = @ + 1, !.lastError = error]
               raised == [call[c] EXCEPT !.phase = "failing"]
    <3>1. (call'[c] = again /\ StepOf(c).retried) \/ call'[c] = raised
      BY <1>4 DEF Types, RequestRaises
    <3>2. \A k \in {again, raised} :
             /\ k.method = call[c].method /\ k.at = call[c].at
             /\ k.seen = call[c].seen /\ k.reply = call[c].reply
      BY <1>1 DEF CallRecord
    <3>3. again.phase = "backoff" /\ raised.phase = "failing"
      BY <1>1 DEF CallRecord
    <3> HIDE DEF again, raised
    <3> QED
      BY <3>1, <3>2, <3>3
  <2>3. CASE Processed(c)
    <3>1. IsWrite(c) /\ call[c].at = Last(c) => ~StepOf(c).retried
      BY <2>1, AtStep DEF IsRequest, Ending
    <3> QED
      BY <1>1, <1>2, <2>1, <2>2, <2>3, <3>1, ProcessedWrites, LeaveCallInv
  <2>4. CASE UNCHANGED <<config, shared>>
    <3>1. config' = config /\ events' = events /\ applied' = applied
      BY <2>4 DEF shared, written
    <3> QED
      BY <1>1, <1>2, <2>2, <3>1, LeaveCallInv
  <2> QED
    BY <1>4, <2>3, <2>4 DEF RequestRaises
<1> QED
  BY <1>3, <1>4, <1>5

LEMMA RunCallsInv ==
    ASSUME Types, CallsInv, NEW c \in Call, Run(c)
    PROVE  CallsInv'
<1>1. CallInv(c)'
  BY RouteCallInv, RequestCallInv, ComputeCallInv, RaiseCallInv DEF Run, CallsInv
<1>2. \A d \in Call : d # c => CallInv(d)'
  BY RunTypes, OthersKeepCallInv DEF CallsInv
<1> QED
  BY <1>1, <1>2 DEF CallsInv

-----------------------------------------------------------------------------
(***************************************************************************)
(* Calls that begin                                                        *)
(***************************************************************************)

LEMMA NoCallYetType == NoCallYet \in CallRecord
<1>1. NoMethod \in MethodRecord
  BY DEF NoMethod, Method, MethodRecord, ToolName, MethodName
<1>2. 1 \in 1..Attempts
  BY DEF Attempts
<1> QED
  BY <1>1, <1>2 DEF NoCallYet, CallRecord, Phase, Reply

LEMMA NotConfiguredInv ==
    ASSUME Types, CallsInv, NEW c \in Call, NEW m, NotConfigured(c, m)
    PROVE  /\ Types' /\ CallsInv'
           /\ \A d \in Call : d # c => call'[d] = call[d]
           /\ call'[c].method = NoMethod /\ call'[c].phase = "done" /\ call'[c].reply = "503"
           /\ UNCHANGED <<config, shared>>
<1> DEFINE k == [NoCallYet EXCEPT !.phase = "done", !.reply = "503"]
<1>1. call[c] = NoCallYet /\ applied[c] = 0 /\ NothingLogged(c)
  BY DEF NotConfigured, CallsInv, CallInv, PlaceInMethod, NoTrace
<1>2. k \in CallRecord
  BY NoCallYetType DEF CallRecord, Phase, Reply
<1>3. call' = [call EXCEPT ![c] = k]
  BY <1>1 DEF NotConfigured, Types
<1>4. UNCHANGED <<config, shared>>
  BY DEF NotConfigured
<1>5. /\ k.method = NoMethod /\ k.phase = "done" /\ k.reply = "503" /\ k.at = 1
  BY DEF NoCallYet
<1>6. Len(NoMethod.steps) = 0 /\ NoMethod.name \notin Guarded /\ NoMethod.kind = "none"
  BY DEF NoMethod, Method, Guarded
<1> HIDE DEF k
<1>7. call'[c] = k /\ \A d \in Call : d # c => call'[d] = call[d]
  BY <1>3 DEF Types
<1>8. Types'
  BY <1>2, <1>3, <1>4 DEF Types, shared, written, outside
<1>9. CallInv(c)'
  BY <1>1, <1>4, <1>5, <1>6, <1>7 DEF Logged, CallInv, NoTrace, HasMethod,
       PlaceInMethod, OnItsWay, Wrote, FolderSeen, Replied, Last, IsWrite, NothingLogged, shared, written
<1>10. Alone(c)
  BY <1>4, <1>7 DEF Alone, shared, written, outside, Logged
<1>11. CallsInv'
  BY <1>9, <1>10, OthersKeepCallInv DEF CallsInv
<1> QED
  BY <1>4, <1>5, <1>7, <1>8, <1>11

\* The call that begins, and what it tells those already at the workbook.
Begun(c, m) ==
    /\ call'[c].method = m /\ call'[c].at = 1 /\ call'[c].reply = "none"
    /\ call'[c].seen = FALSE /\ call'[c].loaded = {}
    /\ call'[c].phase = IF m.kind = "read" THEN "step" ELSE "guard"
    /\ call'[c].overlapped <=> m.name = "write_range" /\ \E d \in Call : Editing(d)

SameButOverlapped(d) ==
    /\ call'[d].phase = call[d].phase /\ call'[d].method = call[d].method
    /\ call'[d].at = call[d].at /\ call'[d].seen = call[d].seen
    /\ call'[d].reply = call[d].reply /\ call'[d].loaded = call[d].loaded
    /\ call[d].phase = "idle" => call'[d] = call[d]

LEMMA StartCalls ==
    ASSUME Types, CallsInv, NEW c \in Call, NEW m \in Methods[config.source], Start(c, m)
    PROVE  /\ call' \in [Call -> CallRecord]
           /\ Begun(c, m)
           /\ \A d \in Call : d # c =>
                  /\ SameButOverlapped(d)
                  /\ call'[d].overlapped <=>
                         call[d].overlapped \/ (m.name = "write_range" /\ Editing(d))
<1> DEFINE others == {d \in Call : m.name = "write_range" /\ Editing(d)}
           begun == [NoCallYet EXCEPT !.method = m, !.overlapped = others # {},
                        !.phase = IF m.kind = "read" THEN "step" ELSE "guard"]
           told(d) == [call[d] EXCEPT !.overlapped = @ \/ d \in others]
<1>1. call' = [d \in Call |-> IF d = c THEN begun ELSE told(d)]
  BY DEF Start
<1>2. m \in MethodRecord
  BY SourceKnown, MethodShape DEF Shape
<1>3. begun \in CallRecord
  BY <1>2, NoCallYetType DEF CallRecord, Phase
<1>4. /\ begun.method = m /\ begun.at = 1 /\ begun.reply = "none"
      /\ begun.seen = FALSE /\ begun.loaded = {}
      /\ begun.phase = IF m.kind = "read" THEN "step" ELSE "guard"
      /\ begun.overlapped = (others # {})
  BY DEF NoCallYet
<1>5. ASSUME NEW d \in Call
      PROVE  /\ told(d) \in CallRecord
             /\ told(d).phase = call[d].phase /\ told(d).method = call[d].method
             /\ told(d).at = call[d].at /\ told(d).seen = call[d].seen
             /\ told(d).reply = call[d].reply /\ told(d).loaded = call[d].loaded
             /\ told(d).overlapped = (call[d].overlapped \/ d \in others)
             /\ call[d].phase = "idle" => told(d) = call[d]
  <2>1. call[d] \in CallRecord
    BY DEF Types
  <2>2. call[d].phase = "idle" => d \notin others
    BY DEF Editing, InFlight
  <2>3. call[d].overlapped \in BOOLEAN
    BY <2>1 DEF CallRecord
  <2> HIDE DEF others
  <2> QED
    BY <2>1, <2>2, <2>3 DEF CallRecord
<1>6. call'[c] = begun /\ \A d \in Call : d # c => call'[d] = told(d)
  BY <1>1
<1>7. others # {} <=> m.name = "write_range" /\ \E d \in Call : Editing(d)
  OBVIOUS
<1>8. \A d \in Call : d \in others <=> m.name = "write_range" /\ Editing(d)
  OBVIOUS
<1> HIDE DEF begun, told, others
<1>9. call' \in [Call -> CallRecord]
  BY <1>1, <1>3, <1>5
<1>10. call'[c].overlapped <=> m.name = "write_range" /\ \E d \in Call : Editing(d)
  BY <1>4, <1>6, <1>7
<1>11. Begun(c, m)
  BY <1>4, <1>6, <1>10 DEF Begun
<1>12. ASSUME NEW d \in Call, d # c
       PROVE  SameButOverlapped(d)
  BY <1>5, <1>6, <1>12 DEF SameButOverlapped
<1>13. ASSUME NEW d \in Call, d # c
       PROVE  call'[d].overlapped <=>
                  call[d].overlapped \/ (m.name = "write_range" /\ Editing(d))
  BY <1>5, <1>6, <1>8, <1>13
<1> QED
  BY <1>9, <1>11, <1>12, <1>13

LEMMA StartInv ==
    ASSUME Types, CallsInv, NEW c \in Call, NEW m \in Methods[config.source], Start(c, m)
    PROVE  Types' /\ CallsInv'
<1>1. UNCHANGED <<config, shared>> /\ call[c].phase = "idle"
  BY DEF Start
<1>2. Types'
  BY <1>1, StartCalls DEF Types, shared, written, outside
<1>3. applied[c] = 0 /\ NothingLogged(c)
  BY <1>1 DEF CallsInv, CallInv, NoTrace
<1>4. Shape(m)
  BY SourceKnown, MethodShape
<1>5. Len(m.steps) \in Nat /\ (m.kind = "read" => Len(m.steps) > 0)
      /\ m.kind \in {"read", "write", "refused"}
  BY <1>4 DEF Shape, MethodRecord
<1>6. /\ call'[c].method = m /\ call'[c].at = 1 /\ call'[c].reply = "none"
      /\ call'[c].phase = IF m.kind = "read" THEN "step" ELSE "guard"
  BY StartCalls DEF Begun
<1>7. CallInv(c)'
  BY <1>1, <1>3, <1>5, <1>6 DEF Logged, CallInv, NoTrace, HasMethod,
       PlaceInMethod, OnItsWay, Wrote, FolderSeen, Replied, Last, IsWrite, NothingLogged, shared, written
<1>8. ASSUME NEW d \in Call, d # c
      PROVE  CallInv(d)'
  <2>1. /\ call'[d].phase = call[d].phase /\ call'[d].method = call[d].method
        /\ call'[d].at = call[d].at /\ call'[d].seen = call[d].seen
        /\ call'[d].reply = call[d].reply
        /\ call[d].phase = "idle" => call'[d] = call[d]
    <3>1. SameButOverlapped(d)
      BY <1>8, StartCalls
    <3> QED
      BY <3>1 DEF SameButOverlapped
  <2>2. CallInv(d) /\ applied' = applied /\ events' = events /\ config' = config
    BY <1>1 DEF CallsInv, shared, written
  <2> QED
    BY <2>1, <2>2 DEF Logged, CallInv, NoTrace, HasMethod,
       PlaceInMethod, OnItsWay, Wrote, FolderSeen, Replied, Last, IsWrite, NothingLogged
<1> QED
  BY <1>2, <1>7, <1>8 DEF CallsInv

\* What others do, and the end of the server.
LEMMA OutsideInv ==
    ASSUME Types, CallsInv,
           \/ Expire
           \/ Revoke \/ MoveFile
           \/ UNCHANGED vars
    PROVE  /\ Types' /\ CallsInv'
           /\ UNCHANGED <<config, call, events, written>>
<1>1. UNCHANGED <<config, call, events, written>>
  BY DEF Expire, Revoke, MoveFile, vars, shared
<1>2. Types'
  BY <1>1 DEF Types, written, Expire, Revoke, MoveFile, vars, shared, outside
<1>3. ASSUME NEW d \in Call
      PROVE  CallInv(d)'
  <2>1. CallInv(d) /\ call' = call /\ applied' = applied /\ events' = events /\ config' = config
    BY <1>1 DEF CallsInv, written
  <2> QED
    BY <2>1 DEF Logged, CallInv, NoTrace, HasMethod,
       PlaceInMethod, OnItsWay, Wrote, FolderSeen, Replied, Last, IsWrite, NothingLogged
<1> QED
  BY <1>1, <1>2, <1>3 DEF CallsInv

LEMMA RestartInv ==
    ASSUME Types, CallsInv, Restart
    PROVE  /\ Types' /\ CallsInv'
           /\ UNCHANGED <<config, events, written>>
           /\ \A d \in Call : /\ call'[d] = IF InFlight(d) THEN [call[d] EXCEPT !.phase = "dead"]
                                           ELSE call[d]
                              /\ ~InFlight(d)'
<1>1. UNCHANGED <<config, events, written>> /\ inFolder' = inFolder /\ consented' = consented
  BY DEF Restart
<1>2. ASSUME NEW d \in Call
      PROVE  call[d] \in CallRecord /\ [call[d] EXCEPT !.phase = "dead"] \in CallRecord
  BY DEF Types, CallRecord, Phase
<1>3. \A d \in Call : call'[d] = IF InFlight(d) THEN [call[d] EXCEPT !.phase = "dead"] ELSE call[d]
  BY DEF Restart
<1>4. call' \in [Call -> CallRecord]
  BY <1>2 DEF Restart
<1>5. Types'
  BY <1>1, <1>4 DEF Types, written, Restart
<1>6. ASSUME NEW d \in Call
      PROVE  CallInv(d)' /\ ~InFlight(d)'
  <2>1. CallInv(d) /\ applied' = applied /\ events' = events /\ config' = config
    BY <1>1 DEF CallsInv, written
  <2>2. CASE InFlight(d)
    <3>1. /\ call'[d].phase = "dead" /\ call'[d].method = call[d].method
          /\ call'[d].at = call[d].at /\ call'[d].seen = call[d].seen
          /\ call'[d].reply = call[d].reply
      BY <1>2, <1>3, <2>2 DEF CallRecord
    <3>2. call[d].phase \notin {"idle", "done", "dead"}
      BY <2>2 DEF InFlight
    <3> QED
      BY <2>1, <3>1, <3>2 DEF Logged, CallInv, NoTrace, HasMethod,
       PlaceInMethod, OnItsWay, Wrote, FolderSeen, Replied, Last, IsWrite, NothingLogged, InFlight
  <2>3. CASE ~InFlight(d)
    <3>1. call'[d] = call[d]
      BY <1>3, <2>3
    <3> QED
      BY <2>1, <2>3, <3>1 DEF Logged, CallInv, NoTrace, HasMethod,
       PlaceInMethod, OnItsWay, Wrote, FolderSeen, Replied, Last, IsWrite, NothingLogged, InFlight
  <2> QED
    BY <2>2, <2>3
<1> QED
  BY <1>1, <1>3, <1>5, <1>6 DEF CallsInv

-----------------------------------------------------------------------------
(***************************************************************************)
(* The workbook                                                            *)
(***************************************************************************)

\* A step of a call on its own record: the method stays, the position does or
\* goes on by one, and a workbook is loaded in the first step.
OwnStep(c) ==
    /\ InFlight(c) /\ call[c].reply = "none"
    /\ call'[c].method = call[c].method /\ call'[c].overlapped = call[c].overlapped
    /\ \/ call'[c].at = call[c].at /\ call'[c].loaded = call[c].loaded
       \/ /\ call[c].phase = "step" /\ call'[c].at = call[c].at + 1
          /\ \/ StepOf(c).does = "load" /\ call'[c].loaded = workbook
             \/ StepOf(c).does # "load" /\ call'[c].loaded = call[c].loaded
       \/ ~InFlight(c)' \/ call[c].method.name # "write_range"
    /\ \A type \in Logging : Logged(c, type) => Logged(c, type)'
    /\ call'[c].reply = "200" /\ call[c].method.name = "write_range" =>
           /\ call[c].phase = "step" /\ call[c].at = Last(c) /\ Processed(c)
           /\ ~InFlight(c)'
    /\ \/ workbook' = workbook /\ torn' = torn
       \/ call[c].phase = "step" /\ Processed(c)

LEMMA RunOwnStep ==
    ASSUME Types, CallsInv, NEW c \in Call, Run(c)
    PROVE  OwnStep(c)
<1>1. call[c] \in CallRecord
  BY DEF Types
<1>2. CallInv(c)
  BY DEF CallsInv
<1>3. InFlight(c)
  BY DEF Run, Guard, Refuse, LogRead, RecordFailure, Request, Compute, ComputeRaises,
         RequestRaises, Unauthorized, Backoff, StoreRaises, StoreRaisesAgain, InFlight
<1>4. call[c].reply = "none" /\ call[c].phase # "idle"
  BY <1>2, <1>3 DEF CallInv, PlaceInMethod, InFlight
<1>5. call[c].method.name = "write_range" => IsWrite(c)
  BY <1>2, <1>4, HasShape DEF Shape, IsWrite, CallInv
<1>6. CASE \/ Guard(c) \/ Refuse(c) \/ LogRead(c) \/ RecordFailure(c)
           \/ StoreRaises(c) \/ StoreRaisesAgain(c)
  <2>1. /\ call'[c].method = call[c].method /\ call'[c].overlapped = call[c].overlapped
        /\ call'[c].at = call[c].at /\ call'[c].loaded = call[c].loaded
        /\ call'[c].reply = "200" => LogRead(c)
    BY <1>1, <1>4, <1>6 DEF Guard, Refuse, LogRead, RecordFailure, StoreRaises, StoreRaisesAgain,
         Goto, Answer, Types, CallRecord
  <2>2. workbook' = workbook /\ torn' = torn
    BY <1>6 DEF Guard, Refuse, LogRead, RecordFailure, StoreRaises, StoreRaisesAgain,
         shared, written
  <2>3. \A type \in Logging : Logged(c, type) => Logged(c, type)'
    BY <1>6 DEF Guard, Refuse, LogRead, RecordFailure, StoreRaises, StoreRaisesAgain,
         shared, Log, Logged
  <2>4. LogRead(c) => call[c].method.kind = "read"
    BY <1>2 DEF LogRead, CallInv, PlaceInMethod
  <2> QED
    BY <1>3, <1>4, <1>5, <2>1, <2>2, <2>3, <2>4 DEF OwnStep, IsWrite
<1>7. ASSUME call[c].phase = "step", NEW k \in CallRecord, Advance(c, k),
             k.method = call[c].method, k.at = call[c].at, k.overlapped = call[c].overlapped,
             k.reply = "none", k.phase = "step",
             \/ StepOf(c).does = "load" /\ k.loaded = workbook
             \/ StepOf(c).does # "load" /\ k.loaded = call[c].loaded,
             events' = events,
             Processed(c) \/ (UNCHANGED written /\ StepOf(c).client = "none")
      PROVE  OwnStep(c)
  <2>1. (workbook' = workbook /\ torn' = torn) \/ Processed(c)
    BY <1>7 DEF written
  <2>2. \A type \in Logging : Logged(c, type) => Logged(c, type)'
    BY <1>7 DEF Logged
  <2>3. CASE k.at < Len(k.method.steps)
    <3>1. /\ call'[c].method = k.method /\ call'[c].at = k.at + 1
          /\ call'[c].overlapped = k.overlapped /\ call'[c].loaded = k.loaded
          /\ call'[c].reply = "none"
      BY <1>7, <2>3 DEF Advance, Types, CallRecord
    <3> QED
      BY <1>3, <1>4, <1>7, <2>1, <2>2, <3>1 DEF OwnStep
  <2>4. CASE ~(k.at < Len(k.method.steps)) /\ k.method.kind = "read"
    <3>1. /\ call'[c].method = k.method /\ call'[c].overlapped = k.overlapped
          /\ call'[c].reply = "none"
      BY <1>7, <2>4 DEF Advance, Types, CallRecord
    <3> QED
      BY <1>3, <1>4, <1>5, <1>7, <2>1, <2>2, <2>4, <3>1 DEF OwnStep, IsWrite
  <2>5. CASE ~(k.at < Len(k.method.steps)) /\ k.method.kind # "read"
    <3>1. /\ call'[c].method = k.method /\ call'[c].overlapped = k.overlapped
          /\ call'[c].phase = "done"
      BY <1>7, <2>5 DEF Advance, Types, CallRecord
    <3>2. call[c].at = Last(c)
      BY <1>2, <1>7, <2>5, AtStep DEF Last, MethodRecord, Shape
    <3>3. call[c].method.name = "write_range" => StepOf(c).client # "none"
      BY <1>2, <1>7, <3>2, AtStep
    <3> QED
      BY <1>3, <1>4, <1>7, <2>1, <2>2, <3>1, <3>2, <3>3 DEF OwnStep, InFlight
  <2> QED
    BY <2>3, <2>4, <2>5
<1>8. CASE Request(c)
  <2> DEFINE k == CASE StepOf(c).does = "metadata" -> [call[c] EXCEPT !.seen = inFolder]
                    [] StepOf(c).does = "load" -> [call[c] EXCEPT !.loaded = workbook]
                    [] OTHER -> call[c]
  <2>1. call[c].phase = "step" /\ Processed(c) /\ Advance(c, k) /\ events' = events
    BY <1>8 DEF Request, Processed
  <2>2. /\ k \in CallRecord /\ k.phase = call[c].phase /\ k.method = call[c].method
        /\ k.at = call[c].at /\ k.reply = call[c].reply /\ k.overlapped = call[c].overlapped
    BY <1>1 DEF Types, CallRecord
  <2>3. \/ StepOf(c).does = "load" /\ k.loaded = workbook
        \/ StepOf(c).does # "load" /\ k.loaded = call[c].loaded
    BY <1>1 DEF CallRecord
  <2> HIDE DEF k
  <2> QED
    BY <1>4, <1>7, <2>1, <2>2, <2>3
<1>9. CASE Compute(c)
  <2>1. /\ call[c].phase = "step" /\ Advance(c, call[c]) /\ events' = events
        /\ UNCHANGED written /\ StepOf(c).client = "none"
    BY <1>9 DEF Compute, shared, IsRequest
  <2>2. StepOf(c).does # "load"
    BY <1>2, <2>1, AtStep
  <2> QED
    BY <1>1, <1>4, <1>7, <2>1, <2>2
<1>10. ASSUME NEW k, call' = [call EXCEPT ![c] = k], k.method = call[c].method,
              k.overlapped = call[c].overlapped, k.at = call[c].at, k.loaded = call[c].loaded,
              k.reply = call[c].reply, events' = events,
              (workbook' = workbook /\ torn' = torn) \/ (call[c].phase = "step" /\ Processed(c))
       PROVE  OwnStep(c)
  <2>1. call'[c] = k
    BY <1>10 DEF Types
  <2> QED
    BY <1>3, <1>4, <1>10, <2>1 DEF OwnStep, Logged
<1>11. CASE ComputeRaises(c) \/ Backoff(c)
  <2>1. \E p \in {"failing", "step"} : call' = [call EXCEPT ![c] = [call[c] EXCEPT !.phase = p]]
    BY <1>1, <1>11 DEF ComputeRaises, Backoff, Goto, Types
  <2>2. workbook' = workbook /\ torn' = torn /\ events' = events
    BY <1>11 DEF ComputeRaises, Backoff, shared, written
  <2>3. \A p \in {"failing", "step"} :
          LET k == [call[c] EXCEPT !.phase = p] IN
          /\ k.method = call[c].method /\ k.overlapped = call[c].overlapped
          /\ k.at = call[c].at /\ k.loaded = call[c].loaded /\ k.reply = call[c].reply
    BY <1>1 DEF CallRecord
  <2>4. PICK p \in {"failing", "step"} : call' = [call EXCEPT ![c] = [call[c] EXCEPT !.phase = p]]
    BY <2>1
  <2> QED
    BY <1>10, <2>2, <2>3, <2>4
<1>12. ASSUME NEW error, NEW a,
              call' = [call EXCEPT ![c] = [call[c] EXCEPT !.phase = "backoff", !.attempt = a,
                                              !.lastError = error]],
              events' = events,
              (workbook' = workbook /\ torn' = torn) \/ (call[c].phase = "step" /\ Processed(c))
       PROVE  OwnStep(c)
  <2> DEFINE k == [call[c] EXCEPT !.phase = "backoff", !.attempt = a, !.lastError = error]
  <2>1. /\ k.method = call[c].method /\ k.overlapped = call[c].overlapped
        /\ k.at = call[c].at /\ k.loaded = call[c].loaded /\ k.reply = call[c].reply
    BY <1>1 DEF CallRecord
  <2>2. call' = [call EXCEPT ![c] = k]
    BY <1>12
  <2> HIDE DEF k
  <2> QED
    BY <1>10, <1>12, <2>1, <2>2
<1>13. CASE Unauthorized(c)
  <2>1. events' = events /\ workbook' = workbook /\ torn' = torn
    BY <1>13 DEF Unauthorized, shared, written
  <2> DEFINE raised == [call[c] EXCEPT !.phase = "failing", !.lastError = "auth"]
  <2>2. /\ raised.method = call[c].method /\ raised.overlapped = call[c].overlapped
        /\ raised.at = call[c].at /\ raised.loaded = call[c].loaded
        /\ raised.reply = call[c].reply
    BY <1>1 DEF CallRecord
  <2>3. \/ call' = [call EXCEPT ![c] = raised]
        \/ call' = [call EXCEPT ![c] = [call[c] EXCEPT !.phase = "backoff",
                       !.attempt = call[c].attempt + 1, !.lastError = "auth"]]
    BY <1>13 DEF Unauthorized
  <2> HIDE DEF raised
  <2> QED
    BY <1>10, <1>12, <2>1, <2>2, <2>3
<1>14. CASE \E error \in {"lost", "status"} : RequestRaises(c, error)
  <2>1. PICK error \in {"lost", "status"} : RequestRaises(c, error)
    BY <1>14
  <2> DEFINE raised == [call[c] EXCEPT !.phase = "failing"]
  <2>2. /\ raised.method = call[c].method /\ raised.overlapped = call[c].overlapped
        /\ raised.at = call[c].at /\ raised.loaded = call[c].loaded
        /\ raised.reply = call[c].reply
    BY <1>1 DEF CallRecord
  <2>3. \/ call' = [call EXCEPT ![c] = raised]
        \/ call' = [call EXCEPT ![c] = [call[c] EXCEPT !.phase = "backoff",
                       !.attempt = call[c].attempt + 1, !.lastError = error]]
    BY <2>1 DEF RequestRaises
  <2>4. call[c].phase = "step" /\ (Processed(c) \/ UNCHANGED <<config, shared>>)
    BY <2>1 DEF RequestRaises
  <2>5. /\ events' = events
        /\ (workbook' = workbook /\ torn' = torn) \/ (call[c].phase = "step" /\ Processed(c))
    BY <2>4 DEF Processed, shared, written
  <2> HIDE DEF raised
  <2> QED
    BY <1>10, <1>12, <2>2, <2>3, <2>5
<1> QED
  BY <1>6, <1>8, <1>9, <1>11, <1>13, <1>14 DEF Run

LEMMA RunTorn ==
    ASSUME Types, CallsInv, TornByAWrite, NEW c \in Call, OwnStep(c), Alone(c)
    PROVE  TornByAWrite'
<1>1. ASSUME NEW d \in Call, call[d].method.name = "write_range", Logged(d, "executed")
      PROVE  call'[d].method.name = "write_range" /\ Logged(d, "executed")'
  BY <1>1 DEF OwnStep, Alone, Logging
<1>2. CASE torn
  BY <1>1, <1>2 DEF TornByAWrite
<1>3. CASE ~torn /\ torn'
  <2>1. call[c].phase = "step" /\ StepOf(c).does = "truncate"
    BY <1>3 DEF OwnStep, Processed
  <2>2. call[c].method.name = "write_range" /\ IsWrite(c)
    BY <2>1, AtStep DEF CallsInv
  <2>3. Logged(c, "executed")
    BY <2>1, <2>2 DEF CallsInv, CallInv, OnItsWay
  <2> QED
    BY <1>1, <2>2, <2>3 DEF TornByAWrite
<1> QED
  BY <1>2, <1>3 DEF TornByAWrite

LEMMA RunOverlap ==
    ASSUME OverlapIsNoted, NEW c \in Call, OwnStep(c), Alone(c)
    PROVE  OverlapIsNoted'
<1>1. ASSUME NEW d \in Call
      PROVE  /\ Editing(d)' => Editing(d)
             /\ call'[d].overlapped = call[d].overlapped
  BY DEF OwnStep, Alone, Editing, InFlight
<1> QED
  BY <1>1 DEF OverlapIsNoted

LEMMA RunCells ==
    ASSUME Types, CallsInv, OverlapIsNoted, CellsAreKept, NEW c \in Call, OwnStep(c), Alone(c)
    PROVE  CellsAreKept'
<1> SUFFICES ASSUME NEW e \in Call, call'[e].method.name = "write_range",
                    call'[e].reply = "200", ~call'[e].overlapped
             PROVE  /\ e \in workbook'
                    /\ \A d \in Call : Editing(d)' /\ call'[d].at > 1 => e \in call'[d].loaded
  BY DEF CellsAreKept
<1>1. CASE e = c
  <2>1. /\ call[c].phase = "step" /\ call[c].at = Last(c) /\ Processed(c) /\ ~InFlight(c)'
        /\ call[c].method.name = "write_range" /\ ~call[c].overlapped /\ InFlight(c)
    BY <1>1 DEF OwnStep
  <2>2. StepOf(c).does = "save"
    BY <2>1, AtStep DEF CallsInv
  <2>3. c \in workbook'
    BY <2>2, <2>1 DEF Processed
  <2>4. ASSUME NEW d \in Call, Editing(d)'
        PROVE  FALSE
    <3>1. d # c
      BY <2>1, <2>4 DEF Editing
    <3>2. Editing(d) /\ Editing(c)
      BY <2>1, <2>4, <3>1 DEF Alone, Editing, InFlight
    <3> QED
      BY <2>1, <3>1, <3>2 DEF OverlapIsNoted
  <2> QED
    BY <1>1, <2>3, <2>4
<1>2. CASE e # c
  <2>1. /\ call[e].method.name = "write_range" /\ call[e].reply = "200" /\ ~call[e].overlapped
    BY <1>2 DEF Alone
  <2>2. /\ e \in workbook
        /\ \A d \in Call : Editing(d) /\ call[d].at > 1 => e \in call[d].loaded
    BY <2>1 DEF CellsAreKept
  <2>3. e \in workbook'
    <3>1. CASE workbook' = workbook
      BY <2>2, <3>1
    <3>2. CASE call[c].phase = "step" /\ Processed(c) /\ StepOf(c).does = "save"
      <4>1. /\ call[c].method.name = "write_range" /\ call[c].at = Last(c) /\ Last(c) > 2
            /\ workbook' = call[c].loaded \cup {c}
        BY <3>2, AtStep DEF CallsInv, Processed, Ending, Writing
      <4>2. Editing(c) /\ call[c].at > 1
        BY <4>1 DEF OwnStep, Editing, Types, CallRecord
      <4> QED
        BY <2>2, <4>1, <4>2
    <3> QED
      BY <3>1, <3>2 DEF OwnStep, Processed
  <2>4. ASSUME NEW d \in Call, Editing(d)', call'[d].at > 1
        PROVE  e \in call'[d].loaded
    <3>1. CASE d # c
      <4>1. call'[d] = call[d]
        BY <3>1 DEF Alone
      <4> QED
        BY <2>2, <2>4, <4>1 DEF Editing, InFlight
    <3>2. CASE d = c
      <4>1. InFlight(c)' /\ Editing(c) /\ call[c].method.name = "write_range"
        BY <2>4, <3>2 DEF Editing, OwnStep
      <4>2. call[c].at > 1 => e \in call[c].loaded
        BY <2>2, <4>1
      <4>3. CASE call'[c].at = call[c].at /\ call'[c].loaded = call[c].loaded
        BY <2>4, <3>2, <4>2, <4>3
      <4>4. CASE /\ call[c].phase = "step" /\ StepOf(c).does = "load"
                 /\ call'[c].loaded = workbook
        BY <2>2, <3>2, <4>4
      <4>5. CASE /\ call[c].phase = "step" /\ StepOf(c).does # "load"
                 /\ call'[c].loaded = call[c].loaded
        <5>1. call[c].at \in 1..Last(c) /\ call[c].at # 1
          BY <4>1, <4>5, AtStep DEF CallsInv
        <5>2. call[c].at > 1
          BY <5>1 DEF Types, CallRecord
        <5> QED
          BY <3>2, <4>2, <4>5, <5>2
      <4> QED
        BY <4>1, <4>3, <4>4, <4>5 DEF OwnStep
    <3> QED
      BY <3>1, <3>2
  <2> QED
    BY <2>3, <2>4
<1> QED
  BY <1>1, <1>2

-----------------------------------------------------------------------------
(***************************************************************************)
(* IInv is inductive                                                       *)
(***************************************************************************)

LEMMA ArriveKeepsIInv ==
    ASSUME IInv, NEW c \in Call, Arrive(c)
    PROVE  IInv'
<1>1. PICK m \in Methods[config.source] : NotConfigured(c, m) \/ Start(c, m)
  BY DEF Arrive
<1>2. call[c].phase = "idle" /\ UNCHANGED <<config, shared>>
  BY <1>1 DEF NotConfigured, Start
<1>3. call[c].method = NoMethod /\ NoMethod.name # "write_range"
  BY <1>2 DEF IInv, CallsInv, CallInv, NoTrace, NoMethod, Method
<1>4. UNCHANGED <<events, workbook, torn>>
  BY <1>2 DEF shared, written
<1>5. CASE NotConfigured(c, m)
  <2>1. /\ Types' /\ CallsInv' /\ call'[c].method = NoMethod
        /\ \A d \in Call : d # c => call'[d] = call[d]
    BY <1>5, NotConfiguredInv DEF IInv
  <2>2. \A d \in Call : /\ Editing(d)' => d # c /\ Editing(d)
                        /\ call'[d].method.name = "write_range" => d # c
    BY <1>3, <2>1 DEF Editing, InFlight
  <2>3. TornByAWrite'
    BY <1>3, <1>4, <2>1 DEF IInv, TornByAWrite, Logged
  <2>4. OverlapIsNoted'
    BY <2>1, <2>2 DEF IInv, OverlapIsNoted
  <2>5. CellsAreKept'
    BY <1>4, <2>1, <2>2 DEF IInv, CellsAreKept
  <2> QED
    BY <2>1, <2>3, <2>4, <2>5 DEF IInv
<1>6. CASE Start(c, m)
  <2>1. Types' /\ CallsInv'
    BY <1>6, StartInv DEF IInv
  <2>2. Begun(c, m)
    BY <1>6, StartCalls DEF IInv
  <2>3. \A d \in Call : d # c => SameButOverlapped(d)
    BY <1>6, StartCalls DEF IInv
  <2>4. \A d \in Call : d # c =>
           (call'[d].overlapped <=> call[d].overlapped \/ (m.name = "write_range" /\ Editing(d)))
    BY <1>6, StartCalls DEF IInv
  <2>5. \A d \in Call : d # c => (Editing(d)' <=> Editing(d))
    BY <2>3 DEF SameButOverlapped, Editing, InFlight
  <2>6. TornByAWrite'
    BY <1>3, <1>4, <2>3 DEF IInv, TornByAWrite, Logged, SameButOverlapped
  <2>7. OverlapIsNoted'
    <3> SUFFICES ASSUME NEW d \in Call, NEW e \in Call, d # e, Editing(d)', Editing(e)'
                 PROVE  call'[d].overlapped
      BY DEF OverlapIsNoted
    <3>1. CASE d = c
      <4>1. call'[c].method = m /\ Editing(e)
        BY <2>2, <2>5, <3>1 DEF Begun
      <4>2. m.name = "write_range"
        BY <3>1, <4>1 DEF Editing
      <4> QED
        BY <2>2, <3>1, <4>1, <4>2 DEF Begun
    <3>2. CASE e = c
      <4>1. call'[c].method = m /\ Editing(d)
        BY <2>2, <2>5, <3>2 DEF Begun
      <4>2. m.name = "write_range"
        BY <3>2, <4>1 DEF Editing
      <4> QED
        BY <2>4, <3>2, <4>1, <4>2
    <3>3. CASE d # c /\ e # c
      BY <2>4, <2>5, <3>3 DEF IInv, OverlapIsNoted
    <3> QED
      BY <3>1, <3>2, <3>3
  <2>8. CellsAreKept'
    <3> SUFFICES ASSUME NEW e \in Call, call'[e].method.name = "write_range",
                        call'[e].reply = "200", ~call'[e].overlapped
                 PROVE  /\ e \in workbook'
                        /\ \A d \in Call : Editing(d)' /\ call'[d].at > 1 => e \in call'[d].loaded
      BY DEF CellsAreKept
    <3>1. e # c
      BY <2>2 DEF Begun
    <3>2. /\ call[e].method.name = "write_range" /\ call[e].reply = "200"
          /\ ~call[e].overlapped
      BY <2>3, <2>4, <3>1 DEF SameButOverlapped
    <3>3. /\ e \in workbook
          /\ \A d \in Call : Editing(d) /\ call[d].at > 1 => e \in call[d].loaded
      BY <3>2 DEF IInv, CellsAreKept
    <3>4. ASSUME NEW d \in Call, Editing(d)', call'[d].at > 1
          PROVE  e \in call'[d].loaded
      <4>1. d # c
        BY <2>2, <3>4 DEF Begun
      <4>2. call'[d].at = call[d].at /\ call'[d].loaded = call[d].loaded /\ Editing(d)
        BY <2>3, <2>5, <3>4, <4>1 DEF SameButOverlapped
      <4> QED
        BY <3>3, <3>4, <4>2
    <3> QED
      BY <1>4, <3>3, <3>4
  <2> QED
    BY <2>1, <2>6, <2>7, <2>8 DEF IInv
<1> QED
  BY <1>1, <1>5, <1>6

LEMMA RunKeepsIInv ==
    ASSUME IInv, NEW c \in Call, Run(c)
    PROVE  IInv'
<1>1. Types' /\ Alone(c)
  BY RunTypes DEF IInv
<1>2. OwnStep(c) /\ CallsInv'
  BY RunOwnStep, RunCallsInv DEF IInv
<1> QED
  BY <1>1, <1>2, RunTorn, RunOverlap, RunCells DEF IInv

LEMMA RestartKeepsIInv ==
    ASSUME IInv, Restart
    PROVE  IInv'
<1>1. Types' /\ CallsInv' /\ UNCHANGED <<events, workbook, torn>>
  BY RestartInv DEF IInv, written
<1>2. \A d \in Call : ~Editing(d)'
  BY RestartInv DEF IInv, Editing
<1>3. ASSUME NEW d \in Call
      PROVE  /\ call'[d].method = call[d].method /\ call'[d].reply = call[d].reply
             /\ call'[d].overlapped = call[d].overlapped
  <2>1. call'[d] = IF InFlight(d) THEN [call[d] EXCEPT !.phase = "dead"] ELSE call[d]
    BY RestartInv DEF IInv
  <2>2. call[d] \in CallRecord
    BY DEF IInv, Types
  <2> QED
    BY <2>1, <2>2 DEF CallRecord
<1>4. TornByAWrite'
  BY <1>1, <1>3 DEF IInv, TornByAWrite, Logged
<1>5. OverlapIsNoted'
  BY <1>2 DEF OverlapIsNoted
<1>6. CellsAreKept'
  BY <1>1, <1>2, <1>3 DEF IInv, CellsAreKept
<1> QED
  BY <1>1, <1>4, <1>5, <1>6 DEF IInv

LEMMA OutsideKeepsIInv ==
    ASSUME IInv,
           \/ Expire
           \/ Revoke \/ MoveFile
           \/ UNCHANGED vars
    PROVE  IInv'
<1>1. Types' /\ CallsInv' /\ UNCHANGED <<config, call, events, written>>
  BY OutsideInv DEF IInv
<1> QED
  BY <1>1 DEF IInv, written, TornByAWrite, Logged, OverlapIsNoted, CellsAreKept, Editing, InFlight

LEMMA InitIInv == Init => IInv
<1> SUFFICES ASSUME Init PROVE IInv
  OBVIOUS
<1>1. \A c \in Call : call[c] = NoCallYet
  BY DEF Init
<1>2. /\ NoCallYet.phase = "idle" /\ NoCallYet.method = NoMethod /\ NoCallYet.at = 1
      /\ NoCallYet.reply = "none"
  BY DEF NoCallYet
<1>3. /\ Len(NoMethod.steps) = 0 /\ NoMethod.name = "none" /\ NoMethod.kind = "none"
  BY DEF NoMethod, Method
<1>4. Types
  BY NoCallYetType DEF Init, Types
<1>5. ASSUME NEW c \in Call
      PROVE  CallInv(c)
  <2>1. applied[c] = 0 /\ events = {}
    BY DEF Init
  <2> QED
    BY <1>1, <1>2, <1>3, <2>1 DEF Guarded, Logged, CallInv, NoTrace, HasMethod,
       PlaceInMethod, OnItsWay, Wrote, FolderSeen, Replied, Last, IsWrite, NothingLogged
<1>6. TornByAWrite /\ OverlapIsNoted /\ CellsAreKept
  BY <1>1, <1>2 DEF Init, TornByAWrite, OverlapIsNoted, CellsAreKept, Editing, InFlight
<1> QED
  BY <1>4, <1>5, <1>6 DEF IInv, CallsInv

LEMMA NextKeepsIInv ==
    ASSUME IInv, [Next]_vars
    PROVE  IInv'
BY ArriveKeepsIInv, RunKeepsIInv, RestartKeepsIInv, OutsideKeepsIInv DEF Next

\* The inductive invariant of Connectors holds of any calls, servers, faults
\* and search results.
THEOREM InvariantHolds == Spec => []IInv
BY InitIInv, NextKeepsIInv, PTL DEF Spec

-----------------------------------------------------------------------------
(***************************************************************************)
(* The safety properties                                                   *)
(***************************************************************************)

\* Every variable holds what the code can put there: a request is attempted
\* three times at most, and a call never runs past the end of its method.
THEOREM TypeCorrect == Spec => []TypeOK
<1>1. IInv => TypeOK
  <2> SUFFICES ASSUME IInv PROVE TypeOK
    OBVIOUS
  <2>1. ASSUME NEW c \in Call PROVE Called(c)
    <3>1. call[c] \in CallRecord
      BY DEF IInv, Types
    <3>2. call[c].method \in Methods[config.source] \cup {NoMethod}
      BY DEF IInv, CallsInv, CallInv, HasMethod
    <3>3. call[c].at \in 1..(Len(call[c].method.steps) + 1)
      BY DEF IInv, CallsInv, CallInv, PlaceInMethod, Last
    <3> QED
      BY <3>1, <3>2, <3>3 DEF Called, CallRecord, Phase, Reply
  <2> QED
    BY <2>1 DEF IInv, Types, TypeOK
<1> QED
  BY <1>1, InvariantHolds, PTL

\* No call writes twice, whatever its connection does to requests and
\* answers, and reads and refused calls never write.
THEOREM NeverWrittenTwice == Spec => []WritesOnce
<1>1. ASSUME IInv, NEW c \in Call
      PROVE  applied[c] <= IF call[c].method.kind = "write" THEN 1 ELSE 0
  <2>1. applied[c] = 0 \/ (applied[c] = 1 /\ call[c].method.kind = "write")
    BY <1>1 DEF IInv, CallsInv, CallInv, Wrote, IsWrite
  <2> QED
    BY <2>1
<1>2. IInv => WritesOnce
  BY <1>1 DEF WritesOnce
<1> QED
  BY <1>2, InvariantHolds, PTL

\* A call that answers success has made its write, or logged its read, and
\* logged no failure.
THEOREM SuccessHolds == Spec => []SuccessIsReal
<1>1. IInv => SuccessIsReal
  BY DEF IInv, CallsInv, CallInv, Replied, SuccessIsReal
<1> QED
  BY <1>1, InvariantHolds, PTL

\* A read that answers 502 has logged the failure, and a call to a connector
\* that is not configured leaves nothing in the log.
THEOREM FailuresAreLogged == Spec => []FailureIsRecorded
<1>1. IInv => FailureIsRecorded
  <2> SUFFICES ASSUME IInv, NEW c \in Call
               PROVE  /\ call[c].reply = "502" /\ call[c].method.kind = "read" => Logged(c, "failed")
                      /\ call[c].reply = "503" => \A e \in events : e.call # c
    BY DEF FailureIsRecorded
  <2>1. call[c].reply = "502" /\ call[c].method.kind = "read" => Logged(c, "failed")
    BY DEF IInv, CallsInv, CallInv, Replied
  <2>2. ASSUME call[c].reply = "503", NEW e \in events, e.call = c
        PROVE  FALSE
    <3>1. NothingLogged(c)
      BY <2>2 DEF IInv, CallsInv, CallInv, NoTrace
    <3>2. e \in [call : Call, type : {"read", "executed", "failed"}]
      BY DEF IInv, Types
    <3>3. e = [call |-> c, type |-> e.type]
      BY <2>2, <3>2
    <3> QED
      BY <3>1, <3>2, <3>3 DEF NothingLogged, Logged
  <2> QED
    BY <2>1, <2>2
<1> QED
  BY <1>1, InvariantHolds, PTL

\* Whatever a call changed outside, the truncation of the workbook included,
\* its action_executed event was there first.
THEOREM AuditComesFirst == Spec => []AuditedBeforeWriting
<1>1. IInv => AuditedBeforeWriting
  <2> SUFFICES ASSUME IInv PROVE AuditedBeforeWriting
    OBVIOUS
  <2>1. ASSUME NEW c \in Call, applied[c] > 0 PROVE Logged(c, "executed")
    BY <2>1 DEF IInv, CallsInv, CallInv, Wrote
  <2> QED
    BY <2>1 DEF IInv, TornByAWrite, AuditedBeforeWriting
<1> QED
  BY <1>1, InvariantHolds, PTL

\* read_file returns only a file that the call saw in the configured folder
\* (and no call of update_file, which fails behind that check, writes at all).
THEOREM FolderHolds == Spec => []FolderRespected
<1>1. IInv => FolderRespected
  <2> SUFFICES ASSUME IInv, NEW c \in Call, call[c].method.name \in {"read_file", "update_file"},
                      call[c].reply = "200" \/ applied[c] > 0
               PROVE  call[c].seen
    BY DEF FolderRespected
  <2>1. call[c].at = Last(c)
    BY DEF IInv, CallsInv, CallInv, Replied, Wrote
  <2>2. call[c].method # NoMethod
    BY DEF NoMethod, Method
  <2>3. Last(c) > 2
    BY <2>2, SourceKnown, MethodShape
       DEF IInv, CallsInv, CallInv, HasMethod, Shape, Guarded, Last
  <2> QED
    BY <2>1, <2>3 DEF IInv, CallsInv, CallInv, FolderSeen, Guarded
<1> QED
  BY <1>1, InvariantHolds, PTL

\* The cells of a write_range that answered success and had the workbook to
\* itself are never lost to a later one.
THEOREM WorkbookHolds == Spec => []WorkbookKeepsWrites
<1>1. IInv => WorkbookKeepsWrites
  BY DEF IInv, CellsAreKept, WorkbookKeepsWrites
<1> QED
  BY <1>1, InvariantHolds, PTL

-----------------------------------------------------------------------------
(***************************************************************************)
(* Every write is a ToolWrite                                              *)
(***************************************************************************)

ToolStages == [c \in Call |-> Stage(c)]
IsToolCall(c) == call[c].method.kind \in {"write", "refused"}

\* Where a step leads from the steps of a method, and from its routes.
LEMMA StepPhases ==
    ASSUME IInv, NEW c \in Call, call[c].phase \in {"step", "backoff"}, Run(c)
    PROVE  \/ call'[c].phase \in {"step", "backoff", "failing", "log"}
           \/ call'[c].phase = "done" /\ call'[c].reply = "200"
<1>1. call[c] \in CallRecord /\ call \in [Call -> CallRecord]
  BY DEF IInv, Types
<1>2. ASSUME NEW k \in CallRecord, Advance(c, k), k.phase = "step"
      PROVE  \/ call'[c].phase \in {"step", "log"}
             \/ call'[c].phase = "done" /\ call'[c].reply = "200"
  BY <1>1, <1>2 DEF Advance, CallRecord
<1>3. CASE Request(c)
  <2> DEFINE k == CASE StepOf(c).does = "metadata" -> [call[c] EXCEPT !.seen = inFolder]
                    [] StepOf(c).does = "load" -> [call[c] EXCEPT !.loaded = workbook]
                    [] OTHER -> call[c]
  <2>1. k \in CallRecord /\ k.phase = call[c].phase
    BY <1>1 DEF IInv, Types, CallRecord
  <2>2. Advance(c, k) /\ call[c].phase = "step"
    BY <1>3 DEF Request
  <2> HIDE DEF k
  <2> QED
    BY <1>2, <2>1, <2>2
<1>4. CASE Compute(c)
  BY <1>1, <1>2, <1>4 DEF Compute
<1>5. CASE ComputeRaises(c) \/ Backoff(c)
  BY <1>1, <1>5 DEF ComputeRaises, Backoff, Goto, CallRecord
<1>6. ASSUME NEW error, NEW k, k = [call[c] EXCEPT !.phase = "backoff", !.attempt = @ + 1, !.lastError = error]
                    \/ k = [call[c] EXCEPT !.phase = "failing"]
                    \/ k = [call[c] EXCEPT !.phase = "failing", !.lastError = error]
      PROVE  k.phase \in {"backoff", "failing"}
  BY <1>1, <1>6 DEF CallRecord
<1>7. CASE Unauthorized(c)
  <2>1. \/ call'[c] = [call[c] EXCEPT !.phase = "backoff", !.attempt = @ + 1, !.lastError = "auth"]
        \/ call'[c] = [call[c] EXCEPT !.phase = "failing", !.lastError = "auth"]
    BY <1>1, <1>7 DEF Unauthorized
  <2> QED
    BY <1>6, <2>1
<1>8. ASSUME NEW error \in {"lost", "status"}, RequestRaises(c, error)
      PROVE  call'[c].phase \in {"backoff", "failing"}
  <2>1. \/ call'[c] = [call[c] EXCEPT !.phase = "backoff", !.attempt = @ + 1, !.lastError = error]
        \/ call'[c] = [call[c] EXCEPT !.phase = "failing"]
    BY <1>1, <1>8 DEF RequestRaises
  <2> QED
    BY <1>6, <2>1
<1> QED
  BY <1>3, <1>4, <1>5, <1>7, <1>8
     DEF Run, Guard, Refuse, LogRead, RecordFailure, StoreRaises, StoreRaisesAgain

\* A step of c that moves its stage as ToolWrite lets it.
LEMMA MoveStage ==
    ASSUME NEW c \in Call, \A d \in Call : d # c => Stage(d)' = Stage(d)
    PROVE  ToolStages' = [ToolStages EXCEPT ![c] = Stage(c)']
BY DEF ToolStages

LEMMA RunIsToolStep ==
    ASSUME IInv, NEW c \in Call, Run(c)
    PROVE  Tool!Next \/ UNCHANGED <<ToolStages, applied>>
<1>1. /\ Types' /\ Alone(c) /\ CallsInv' /\ OwnStep(c)
  BY RunTypes, RunCallsInv, RunOwnStep DEF IInv
<1>2. ToolStages' = [ToolStages EXCEPT ![c] = Stage(c)']
  BY <1>1, MoveStage DEF Alone, Stage
<1>3. applied' = [applied EXCEPT ![c] = applied'[c]]
  BY <1>1 DEF Types, IInv, Alone
<1>4. CallInv(c) /\ CallInv(c)' /\ call'[c].method = call[c].method
  BY <1>1 DEF IInv, CallsInv, OwnStep
<1>5. ToolStages[c] = Stage(c) /\ ToolStages \in [Call -> {Stage(d) : d \in Call}]
  BY DEF ToolStages
<1>6. applied \in [Call -> Nat]
  BY DEF IInv, Types
<1>7. CASE ~IsToolCall(c)
  <2>1. Stage(c)' = "execute" /\ Stage(c) = "execute"
    BY <1>4, <1>7 DEF Stage, IsToolCall
  <2>2. applied'[c] = 0 /\ applied[c] = 0
    BY <1>4, <1>7 DEF CallInv, Wrote, IsWrite, IsToolCall
  <2>3. ToolStages' = ToolStages /\ applied' = applied
    BY <1>2, <1>3, <1>5, <1>6, <2>1, <2>2
  <2> QED
    BY <2>3
<1>8. CASE IsToolCall(c) /\ call[c].phase \in {"step", "backoff"}
  <2>1. Stage(c) = "acting" /\ applied[c] = 0 /\ call[c].method.kind = "write"
    BY <1>4, <1>8 DEF Stage, IsToolCall, CallInv, OnItsWay, PlaceInMethod
  <2>2. CASE call'[c].phase \in {"step", "backoff"}
    <3>1. Stage(c)' = "acting" /\ applied'[c] = 0
      BY <1>4, <1>8, <2>2 DEF Stage, IsToolCall, CallInv, OnItsWay
    <3>2. ToolStages' = ToolStages /\ applied' = applied
      BY <1>2, <1>3, <1>5, <1>6, <2>1, <3>1
    <3> QED
      BY <3>2
  <2>3. CASE call'[c].phase = "failing"
    <3>1. Stage(c)' = "failing" /\ applied'[c] \in {0, 1}
      BY <1>4, <1>8, <2>3 DEF Stage, IsToolCall, CallInv, Wrote
    <3>2. Tool!Goto(c, "acting", "failing")
      BY <1>2, <1>5, <2>1, <3>1 DEF Tool!Goto, ToolStages
    <3>3. Tool!Make(c) \/ UNCHANGED applied
      BY <1>3, <1>6, <2>1, <3>1 DEF Tool!Make
    <3> QED
      BY <3>2, <3>3 DEF Tool!Raise, Tool!Next
  <2>4. CASE call'[c].phase = "done" /\ call'[c].reply = "200"
    <3>1. Stage(c)' = "acted" /\ applied'[c] = 1
      BY <1>4, <1>8, <2>1, <2>4 DEF Stage, IsToolCall, CallInv, Replied
    <3>2. Tool!Goto(c, "acting", "acted") /\ Tool!Make(c)
      BY <1>2, <1>3, <1>5, <2>1, <3>1 DEF Tool!Goto, Tool!Make, ToolStages
    <3> QED
      BY <3>2 DEF Tool!Write, Tool!Next
  <2>5. call'[c].phase # "log"
    BY <1>4, <2>1 DEF CallInv, PlaceInMethod
  <2> QED
    BY <1>8, <2>2, <2>3, <2>4, <2>5, StepPhases
<1>9. CASE IsToolCall(c) /\ call[c].phase = "guard"
  <2>1. Stage(c) = "execute"
    BY <1>9 DEF Stage, IsToolCall
  <2>2. CASE Guard(c)
    <3>1. call'[c].phase = "step" /\ applied' = applied
      BY <2>2, <1>1 DEF Guard, Goto, IInv, Types, CallRecord, written
    <3>2. Stage(c)' = "acting"
      BY <1>4, <1>9, <3>1 DEF Stage, IsToolCall
    <3>3. Tool!Goto(c, "execute", "acting")
      BY <1>2, <1>5, <2>1, <3>2 DEF Tool!Goto, ToolStages
    <3> QED
      BY <3>1, <3>3 DEF Tool!Audit, Tool!Next
  <2>3. CASE Refuse(c)
    <3>1. call'[c].phase = "done" /\ call'[c].reply = "refused" /\ applied' = applied
      BY <2>3, <1>1 DEF Refuse, Answer, IInv, Types, CallRecord, written
    <3>2. Stage(c)' = "refused"
      BY <1>4, <1>9, <3>1 DEF Stage, IsToolCall
    <3>3. Tool!Goto(c, "execute", "refused")
      BY <1>2, <1>5, <2>1, <3>2 DEF Tool!Goto, ToolStages
    <3> QED
      BY <3>1, <3>3 DEF Tool!Refuse, Tool!Next
  <2>4. CASE StoreRaises(c)
    <3>1. call'[c].phase = "failing" /\ applied' = applied
      BY <2>4, <1>1 DEF StoreRaises, Goto, IInv, Types, CallRecord, shared, written
    <3>2. Stage(c)' = "failing"
      BY <1>4, <1>9, <3>1 DEF Stage, IsToolCall
    <3>3. Tool!Goto(c, "execute", "failing")
      BY <1>2, <1>5, <2>1, <3>2 DEF Tool!Goto, ToolStages
    <3> QED
      BY <3>1, <3>3 DEF Tool!AuditRaises, Tool!Next
  <2> QED
    BY <1>9, <2>2, <2>3, <2>4
       DEF Run, LogRead, RecordFailure, Request, Compute, ComputeRaises, RequestRaises,
           Unauthorized, Backoff, StoreRaisesAgain
<1>10. CASE IsToolCall(c) /\ call[c].phase = "failing"
  <2>1. RecordFailure(c) \/ StoreRaisesAgain(c)
    BY <1>10 DEF Run, Guard, Refuse, LogRead, Request, Compute, ComputeRaises, RequestRaises,
           Unauthorized, Backoff, StoreRaises
  <2>2. call'[c].phase = "done" /\ call'[c].reply \in {"500", "502"} /\ applied' = applied
    BY <1>1, <2>1 DEF RecordFailure, StoreRaisesAgain, Answer, IInv, Types, CallRecord, shared, written
  <2>3. Stage(c)' = "failing" /\ Stage(c) = "failing"
    BY <1>4, <1>10, <2>2 DEF Stage, IsToolCall
  <2>4. ToolStages' = ToolStages
    BY <1>2, <1>5, <2>3
  <2> QED
    BY <2>2, <2>4
<1>11. call[c].phase \in {"guard", "step", "backoff", "failing", "log"}
  BY DEF Run, Guard, Refuse, LogRead, RecordFailure, Request, Compute, ComputeRaises,
         RequestRaises, Unauthorized, Backoff, StoreRaises, StoreRaisesAgain
<1>12. call[c].phase = "log" => ~IsToolCall(c)
  BY <1>4 DEF CallInv, PlaceInMethod, IsToolCall
<1> QED
  BY <1>7, <1>8, <1>9, <1>10, <1>11, <1>12

LEMMA NextIsToolStep ==
    ASSUME IInv, [Next]_vars
    PROVE  Tool!Next \/ UNCHANGED <<ToolStages, applied>>
<1>1. ASSUME NEW c \in Call, Arrive(c)
      PROVE  UNCHANGED <<ToolStages, applied>>
  <2>1. PICK m \in Methods[config.source] : NotConfigured(c, m) \/ Start(c, m)
    BY <1>1 DEF Arrive
  <2>2. call[c].phase = "idle" /\ applied' = applied
    BY <2>1 DEF NotConfigured, Start, shared, written
  <2>3. call[c].method.kind = "none"
    BY <2>2 DEF IInv, CallsInv, CallInv, NoTrace, NoMethod, Method
  <2>4. ASSUME NEW d \in Call
        PROVE  Stage(d)' = Stage(d)
    <3>1. CASE NotConfigured(c, m)
      <4>1. call'[c].method = NoMethod /\ (d # c => call'[d] = call[d])
        BY <3>1, NotConfiguredInv DEF IInv
      <4> QED
        BY <2>3, <4>1 DEF Stage, NoMethod, Method
    <3>2. CASE Start(c, m) /\ d # c
      <4>1. SameButOverlapped(d)
        BY <3>2, StartCalls DEF IInv
      <4> QED
        BY <4>1 DEF SameButOverlapped, Stage
    <3>3. CASE Start(c, m) /\ d = c
      <4>1. call'[c].method = m /\ call'[c].phase = IF m.kind = "read" THEN "step" ELSE "guard"
        BY <3>3, StartCalls DEF IInv, Begun
      <4> QED
        BY <2>3, <3>3, <4>1 DEF Stage
    <3> QED
      BY <2>1, <3>1, <3>2, <3>3
  <2> QED
    BY <2>2, <2>4 DEF ToolStages
<1>2. CASE Restart
  <2>1. /\ applied' = applied
        /\ \A d \in Call : call'[d] = IF InFlight(d) THEN [call[d] EXCEPT !.phase = "dead"]
                                     ELSE call[d]
    BY <1>2, RestartInv DEF IInv, written
  <2>2. ASSUME NEW d \in Call
        PROVE  Stage(d)' = IF Stage(d)' = "over" THEN "over" ELSE Stage(d)
    <3>1. CASE InFlight(d)
      <4>1. call'[d].phase = "dead" /\ call'[d].method = call[d].method
        BY <2>1, <3>1 DEF IInv, Types, CallRecord
      <4> QED
        BY <4>1 DEF Stage
    <3>2. CASE ~InFlight(d)
      <4>1. call'[d] = call[d]
        BY <2>1, <3>2
      <4> QED
        BY <4>1 DEF Stage
    <3> QED
      BY <3>1, <3>2
  <2>3. ToolStages' = [c \in Call |-> IF ToolStages'[c] = "over" THEN "over" ELSE ToolStages[c]]
    BY <2>2 DEF ToolStages
  <2> QED
    BY <2>1, <2>3 DEF Tool!Next, Tool!End, ToolStages
<1>3. CASE UNCHANGED <<call, applied>>
  BY <1>3 DEF ToolStages, Stage
<1> QED
  BY <1>1, <1>2, <1>3, RunIsToolStep
     DEF Next, Expire, Revoke, MoveFile, vars, shared, written

\* Every write method of every connector, with its retries, refused requests
\* and lost answers, implements ToolWrite: audited first, made at most once,
\* and made if it returns.
THEOREM WritesAreToolWrites == Spec => ToolWriteSpec
<1>1. Init => Tool!Init
  <2> SUFFICES ASSUME Init PROVE Tool!Init
    OBVIOUS
  <2>1. ASSUME NEW c \in Call PROVE Stage(c) = "execute"
    BY DEF Init, NoCallYet, NoMethod, Method, Stage
  <2> QED
    BY <2>1 DEF Init, Tool!Init
<1>2. IInv /\ [Next]_vars => [Tool!Next]_(Tool!vars)
  BY NextIsToolStep DEF Tool!vars, ToolStages
<1> QED
  BY <1>1, <1>2, InvariantHolds, PTL DEF Spec, ToolWriteSpec, Tool!Spec
=============================================================================
