-------------------------- MODULE StateStoreProofs ---------------------------
(***************************************************************************)
(* Proofs about StateStore: its inductive invariant, the properties that   *)
(* follow from it, and that both stores implement StoreContract.           *)
(***************************************************************************)
EXTENDS StateStoreInv, SequenceTheorems, TLAPS

-----------------------------------------------------------------------------
(***************************************************************************)
(* Operations and tables                                                   *)
(***************************************************************************)

\* What an operation is asked for.
LEMMA OpKinds ==
    ASSUME NEW op \in Op
    PROVE  /\ op # NoOp
           /\ op.method \in {"log_event", "add_pending_action", "resolve_pending_action",
                             "set_status", "read"}
           /\ op.method = "resolve_pending_action" => op.action \in Call /\ op.vote \in Vote
           /\ op.method = "set_status" => op.named \subseteq Field
BY DEF Op, NoOp

RecordRow == [status : {"absent", "pending"} \cup Vote, by : Call \cup {NoCall}]
EventRow ==
    [type : {"proposed", "other"} \cup Vote, call : Call, action : Call \cup {NoCall},
     stamp : Nat]

\* The tables by their three parts.
LEMMA TablesType ==
    ASSUME NEW t
    PROVE  t \in Tables <=>
               /\ t = [actions |-> t.actions, events |-> t.events, fields |-> t.fields]
               /\ t.actions \in [Call -> RecordRow]
               /\ t.events \in Seq(EventRow)
               /\ t.fields \in [Field -> Call \cup {NoCall}]
BY DEF Tables, RecordRow, EventRow

LEMMA EmptyType == Empty \in Tables
<1>1. NoRecord \in RecordRow
  BY DEF NoRecord, RecordRow
<1>2. [a \in Call |-> NoRecord] \in [Call -> RecordRow]
  BY <1>1
<1>3. [f \in Field |-> NoCall] \in [Field -> Call \cup {NoCall}]
  OBVIOUS
<1>4. <<>> \in Seq(EventRow)
  OBVIOUS
<1> QED
  BY <1>2, <1>3, <1>4, TablesType DEF Empty

LEMMA LoggedByType ==
    ASSUME Types, NEW c \in Call, call[c].op \in Op
    PROVE  LoggedBy(c) \in EventRow /\ LoggedBy(c).call = c
<1>1. call[c].stamp \in Nat
  BY DEF Types, CallRecord
<1>2. EventOf(c, "proposed", c) \in EventRow /\ EventOf(c, "other", NoCall) \in EventRow
  BY <1>1 DEF EventOf, EventRow
<1>3. ASSUME call[c].op.method = "resolve_pending_action"
      PROVE  EventOf(c, call[c].op.vote, call[c].op.action) \in EventRow
  BY <1>1, <1>3, OpKinds DEF EventOf, EventRow
<1>4. \A type, a : EventOf(c, type, a).call = c
  BY DEF EventOf
<1>5. CASE call[c].op.method = "add_pending_action"
  BY <1>2, <1>4, <1>5 DEF LoggedBy
<1>6. CASE call[c].op.method = "resolve_pending_action"
  BY <1>3, <1>4, <1>6 DEF LoggedBy
<1>7. CASE call[c].op.method \notin {"add_pending_action", "resolve_pending_action"}
  BY <1>2, <1>4, <1>7 DEF LoggedBy
<1> QED
  BY <1>5, <1>6, <1>7

-----------------------------------------------------------------------------
(***************************************************************************)
(* What the statements of both stores do to the tables                     *)
(***************************************************************************)

WithEvent(c) == [db EXCEPT !.events = Append(@, LoggedBy(c))]
WithAction(c) == [db EXCEPT !.actions[c] = [status |-> "pending", by |-> NoCall]]
WithDecision(c) == [db EXCEPT !.actions[call[c].op.action] = Decided(c)]
WithFields(c) == [db EXCEPT !.fields = Merged(c, @)]

LogStep(c) == Logs(c) /\ Fetched(c, WithEvent(c))
AddStep(c) == Runs(c, "add_pending_action") /\ Fetched(c, WithAction(c))
DecideStep(c) ==
    /\ Runs(c, "resolve_pending_action")
    /\ db.actions[call[c].op.action].status = "pending"
    /\ Fetched(c, WithDecision(c))
SetStep(c) == Runs(c, "set_status") /\ Fetched(c, WithFields(c))
ReadStep(c) == Runs(c, "read") /\ Fetched(c, db)

Statement(c) == LogStep(c) \/ AddStep(c) \/ DecideStep(c) \/ SetStep(c) \/ ReadStep(c)

\* A statement of the file store acts on what the file holds; and the action
\* it decides is pending, although the code does not look.
LEMMA FileStatements ==
    ASSUME IInv, NEW c \in Call,
           \/ FileLogEvent(c) \/ FileAddAction(c) \/ FileResolveAction(c)
           \/ FileSetStatus(c) \/ FileRead(c)
    PROVE  Statement(c)
<1>1. ~Postgres /\ call[c].phase = "running"
  BY DEF FileLogEvent, FileAddAction, FileResolveAction, FileSetStatus, FileRead, Replace,
         Logs, Runs
<1>2. call[c].read = db
  BY <1>1 DEF IInv, CallInv, Locked
<1>3. CASE FileLogEvent(c)
  BY <1>2, <1>3 DEF FileLogEvent, Replace, Statement, LogStep, WithEvent
<1>4. CASE FileAddAction(c)
  BY <1>2, <1>4 DEF FileAddAction, Replace, Statement, AddStep, WithAction
<1>5. CASE FileResolveAction(c)
  <2> DEFINE a == call[c].op.action
  <2>1. Runs(c, "resolve_pending_action") /\ Fetched(c, WithDecision(c))
    BY <1>2, <1>5 DEF FileResolveAction, Replace, WithDecision
  <2>2. call[c].op \in Op /\ a \in Call
    BY <2>1, OpKinds DEF IInv, CallInv, Place, Runs
  <2>3. /\ Is(a, "add_pending_action") /\ call[a].phase = "returned"
        /\ config.redecided \/ \A d \in Call :
               Is(d, "resolve_pending_action") /\ call[d].op.action = a => d = c
    BY <2>1 DEF IInv, CallInv, Decides, Is, Runs
  <2>4. ~config.redecided
    BY <1>1, StateStoreAssumption, FileActionsDecidedOnce DEF IInv, Types, Postgres, Configuration
  <2>5. db.actions[a].status # "absent"
    BY <2>2, <2>3 DEF IInv, CallInv, Done, Place, Ran, LogsLast
  <2>6. ~MayHaveRun(c)
    BY <2>1 DEF Runs, MayHaveRun, Ran
  <2>7. db.actions[a].status \notin Vote
    BY <2>2, <2>3, <2>4, <2>6 DEF IInv, CallInv, Recorded
  <2>8. db.actions[a].status \in {"absent", "pending"} \cup Vote
    BY <2>2, TablesType DEF IInv, Types, RecordRow
  <2> QED
    BY <2>1, <2>5, <2>7, <2>8 DEF Statement, DecideStep
<1>6. CASE FileSetStatus(c)
  BY <1>2, <1>6 DEF FileSetStatus, Replace, Statement, SetStep, WithFields
<1>7. CASE FileRead(c)
  BY <1>7 DEF FileRead, Statement, ReadStep
<1> QED
  BY <1>3, <1>4, <1>5, <1>6, <1>7

LEMMA PostgresStatements ==
    ASSUME NEW c \in Call,
           InsertEvent(c) \/ InsertAction(c) \/ UpdateAction(c) \/ Upsert(c) \/ Select(c)
    PROVE  Statement(c)
BY DEF InsertEvent, InsertAction, UpdateAction, Upsert, Select, Statement, LogStep, AddStep,
       DecideStep, SetStep, ReadStep, WithEvent, WithAction, WithDecision, WithFields

-----------------------------------------------------------------------------
(***************************************************************************)
(* Steps                                                                   *)
(***************************************************************************)

Take(c) == TakeConnection(c) \/ TakeLock(c)
Raise(c) == ConnectionLost(c) \/ PoolTimeout(c)

\* A thread's step, whichever store it works on.
LEMMA RunIs ==
    ASSUME IInv, NEW c \in Call, Run(c)
    PROVE  Take(c) \/ Statement(c) \/ UpdateNothing(c) \/ Release(c) \/ Raise(c)
BY FileStatements, PostgresStatements DEF Run, Take, Raise

\* A call that goes on is the same call.
Keeps(d) ==
    /\ call'[d].op = call[d].op
    /\ call'[d].server = call[d].server
    /\ call'[d].preceding = call[d].preceding

\* From one phase to another, with its stamp.
Goes(d, from, to, holds) ==
    /\ call[d].phase \in from /\ call'[d].phase = to
    /\ call'[d].at = call[d].at /\ call'[d].stamp = call[d].stamp
    /\ call'[d].holds = holds

\* From its own statement to the one of log_event.
GoesToLog(d) ==
    /\ call[d].phase = "fetched" /\ call'[d].phase = "waiting"
    /\ call[d].at = "main" /\ call'[d].at = "log"
    /\ LogsLast(d)
    /\ clock' = clock + 1 /\ call'[d].stamp = Now(call[d].server)
    /\ call'[d].holds = 0

Moves(d) ==
    /\ Keeps(d)
    /\ \/ Goes(d, {"waiting"}, "running", 1)
       \/ Goes(d, {"running"}, "fetched", 1)
       \/ Goes(d, {"running"}, "nothing", 0) /\ Runs(d, "resolve_pending_action")
       \/ Goes(d, {"fetched"}, "returned", 0) /\ (LogsLast(d) => call[d].at = "log")
       \/ GoesToLog(d)
       \/ Goes(d, {"waiting", "running", "fetched"}, "raised", 0)
       \/ Goes(d, {"waiting"}, "timedOut", 0)
       \/ Goes(d, {"waiting", "running", "fetched"}, "dead", 0)
       \/ InFlight(d) /\ Goes(d, {call[d].phase}, call[d].phase, call[d].holds)

\* What Begin does to its call.
Begun(d) ==
    /\ call[d].phase = "idle" /\ call'[d].phase = "waiting"
    /\ call'[d].op \in Op /\ Allowed(call'[d].op)
    /\ call'[d].server \in config.servers
    /\ call'[d].at = "main" /\ call'[d].holds = 0
    /\ clock' = clock + 1 /\ call'[d].stamp = Now(call'[d].server)
    /\ call'[d].preceding = {e \in Call : Returned(e)}
    /\ call'[d].alive /\ call'[d].troubled = ~reachable
    /\ UNCHANGED <<db, reachable>>

\* One call's step leaves the others alone.
OnlyMoves(c) ==
    /\ Moves(c)
    /\ \A d \in Call : d # c => call'[d] = call[d]

LEMMA Updated ==
    ASSUME Types, NEW c \in Call, NEW k, Update(c, k)
    PROVE  /\ call'[c] = k
           /\ \A d \in Call : d # c => call'[d] = call[d]
           /\ k \in CallRecord => call' \in [Call -> CallRecord]
BY DEF Types, Update

LEMMA CallType ==
    ASSUME Types, NEW c \in Call
    PROVE  call[c] \in CallRecord
BY DEF Types

LEMMA TakeMoves ==
    ASSUME IInv, NEW c \in Call, Take(c)
    PROVE  /\ OnlyMoves(c) /\ Types' /\ UNCHANGED <<config, db, clock, reachable>>
           /\ call[c].phase = "waiting" /\ call'[c].phase = "running"
           /\ (call'[c].alive \/ call'[c].alive = call[c].alive)
           /\ call'[c].troubled = call[c].troubled
           /\ ~Postgres => call'[c].read = db
<1> Types /\ Place(c) /\ call[c] \in CallRecord
  BY CallType DEF IInv, CallInv
<1>1. call[c].phase = "waiting" /\ call[c].holds = 0
  BY DEF Take, TakeConnection, TakeLock, Place, CallRecord
<1>2. CASE TakeConnection(c)
  <2> DEFINE k == [call[c] EXCEPT !.phase = "running", !.holds = 1, !.alive = TRUE]
  <2>1. /\ k.phase = "running" /\ k.holds = 1 /\ k.at = call[c].at /\ k.stamp = call[c].stamp
        /\ k.op = call[c].op /\ k.server = call[c].server /\ k.preceding = call[c].preceding
        /\ k.alive /\ k.troubled = call[c].troubled
        /\ k \in CallRecord
    BY <1>1 DEF CallRecord
  <2>2. Update(c, k) /\ UNCHANGED <<config, db, clock, reachable>> /\ Postgres
    BY <1>1, <1>2 DEF TakeConnection
  <2>3. stale' \in [Server -> BOOLEAN]
    BY <1>2 DEF TakeConnection, Types
  <2> HIDE DEF k
  <2> QED
    BY <1>1, <2>1, <2>2, <2>3, Updated DEF OnlyMoves, Moves, Keeps, Goes, Types
<1>3. CASE TakeLock(c)
  <2> DEFINE k == [call[c] EXCEPT !.phase = "running", !.holds = 1, !.read = db]
  <2>1. /\ k.phase = "running" /\ k.holds = 1 /\ k.at = call[c].at /\ k.stamp = call[c].stamp
        /\ k.op = call[c].op /\ k.server = call[c].server /\ k.preceding = call[c].preceding
        /\ k.alive = call[c].alive /\ k.troubled = call[c].troubled /\ k.read = db
        /\ k \in CallRecord
    BY <1>1 DEF CallRecord, Types
  <2>2. Update(c, k) /\ UNCHANGED <<config, db, clock, reachable, stale>>
    BY <1>1, <1>3 DEF TakeLock
  <2> HIDE DEF k
  <2> QED
    BY <1>1, <2>1, <2>2, Updated DEF OnlyMoves, Moves, Keeps, Goes, Types
<1> QED
  BY <1>2, <1>3 DEF Take

\* The tables after a statement.
LEMMA StatementTables ==
    ASSUME IInv, NEW c \in Call, Statement(c)
    PROVE  db' \in Tables
<1> Types /\ db \in Tables /\ call[c].op \in Op
  BY DEF IInv, Types, CallInv, Place, Statement, LogStep, AddStep, DecideStep, SetStep,
         ReadStep, Logs, Runs
<1>1. CASE LogStep(c)
  <2>1. Append(db.events, LoggedBy(c)) \in Seq(EventRow)
    BY LoggedByType, TablesType
  <2> QED
    BY <1>1, <2>1, TablesType DEF LogStep, Fetched, WithEvent
<1>2. ASSUME NEW a \in Call, NEW r \in RecordRow, db' = [db EXCEPT !.actions[a] = r]
      PROVE  db' \in Tables
  <2>1. [db.actions EXCEPT ![a] = r] \in [Call -> RecordRow]
    BY TablesType
  <2> QED
    BY <1>2, <2>1, TablesType
<1>3. CASE AddStep(c)
  <2>1. [status |-> "pending", by |-> NoCall] \in RecordRow
    BY DEF RecordRow
  <2> QED
    BY <1>2, <1>3, <2>1 DEF AddStep, Fetched, WithAction
<1>4. CASE DecideStep(c)
  <2>1. call[c].op.action \in Call /\ call[c].op.vote \in Vote
    BY <1>4, OpKinds DEF DecideStep, Runs
  <2>2. Decided(c) \in RecordRow
    BY <2>1 DEF RecordRow, Decided
  <2> QED
    BY <1>2, <1>4, <2>1, <2>2 DEF DecideStep, Fetched, WithDecision
<1>5. CASE SetStep(c)
  <2>1. Merged(c, db.fields) \in [Field -> Call \cup {NoCall}]
    BY TablesType DEF Merged
  <2> QED
    BY <1>5, <2>1, TablesType DEF SetStep, Fetched, WithFields
<1>6. CASE ReadStep(c)
  BY <1>6 DEF ReadStep, Fetched
<1> QED
  BY <1>1, <1>3, <1>4, <1>5, <1>6 DEF Statement

LEMMA StatementMoves ==
    ASSUME IInv, NEW c \in Call, Statement(c)
    PROVE  /\ OnlyMoves(c) /\ Types' /\ UNCHANGED <<config, clock, reachable>>
           /\ call[c].phase = "running" /\ call'[c].phase = "fetched"
           /\ call'[c].alive = call[c].alive /\ call'[c].troubled = call[c].troubled
<1> Types /\ Place(c) /\ call[c] \in CallRecord
  BY CallType DEF IInv, CallInv
<1> DEFINE k == [call[c] EXCEPT !.phase = "fetched", !.read = Empty]
<1>1. call[c].phase = "running" /\ call[c].holds = 1
  BY DEF Statement, LogStep, AddStep, DecideStep, SetStep, ReadStep, Logs, Runs, Place
<1>2. Update(c, k) /\ UNCHANGED <<config, clock, reachable, stale>>
  BY DEF Statement, LogStep, AddStep, DecideStep, SetStep, ReadStep, Fetched
<1>3. /\ k.phase = "fetched" /\ k.holds = 1 /\ k.at = call[c].at /\ k.stamp = call[c].stamp
      /\ k.op = call[c].op /\ k.server = call[c].server /\ k.preceding = call[c].preceding
      /\ k.alive = call[c].alive /\ k.troubled = call[c].troubled
      /\ k \in CallRecord
  BY <1>1, EmptyType DEF CallRecord
<1> HIDE DEF k
<1> QED
  BY <1>1, <1>2, <1>3, Updated, StatementTables DEF OnlyMoves, Moves, Keeps, Goes, Types

LEMMA UpdateNothingMoves ==
    ASSUME IInv, NEW c \in Call, UpdateNothing(c)
    PROVE  /\ OnlyMoves(c) /\ Types' /\ UNCHANGED <<config, db, clock, reachable>>
           /\ call'[c].alive = call[c].alive /\ call'[c].troubled = call[c].troubled
           /\ call'[c].phase = "nothing"
<1> Types /\ Place(c) /\ call[c] \in CallRecord
  BY CallType DEF IInv, CallInv
<1>1. call[c].phase = "running" /\ call[c].holds = 1 /\ Runs(c, "resolve_pending_action")
  BY DEF UpdateNothing, Runs, Place
<1> DEFINE k == [call[c] EXCEPT !.phase = "nothing", !.holds = 0]
<1>2. Update(c, k) /\ UNCHANGED <<config, db, clock, reachable, stale>>
  BY <1>1 DEF UpdateNothing
<1>3. /\ k.phase = "nothing" /\ k.holds = 0 /\ k.at = call[c].at /\ k.stamp = call[c].stamp
      /\ k.op = call[c].op /\ k.server = call[c].server /\ k.preceding = call[c].preceding
      /\ k.alive = call[c].alive /\ k.troubled = call[c].troubled
      /\ k \in CallRecord
  BY DEF CallRecord
<1> HIDE DEF k
<1> QED
  BY <1>1, <1>2, <1>3, Updated DEF OnlyMoves, Moves, Keeps, Goes, Types

\* Clocks run ahead by what the configuration says.
LEMMA NowIs ==
    ASSUME Types, NEW s \in config.servers
    PROVE  /\ s \in Server /\ config.ahead[s] \in Nat
           /\ Now(s) = clock + 1 + config.ahead[s] /\ Now(s) \in Nat
BY StateStoreAssumption DEF Types, Configuration, Now

LEMMA ReleaseMoves ==
    ASSUME IInv, NEW c \in Call, Release(c)
    PROVE  /\ OnlyMoves(c) /\ Types' /\ UNCHANGED <<config, db, reachable>>
           /\ call'[c].alive = call[c].alive /\ call'[c].troubled = call[c].troubled
           /\ clock' \in {clock, clock + 1}
           /\ call'[c].phase \in {"waiting", "returned"}
<1> Types /\ Place(c) /\ call[c] \in CallRecord /\ clock \in Nat
  BY CallType DEF IInv, CallInv, Types
<1>1. call[c].phase = "fetched" /\ call[c].holds = 1 /\ call[c].server \in config.servers
  BY DEF Release, Place
<1>2. CASE call[c].at = "main" /\ LogsLast(c)
  <2> DEFINE k == [call[c] EXCEPT !.phase = "waiting", !.at = "log", !.holds = 0,
                      !.stamp = Now(call[c].server)]
  <2>1. Update(c, k) /\ clock' = clock + 1 /\ UNCHANGED <<config, db, reachable, stale>>
    BY <1>1, <1>2 DEF Release, LogsLast, Is
  <2>2. /\ k.phase = "waiting" /\ k.holds = 0 /\ k.at = "log"
        /\ k.stamp = Now(call[c].server)
        /\ k.op = call[c].op /\ k.server = call[c].server /\ k.preceding = call[c].preceding
        /\ k.alive = call[c].alive /\ k.troubled = call[c].troubled
        /\ k \in CallRecord
    BY <1>1, NowIs DEF CallRecord
  <2>3. clock' \in Nat
    BY <2>1
  <2> HIDE DEF k
  <2> QED
    BY <1>1, <1>2, <2>1, <2>2, <2>3, Updated DEF OnlyMoves, Moves, Keeps, GoesToLog, Types
<1>3. CASE ~(call[c].at = "main" /\ LogsLast(c))
  <2> DEFINE k == [call[c] EXCEPT !.phase = "returned", !.holds = 0]
  <2>1. Update(c, k) /\ UNCHANGED <<config, db, clock, reachable, stale>>
    BY <1>1, <1>3 DEF Release, LogsLast, Is
  <2>2. /\ k.phase = "returned" /\ k.holds = 0 /\ k.at = call[c].at /\ k.stamp = call[c].stamp
        /\ k.op = call[c].op /\ k.server = call[c].server /\ k.preceding = call[c].preceding
        /\ k.alive = call[c].alive /\ k.troubled = call[c].troubled
        /\ k \in CallRecord
    BY DEF CallRecord
  <2>3. LogsLast(c) => call[c].at = "log"
    BY <1>3 DEF CallRecord
  <2> HIDE DEF k
  <2> QED
    BY <1>1, <2>1, <2>2, <2>3, Updated DEF OnlyMoves, Moves, Keeps, Goes, Types
<1> QED
  BY <1>2, <1>3

LEMMA RaiseMoves ==
    ASSUME IInv, NEW c \in Call, Raise(c)
    PROVE  /\ OnlyMoves(c) /\ Types' /\ UNCHANGED <<config, db, clock, reachable>>
           /\ call'[c].alive = call[c].alive /\ call'[c].troubled = call[c].troubled
           /\ InFlight(c)
           /\ \/ call'[c].phase = "raised" /\ (~reachable \/ ~call[c].alive)
              \/ call'[c].phase = "timedOut"
<1> Types /\ Place(c) /\ call[c] \in CallRecord
  BY CallType DEF IInv, CallInv
<1>1. PICK end \in {"raised", "timedOut"} :
          /\ Update(c, [call[c] EXCEPT !.phase = end, !.holds = 0])
          /\ end = "raised" =>
                 call[c].phase \in {"running", "fetched"} /\ (~reachable \/ ~call[c].alive)
          /\ end = "timedOut" => call[c].phase = "waiting"
  BY DEF Raise, ConnectionLost, PoolTimeout
<1> DEFINE k == [call[c] EXCEPT !.phase = end, !.holds = 0]
<1>2. Update(c, k) /\ UNCHANGED <<config, db, clock, reachable, stale>>
  BY <1>1 DEF Raise, ConnectionLost, PoolTimeout
<1>3. /\ k.phase = end /\ k.holds = 0 /\ k.at = call[c].at /\ k.stamp = call[c].stamp
      /\ k.op = call[c].op /\ k.server = call[c].server /\ k.preceding = call[c].preceding
      /\ k.alive = call[c].alive /\ k.troubled = call[c].troubled
      /\ k \in CallRecord
  BY <1>1 DEF CallRecord
<1> HIDE DEF k
<1> QED
  BY <1>1, <1>2, <1>3, Updated DEF OnlyMoves, Moves, Keeps, Goes, Types, InFlight

LEMMA BeginMoves ==
    ASSUME IInv, NEW c \in Call, NEW s \in Server, NEW op \in Op, Begin(c, s, op)
    PROVE  /\ Begun(c) /\ Types' /\ UNCHANGED config
           /\ \A d \in Call : d # c => call'[d] = call[d]
<1> Types /\ clock \in Nat /\ reachable \in BOOLEAN
  BY DEF IInv, Types
<1> DEFINE k == [NoCallYet EXCEPT
           !.phase = "waiting", !.op = op, !.server = s, !.stamp = Now(s),
           !.preceding = {d \in Call : Returned(d)}, !.troubled = ~reachable]
<1>1. call[c].phase = "idle" /\ s \in config.servers /\ Allowed(op)
  BY DEF Begin
<1>2. Update(c, k) /\ clock' = clock + 1 /\ UNCHANGED <<config, db, reachable, stale>>
  BY DEF Begin
<1>3. /\ k.phase = "waiting" /\ k.op = op /\ k.server = s /\ k.stamp = Now(s)
      /\ k.preceding = {d \in Call : Returned(d)} /\ k.troubled = ~reachable
      /\ k.at = "main" /\ k.holds = 0 /\ k.alive
  BY DEF NoCallYet
<1>4. k \in CallRecord
  BY <1>1, NowIs, EmptyType DEF NoCallYet, CallRecord
<1>5. clock' \in Nat
  BY <1>2
<1> HIDE DEF k
<1> QED
  BY <1>1, <1>2, <1>3, <1>4, <1>5, Updated DEF Begun, Types

\* The steps that are no call's own.
Event ==
    \/ Outage
    \/ OutageOver
    \/ \E s \in Server : IdleConnectionDies(s) \/ Crash(s)

LEMMA EventMoves ==
    ASSUME IInv, Event
    PROVE  /\ \A d \in Call : call'[d] = call[d] \/ Moves(d)
           /\ Types' /\ UNCHANGED <<config, db, clock>>
<1> Types /\ call \in [Call -> CallRecord] /\ stale \in [Server -> BOOLEAN]
  BY DEF IInv, Types
<1>1. CASE Outage
  <2> DEFINE k(d) == [call[d] EXCEPT !.troubled = TRUE,
                         !.alive = @ /\ call[d].phase = "waiting"]
  <2>1. /\ call' = [d \in Call |-> IF InFlight(d) THEN k(d) ELSE call[d]]
        /\ UNCHANGED <<config, db, clock>>
    BY <1>1, Zenon DEF Outage
  <2>5. stale' \in [Server -> BOOLEAN]
    <3>1. stale' = [s \in Server |-> s \in config.servers]
      BY <1>1 DEF Outage
    <3>2. \A s \in Server : (s \in config.servers) \in BOOLEAN
      OBVIOUS
    <3> QED
      BY <3>1, <3>2, Zenon
  <2>6. reachable' \in BOOLEAN
    BY <1>1 DEF Outage
  <2>2. ASSUME NEW d \in Call
        PROVE  /\ k(d).phase = call[d].phase /\ k(d).at = call[d].at
               /\ k(d).stamp = call[d].stamp /\ k(d).holds = call[d].holds
               /\ k(d).op = call[d].op /\ k(d).server = call[d].server
               /\ k(d).preceding = call[d].preceding
               /\ k(d) \in CallRecord
    BY CallType DEF CallRecord
  <2> HIDE DEF k
  <2>3. call' \in [Call -> CallRecord]
    BY <2>1, <2>2
  <2>4. ASSUME NEW d \in Call
        PROVE  call'[d] = call[d] \/ Moves(d)
    BY <2>1, <2>2 DEF Moves, Keeps, Goes
  <2> QED
    BY <2>1, <2>3, <2>4, <2>5, <2>6 DEF Types
<1>2. CASE OutageOver
  BY <1>2 DEF OutageOver, Types
<1>3. ASSUME NEW s \in Server, IdleConnectionDies(s)
      PROVE  /\ \A d \in Call : call'[d] = call[d] \/ Moves(d)
             /\ Types' /\ UNCHANGED <<config, db, clock>>
  BY <1>3 DEF IdleConnectionDies, Types
<1>4. ASSUME NEW s \in Server, Crash(s)
      PROVE  /\ \A d \in Call : call'[d] = call[d] \/ Moves(d)
             /\ Types' /\ UNCHANGED <<config, db, clock>>
  <2> DEFINE k(d) == [call[d] EXCEPT !.phase = "dead", !.holds = 0, !.read = Empty]
  <2>1. /\ call' = [d \in Call |-> IF InFlight(d) /\ call[d].server = s THEN k(d) ELSE call[d]]
        /\ UNCHANGED <<config, db, clock, reachable>>
        /\ stale' \in [Server -> BOOLEAN]
    BY <1>4 DEF Crash
  <2>2. ASSUME NEW d \in Call
        PROVE  /\ k(d).phase = "dead" /\ k(d).at = call[d].at
               /\ k(d).stamp = call[d].stamp /\ k(d).holds = 0
               /\ k(d).op = call[d].op /\ k(d).server = call[d].server
               /\ k(d).preceding = call[d].preceding
               /\ k(d) \in CallRecord
    BY CallType, EmptyType DEF CallRecord
  <2> HIDE DEF k
  <2>3. call' \in [Call -> CallRecord]
    BY <2>1, <2>2
  <2>4. ASSUME NEW d \in Call
        PROVE  call'[d] = call[d] \/ Moves(d)
    BY <2>1, <2>2 DEF Moves, Keeps, Goes, InFlight
  <2> QED
    BY <2>1, <2>3, <2>4 DEF Types
<1> QED
  BY <1>1, <1>2, <1>3, <1>4 DEF Event

\* What a step does to each call.
CallStep(d) == call'[d] = call[d] \/ Begun(d) \/ Moves(d)

LEMMA NextMoves ==
    ASSUME IInv, Next
    PROVE  Types' /\ config' = config /\ \A d \in Call : CallStep(d)
<1>1. ASSUME NEW c \in Call, NEW s \in Server, NEW op \in Op, Begin(c, s, op)
      PROVE  Types' /\ config' = config /\ \A d \in Call : CallStep(d)
  BY <1>1, BeginMoves DEF CallStep
<1>2. ASSUME NEW c \in Call, Run(c)
      PROVE  Types' /\ config' = config /\ \A d \in Call : CallStep(d)
  <2>1. OnlyMoves(c) /\ Types' /\ config' = config
    BY <1>2, RunIs, TakeMoves, StatementMoves, UpdateNothingMoves, ReleaseMoves, RaiseMoves
  <2> QED
    BY <2>1 DEF OnlyMoves, CallStep
<1>3. CASE Event
  BY <1>3, EventMoves DEF CallStep
<1> QED
  BY <1>1, <1>2, <1>3 DEF Next, Event

\* One call at most begins in a step.
LEMMA OneBegins ==
    ASSUME IInv, Next, NEW d \in Call, NEW e \in Call, Begun(d), Begun(e)
    PROVE  d = e
<1> \A b \in Call : Begun(b) => call'[b] # call[b] /\ ~Moves(b)
  BY DEF Begun, Moves, Goes, GoesToLog, InFlight
<1>1. ASSUME NEW c \in Call, NEW s \in Server, NEW op \in Op, Begin(c, s, op)
      PROVE  d = e
  BY <1>1, BeginMoves
<1>2. ASSUME NEW c \in Call, Run(c)
      PROVE  d = e
  <2>1. OnlyMoves(c)
    BY <1>2, RunIs, TakeMoves, StatementMoves, UpdateNothingMoves, ReleaseMoves, RaiseMoves
  <2> QED
    BY <2>1 DEF OnlyMoves
<1>3. CASE Event
  BY <1>3, EventMoves
<1> QED
  BY <1>1, <1>2, <1>3 DEF Next, Event

LEMMA ClockGoesOn ==
    ASSUME IInv, Next
    PROVE  clock <= clock'
<1> clock \in Nat
  BY DEF IInv, Types
<1>1. ASSUME NEW c \in Call, NEW s \in Server, NEW op \in Op, Begin(c, s, op)
      PROVE  clock <= clock'
  BY <1>1 DEF Begin
<1>2. ASSUME NEW c \in Call, Run(c)
      PROVE  clock' \in {clock, clock + 1}
  BY <1>2, RunIs, TakeMoves, StatementMoves, UpdateNothingMoves, ReleaseMoves, RaiseMoves
<1>3. CASE Event
  BY <1>3, EventMoves
<1> QED
  BY <1>1, <1>2, <1>3 DEF Next, Event

-----------------------------------------------------------------------------
(***************************************************************************)
(* Calls keep their part of the invariant                                  *)
(***************************************************************************)

\* What a step may not undo.
GoesOn(d) ==
    /\ call[d].phase # "idle" => call'[d].phase # "idle" /\ Keeps(d)
    /\ Returned(d) => call'[d] = call[d]
    /\ MayHaveRun(d) => MayHaveRun(d)'
    /\ MayHaveLogged(d) => MayHaveLogged(d)' /\ call'[d].stamp = call[d].stamp

LEMMA EveryCallGoesOn ==
    ASSUME IInv, Next, NEW d \in Call
    PROVE  GoesOn(d)
<1> Place(d) /\ CallStep(d)
  BY NextMoves DEF IInv, CallInv
<1>1. CASE call'[d] = call[d]
  BY <1>1 DEF GoesOn, Keeps, MayHaveRun, Ran, MayHaveLogged, Is
<1>2. CASE Begun(d)
  <2>1. call[d].phase = "idle" /\ call[d].at = "main" /\ ~Is(d, "log_event")
    BY <1>2 DEF Begun, Place, NoCallYet, NoOp, Is
  <2> QED
    BY <2>1 DEF GoesOn, Returned, MayHaveRun, Ran, MayHaveLogged
<1>3. CASE Moves(d)
  BY <1>3 DEF Moves, Goes, GoesToLog, Keeps, GoesOn, Returned, MayHaveRun, Ran, MayHaveLogged,
              Is, LogsLast, InFlight, Runs
<1> QED
  BY <1>1, <1>2, <1>3 DEF CallStep

LEMMA PlaceStays ==
    ASSUME IInv, Next, NEW d \in Call
    PROVE  Place(d)'
<1> Place(d) /\ CallStep(d) /\ config' = config
  BY NextMoves DEF IInv, CallInv
<1>1. CASE call'[d] = call[d]
  BY <1>1 DEF Place, LogsLast, Is
<1>2. CASE Begun(d)
  BY <1>2 DEF Begun, Place
<1>3. CASE Moves(d)
  BY <1>3 DEF Moves, Goes, GoesToLog, Keeps, Place, Is, LogsLast, InFlight, Runs
<1> QED
  BY <1>1, <1>2, <1>3 DEF CallStep

\* A call that had not begun decides nothing.
LEMMA IdleIs ==
    ASSUME IInv, NEW d \in Call, call[d].phase = "idle"
    PROVE  \A method : Is(d, method) => method = "none"
BY DEF IInv, CallInv, Place, NoCallYet, NoOp, Is

LEMMA DecidesStays ==
    ASSUME IInv, Next, NEW c \in Call
    PROVE  Decides(c)'
<1> SUFFICES ASSUME Is(c, "resolve_pending_action")'
             PROVE  Decides(c)'
  BY DEF Decides
<1> DEFINE a == call'[c].op.action
<1> config' = config /\ Place(c) /\ Decides(c) /\ \A d \in Call : CallStep(d) /\ GoesOn(d)
  BY NextMoves, EveryCallGoesOn DEF IInv, CallInv
\* The action is one that was added.
<1>1. ASSUME NEW b \in Call, Is(b, "add_pending_action"), call[b].phase = "returned"
      PROVE  call'[b].op.method = "add_pending_action" /\ call'[b].phase = "returned"
  BY <1>1 DEF GoesOn, Returned, Is
\* What the other calls decide, they decided before.
<1>2. ASSUME NEW d \in Call, ~Begun(d)
      PROVE  call'[d].op = call[d].op
  BY <1>2 DEF CallStep, Moves, Keeps
<1>3. ASSUME NEW d \in Call, NEW e \in Call, Begun(d), Begun(e)
      PROVE  d = e
  BY <1>3, OneBegins
<1>4. CASE Begun(c)
  <2>1. Allowed(call'[c].op) /\ call'[c].op \in Op /\ call'[c].op.method = "resolve_pending_action"
    BY <1>4 DEF Begun, Is
  <2>2. a \in Call
    BY <2>1, OpKinds
  <2>3. Is(a, "add_pending_action") /\ call[a].phase = "returned"
    BY <2>1 DEF Allowed, Is
  <2>4. ASSUME NEW d \in Call, ~config.redecided, Is(d, "resolve_pending_action")',
               call'[d].op.action = a
        PROVE  d = c
    <3>1. CASE Begun(d)
      BY <1>3, <1>4, <3>1
    <3>2. CASE ~Begun(d)
      BY <1>2, <2>1, <2>4, <3>2 DEF Allowed, Is
    <3> QED
      BY <3>1, <3>2
  <2> QED
    BY <1>1, <2>2, <2>3, <2>4 DEF Decides, Is
<1>5. CASE ~Begun(c)
  <2>1. call'[c].op = call[c].op /\ Is(c, "resolve_pending_action")
    BY <1>2, <1>5 DEF Is
  <2>2. a \in Call
    BY <2>1, IdleIs, OpKinds DEF Place, Is
  <2>3. call'[a].op.method = "add_pending_action" /\ call'[a].phase = "returned"
    BY <1>1, <2>1, <2>2 DEF Decides
  <2>4. ASSUME NEW d \in Call, ~config.redecided, Is(d, "resolve_pending_action")',
               call'[d].op.action = a
        PROVE  d = c
    <3>1. CASE Begun(d)
      <4>1. Allowed(call'[d].op) /\ call'[d].op.method = "resolve_pending_action"
        BY <2>4, <3>1 DEF Begun, Is
      <4> QED
        BY <2>1, <2>4, <4>1 DEF Allowed, Is
    <3>2. CASE ~Begun(d)
      BY <1>2, <2>1, <2>4, <3>2 DEF Decides, Is
    <3> QED
      BY <3>1, <3>2
  <2> QED
    BY <2>3, <2>4 DEF Decides, Is
<1> QED
  BY <1>4, <1>5

\* Stamps are in order.
LEMMA InTimeStays ==
    ASSUME IInv, Next, NEW c \in Call
    PROVE  InTime(c)'
<1> /\ config' = config /\ Types /\ clock \in Nat /\ clock' \in Nat
    /\ \A d \in Call : CallStep(d) /\ GoesOn(d) /\ Place(d) /\ InTime(d)
  BY NextMoves, EveryCallGoesOn DEF IInv, CallInv, Types
<1>1. clock <= clock'
  BY ClockGoesOn
<1>2. ASSUME NEW d \in Call
      PROVE  call[d].stamp \in Nat /\ call'[d].stamp \in Nat
  BY NextMoves DEF Types, CallRecord
<1>3. ASSUME NEW d \in Call, call[d].phase # "idle"
      PROVE  call[d].server \in config.servers /\ config.ahead[call[d].server] \in Nat
  BY <1>3, NowIs DEF Place
<1>4. CASE Begun(c)
  <2>1. /\ call'[c].server \in config.servers /\ call'[c].stamp = Now(call'[c].server)
        /\ clock' = clock + 1 /\ call'[c].preceding = {e \in Call : Returned(e)}
    BY <1>4 DEF Begun
  <2>2. call'[c].stamp = clock + 1 + config.ahead[call'[c].server]
        /\ config.ahead[call'[c].server] \in Nat
    BY <2>1, NowIs
  <2>3. ASSUME NEW d \in call'[c].preceding
        PROVE  /\ Returned(d)'
               /\ (ClocksAgree \/ call'[d].server = call'[c].server) =>
                      call'[d].stamp < call'[c].stamp
    <3>1. d \in Call /\ Returned(d) /\ call'[d] = call[d] /\ call[d].phase # "idle"
      BY <2>1 DEF GoesOn, Returned
    <3>2. call[d].stamp <= clock + config.ahead[call[d].server]
      BY <3>1 DEF InTime
    <3>3. (ClocksAgree \/ call[d].server = call'[c].server) =>
              config.ahead[call[d].server] = config.ahead[call'[c].server]
      BY <1>3, <2>1, <3>1 DEF ClocksAgree
    <3> QED
      BY <1>2, <1>3, <2>2, <3>1, <3>2, <3>3 DEF Returned
  <2> QED
    BY <2>1, <2>2, <2>3 DEF InTime, ClocksAgree
<1>5. CASE ~Begun(c)
  <2>1. Keeps(c)
    BY <1>5 DEF CallStep, Moves, Keeps
  <2>2. call'[c].phase # "idle" => call[c].phase # "idle"
    BY <1>5 DEF CallStep, Moves, Goes, GoesToLog
  <2>3. CASE call'[c].stamp = call[c].stamp
    <3>1. call'[c].phase # "idle" =>
              call'[c].stamp <= clock' + config.ahead[call[c].server]
      BY <1>1, <1>2, <1>3, <2>2, <2>3 DEF InTime
    <3>2. ASSUME NEW d \in call'[c].preceding
          PROVE  Returned(d)' /\ call'[d] = call[d] /\ d \in call[c].preceding
      <4>1. d \in call[c].preceding /\ d \in Call
        BY <2>1, CallType DEF Keeps, CallRecord
      <4> QED
        BY <4>1 DEF InTime, GoesOn, Returned
    <3> QED
      BY <2>1, <2>3, <3>1, <3>2 DEF InTime, Keeps, ClocksAgree
  <2>4. CASE GoesToLog(c)
    <3>1. /\ call[c].server \in config.servers /\ call'[c].stamp = Now(call[c].server)
          /\ clock' = clock + 1
      BY <2>4 DEF GoesToLog, Place
    <3>2. call'[c].stamp = clock + 1 + config.ahead[call[c].server]
          /\ config.ahead[call[c].server] \in Nat
      BY <3>1, NowIs
    <3>3. ASSUME NEW d \in call'[c].preceding
          PROVE  /\ Returned(d)'
                 /\ (ClocksAgree \/ call'[d].server = call'[c].server) =>
                        call'[d].stamp < call'[c].stamp
      <4>1. d \in call[c].preceding /\ d \in Call
        BY <2>1, CallType DEF Keeps, CallRecord
      <4>2. Returned(d) /\ call'[d] = call[d] /\ call[d].phase # "idle"
        BY <4>1 DEF InTime, GoesOn, Returned
      <4>3. call[d].stamp <= clock + config.ahead[call[d].server]
        BY <4>1, <4>2 DEF InTime
      <4>4. (ClocksAgree \/ call[d].server = call[c].server) =>
                config.ahead[call[d].server] = config.ahead[call[c].server]
        BY <1>3, <3>1, <4>1, <4>2 DEF ClocksAgree
      <4> QED
        BY <1>2, <1>3, <2>1, <3>2, <4>1, <4>2, <4>3, <4>4 DEF Returned, Keeps
    <3> QED
      BY <2>1, <3>1, <3>2, <3>3 DEF InTime, ClocksAgree, Keeps
  <2> QED
    BY <1>5, <2>3, <2>4 DEF CallStep, Moves, Goes
<1> QED
  BY <1>4, <1>5

LEMMA OutageIs ==
    ASSUME IInv, Outage, NEW d \in Call
    PROVE  /\ Postgres
           /\ call'[d].phase = call[d].phase
           /\ InFlight(d) => call'[d].troubled
           /\ ~InFlight(d) => call'[d] = call[d]
<1> DEFINE k == [call[d] EXCEPT !.troubled = TRUE, !.alive = @ /\ call[d].phase = "waiting"]
<1>1. Postgres /\ call'[d] = IF InFlight(d) THEN k ELSE call[d]
  BY Zenon DEF Outage
<1>2. k.phase = call[d].phase /\ k.troubled
  BY CallType DEF IInv, CallRecord
<1> HIDE DEF k
<1> QED
  BY <1>1, <1>2

LEMMA CrashIs ==
    ASSUME IInv, NEW s \in Server, Crash(s), NEW d \in Call
    PROVE  call'[d] = call[d] \/ (call'[d].phase = "dead" /\ call'[d].holds = 0
               /\ call'[d].alive = call[d].alive /\ call'[d].troubled = call[d].troubled)
BY CallType DEF IInv, CallRecord, Crash

LEMMA TroubleStays ==
    ASSUME IInv, Next, NEW d \in Call
    PROVE  TroubleKnown(d)'
<1> TroubleKnown(d) /\ Types
  BY DEF IInv, CallInv
<1>1. ASSUME NEW c \in Call, NEW s \in Server, NEW op \in Op, Begin(c, s, op)
      PROVE  TroubleKnown(d)'
  <2>1. Begun(c) /\ reachable' = reachable /\ \A e \in Call : e # c => call'[e] = call[e]
    BY <1>1, BeginMoves DEF Begun
  <2>2. CASE c # d
    BY <2>1, <2>2 DEF TroubleKnown, InFlight
  <2>3. CASE c = d
    <3>1. call'[d].alive /\ call'[d].phase = "waiting"
      BY <2>1, <2>3 DEF Begun
    <3>2. ~reachable => call'[d].troubled
      BY <2>1, <2>3 DEF Begun
    <3> QED
      BY <2>1, <3>1, <3>2 DEF TroubleKnown
  <2> QED
    BY <2>2, <2>3
<1>2. ASSUME NEW c \in Call, Run(c)
      PROVE  TroubleKnown(d)'
  <2>1. CASE c # d
    <3>1. call'[d] = call[d] /\ reachable' = reachable
      BY <1>2, <2>1, RunIs, TakeMoves, StatementMoves, UpdateNothingMoves, ReleaseMoves,
         RaiseMoves DEF OnlyMoves
    <3> QED
      BY <3>1 DEF TroubleKnown, InFlight
  <2>2. CASE c = d
    <3>1. CASE Take(d)
      BY <3>1, TakeMoves DEF TroubleKnown, InFlight
    <3>2. CASE Statement(d)
      BY <3>2, StatementMoves DEF TroubleKnown, InFlight
    <3>3. CASE UpdateNothing(d)
      BY <3>3, UpdateNothingMoves DEF TroubleKnown, InFlight
    <3>4. CASE Release(d)
      BY <3>4, ReleaseMoves DEF TroubleKnown, InFlight, OnlyMoves, Moves, Goes, GoesToLog
    <3>5. CASE Raise(d)
      BY <3>5, RaiseMoves DEF TroubleKnown, InFlight
    <3> QED
      BY <1>2, <2>2, <3>1, <3>2, <3>3, <3>4, <3>5, RunIs
  <2> QED
    BY <2>1, <2>2
<1>3. CASE Outage
  BY <1>3, OutageIs DEF TroubleKnown, InFlight
<1>4. CASE OutageOver
  BY <1>4 DEF OutageOver, TroubleKnown, InFlight
<1>5. ASSUME NEW s \in Server, IdleConnectionDies(s)
      PROVE  TroubleKnown(d)'
  BY <1>5 DEF IdleConnectionDies, TroubleKnown, InFlight
<1>6. ASSUME NEW s \in Server, Crash(s)
      PROVE  TroubleKnown(d)'
  <2>1. reachable' = reachable
    BY <1>6 DEF Crash
  <2> QED
    BY <1>6, <2>1, CrashIs DEF TroubleKnown, InFlight
<1> QED
  BY <1>1, <1>2, <1>3, <1>4, <1>5, <1>6 DEF Next

\* The file has one server.
LEMMA OneServer ==
    ASSUME IInv, ~Postgres, NEW c \in Call, NEW d \in Call,
           call[c].phase # "idle", call[d].phase # "idle"
    PROVE  call[c].server = call[d].server
BY StateStoreAssumption DEF IInv, Types, CallInv, Place, Configuration, Postgres

\* The lock is free when it is taken.
LEMMA LockIsFree ==
    ASSUME IInv, ~Postgres, NEW c \in Call, Take(c), NEW d \in Call
    PROVE  call[d].holds # 1
<1> SUFFICES ASSUME call[d].holds = 1 PROVE FALSE
  OBVIOUS
<1>1. TakeLock(c)
  BY DEF Take, TakeConnection
<1>2. call[c].phase = "waiting" /\ Holders(call[c].server) = {}
  BY <1>1 DEF TakeLock
<1>3. call[d].phase # "idle"
  BY DEF IInv, CallInv, Place
<1>4. d \in Holders(call[c].server)
  BY <1>2, <1>3, OneServer DEF Holders
<1> QED
  BY <1>2, <1>4

\* Without Take, a call holds what it held.
LEMMA NoneTakes ==
    ASSUME IInv, Next, \A c \in Call : ~Take(c), NEW d \in Call, call'[d].holds = 1
    PROVE  call[d].holds = 1
<1> Place(d)
  BY DEF IInv, CallInv
<1>1. ASSUME NEW c \in Call, NEW s \in Server, NEW op \in Op, Begin(c, s, op)
      PROVE  call[d].holds = 1
  BY <1>1, BeginMoves DEF Begun
<1>2. ASSUME NEW c \in Call, Run(c)
      PROVE  call[d].holds = 1
  <2>1. CASE c # d
    <3>1. call'[d] = call[d]
      BY <1>2, <2>1, RunIs, StatementMoves, UpdateNothingMoves, ReleaseMoves, RaiseMoves
         DEF OnlyMoves
    <3> QED
      BY <3>1
  <2>2. CASE c = d
    <3>1. Statement(d) \/ UpdateNothing(d) \/ Release(d) \/ Raise(d)
      BY <1>2, <2>2, RunIs
    <3>2. Moves(d) /\ ~(call'[d].phase = "running")
      BY <3>1, StatementMoves, UpdateNothingMoves, ReleaseMoves, RaiseMoves DEF OnlyMoves
    <3> QED
      BY <3>2 DEF Moves, Goes, GoesToLog, Place
  <2> QED
    BY <2>1, <2>2
<1>3. CASE Outage
  <2>1. call'[d].phase = call[d].phase
    BY <1>3, OutageIs
  <2>2. Place(d)'
    BY PlaceStays
  <2> QED
    BY <2>1, <2>2 DEF Place
<1>4. CASE OutageOver
  BY <1>4 DEF OutageOver
<1>5. ASSUME NEW s \in Server, IdleConnectionDies(s)
      PROVE  call[d].holds = 1
  BY <1>5 DEF IdleConnectionDies
<1>6. ASSUME NEW s \in Server, Crash(s)
      PROVE  call[d].holds = 1
  BY <1>6, CrashIs
<1> QED
  BY <1>1, <1>2, <1>3, <1>4, <1>5, <1>6 DEF Next

\* Nobody changes the file while a call is about to.
LEMMA RunningKeepsCopy ==
    ASSUME IInv, Next, ~Postgres, \A c \in Call : ~Take(c),
           NEW d \in Call, call[d].holds = 1, call'[d].phase = "running"
    PROVE  call'[d] = call[d] /\ db' = db
<1> Place(d) /\ Locked(d)
  BY DEF IInv, CallInv
<1>1. ASSUME NEW c \in Call, NEW s \in Server, NEW op \in Op, Begin(c, s, op)
      PROVE  call'[d] = call[d] /\ db' = db
  BY <1>1, BeginMoves DEF Begun
<1>2. ASSUME NEW c \in Call, Run(c)
      PROVE  call'[d] = call[d] /\ db' = db
  <2>1. CASE Statement(c)
    <3>1. call[c].phase = "running" /\ call'[c].phase = "fetched"
      BY <2>1, StatementMoves
    <3>2. call[c].holds = 1
      BY <3>1 DEF IInv, CallInv, Place
    <3>3. c = d
      BY <3>2 DEF Locked
    <3> QED
      BY <3>1, <3>3
  <2>2. CASE UpdateNothing(c) \/ Release(c) \/ Raise(c)
    <3>1. OnlyMoves(c) /\ db' = db /\ call'[c].phase # "running"
      BY <2>2, UpdateNothingMoves, ReleaseMoves, RaiseMoves
    <3> QED
      BY <3>1 DEF OnlyMoves
  <2> QED
    BY <1>2, <2>1, <2>2, RunIs
<1>3. ~Outage
  BY OutageIs
<1>4. CASE OutageOver
  BY <1>4 DEF OutageOver
<1>5. ASSUME NEW s \in Server, IdleConnectionDies(s)
      PROVE  call'[d] = call[d] /\ db' = db
  BY <1>5 DEF IdleConnectionDies
<1>6. ASSUME NEW s \in Server, Crash(s)
      PROVE  call'[d] = call[d] /\ db' = db
  <2>1. db' = db
    BY <1>6 DEF Crash
  <2> QED
    BY <1>6, <2>1, CrashIs
<1> QED
  BY <1>1, <1>2, <1>3, <1>4, <1>5, <1>6 DEF Next

LEMMA LockedStays ==
    ASSUME IInv, Next, NEW d \in Call
    PROVE  Locked(d)'
<1> SUFFICES ASSUME ~Postgres PROVE Locked(d)'
  BY NextMoves DEF Locked, Postgres
<1> \A e \in Call : Locked(e) /\ Place(e) /\ Place(e)' /\ CallStep(e)
  BY NextMoves, PlaceStays DEF IInv, CallInv
<1>1. ASSUME NEW c \in Call, Take(c)
      PROVE  Locked(d)'
  <2>1. \A e \in Call : call[e].holds # 1
    BY <1>1, LockIsFree
  <2>2. \A e \in Call : e # c => call'[e] = call[e]
    BY <1>1, TakeMoves DEF OnlyMoves
  <2>3. db' = db /\ call'[c].read = db
    BY <1>1, TakeMoves
  <2> QED
    BY <2>1, <2>2, <2>3 DEF Locked, Place
\* Otherwise no call gets the lock, and one that keeps it keeps its copy.
<1>2. ASSUME NEW e \in Call, call'[e].holds = 1, ~Take(e), \A c \in Call : ~Take(c)
      PROVE  call[e].holds = 1
  BY <1>2, NoneTakes
<1>3. CASE \A c \in Call : ~Take(c)
  <2>1. \A c \in Call : call'[d].holds = 1 /\ call'[c].holds = 1 => c = d
    BY <1>2, <1>3 DEF Locked
  <2>2. ASSUME call'[d].phase = "running"
        PROVE  call'[d].read = db'
    <3>1. call'[d].holds = 1 /\ call[d].holds = 1
      BY <1>2, <1>3, <2>2 DEF Place
    <3>2. call'[d] = call[d] /\ db' = db
      BY <1>3, <2>2, <3>1, RunningKeepsCopy
    <3> QED
      BY <2>2, <3>2 DEF Locked
  <2> QED
    BY <2>1, <2>2 DEF Locked
<1> QED
  BY <1>1, <1>3

-----------------------------------------------------------------------------
(***************************************************************************)
(* The tables keep their part of the invariant                             *)
(***************************************************************************)

\* A step runs a statement, or leaves the tables alone and lets nobody on
\* who would have to run one.
Quiet(d) == call[d].phase = "running" => call'[d].phase # "fetched"

LEMMA StatementOrQuiet ==
    ASSUME IInv, Next
    PROVE  \/ \E c \in Call : Statement(c)
           \/ db' = db /\ \A d \in Call : Quiet(d)
<1>1. ASSUME NEW c \in Call, NEW s \in Server, NEW op \in Op, Begin(c, s, op)
      PROVE  db' = db /\ \A d \in Call : Quiet(d)
  BY <1>1, BeginMoves DEF Begun, Quiet
<1>2. ASSUME NEW c \in Call, Run(c), ~Statement(c)
      PROVE  db' = db /\ \A d \in Call : Quiet(d)
  <2>1. OnlyMoves(c) /\ db' = db /\ call'[c].phase # "fetched"
    BY <1>2, RunIs, TakeMoves, UpdateNothingMoves, ReleaseMoves, RaiseMoves
  <2> QED
    BY <2>1 DEF OnlyMoves, Quiet
<1>3. CASE Outage
  BY <1>3, OutageIs, EventMoves DEF Quiet, Event
<1>4. CASE OutageOver
  BY <1>4 DEF OutageOver, Quiet
<1>5. ASSUME NEW s \in Server, IdleConnectionDies(s)
      PROVE  db' = db /\ \A d \in Call : Quiet(d)
  BY <1>5 DEF IdleConnectionDies, Quiet
<1>6. ASSUME NEW s \in Server, Crash(s)
      PROVE  db' = db /\ \A d \in Call : Quiet(d)
  <2>1. db' = db
    BY <1>6 DEF Crash
  <2> QED
    BY <1>6, <2>1, CrashIs DEF Quiet
<1> QED
  BY <1>1, <1>2, <1>3, <1>4, <1>5, <1>6 DEF Next

\* What the statements leave of the tables, part by part.
LEMMA LogStepIs ==
    ASSUME IInv, NEW c \in Call, LogStep(c)
    PROVE  /\ db'.actions = db.actions /\ db'.fields = db.fields
           /\ db'.events = Append(db.events, LoggedBy(c))
BY TablesType DEF IInv, Types, LogStep, Fetched, WithEvent

LEMMA AddStepIs ==
    ASSUME IInv, NEW c \in Call, AddStep(c)
    PROVE  /\ db'.events = db.events /\ db'.fields = db.fields
           /\ db'.actions = [db.actions EXCEPT ![c] = [status |-> "pending", by |-> NoCall]]
BY TablesType DEF IInv, Types, AddStep, Fetched, WithAction

LEMMA DecideStepIs ==
    ASSUME IInv, NEW c \in Call, DecideStep(c)
    PROVE  /\ db'.events = db.events /\ db'.fields = db.fields
           /\ db'.actions = [db.actions EXCEPT ![call[c].op.action] = Decided(c)]
           /\ call[c].op.action \in Call /\ call[c].op.vote \in Vote
<1>1. call[c].op \in Op /\ call[c].op.method = "resolve_pending_action"
  BY DEF IInv, CallInv, Place, DecideStep, Runs
<1>2. call[c].op.action \in Call /\ call[c].op.vote \in Vote
  BY <1>1, OpKinds
<1> QED
  BY <1>2, TablesType DEF IInv, Types, DecideStep, Fetched, WithDecision

LEMMA SetStepIs ==
    ASSUME IInv, NEW c \in Call, SetStep(c)
    PROVE  /\ db'.events = db.events /\ db'.actions = db.actions
           /\ db'.fields = Merged(c, db.fields)
BY TablesType DEF IInv, Types, SetStep, Fetched, WithFields

LEMMA ReadStepIs ==
    ASSUME NEW c \in Call, ReadStep(c)
    PROVE  db' = db
BY DEF ReadStep, Fetched

\* Without a statement, a call has done what it had done before.
LEMMA QuietBack ==
    ASSUME IInv, Next, NEW d \in Call, Quiet(d)
    PROVE  /\ Ran(d)' => Ran(d) /\ Keeps(d)
           /\ HasLogged(d)' => HasLogged(d) /\ Keeps(d)
           /\ call'[d].phase \in {"fetched", "returned"} =>
                  call[d].phase \in {"fetched", "returned"} /\ Keeps(d)
<1> Place(d) /\ CallStep(d)
  BY NextMoves DEF IInv, CallInv
<1>1. CASE call'[d] = call[d]
  BY <1>1 DEF Keeps, Ran, HasLogged, Is
<1>2. CASE Begun(d)
  BY <1>2 DEF Begun, Ran, HasLogged
<1>3. CASE Moves(d)
  <2>1. Keeps(d)
    BY <1>3 DEF Moves
  <2>2. /\ Ran(d)' => Ran(d)
        /\ call'[d].phase \in {"fetched", "returned"} => call[d].phase \in {"fetched", "returned"}
    BY <1>3 DEF Moves, Goes, GoesToLog, Quiet, Ran, InFlight
  <2>3. HasLogged(d)' => HasLogged(d)
    BY <1>3 DEF Moves, Goes, GoesToLog, Quiet, HasLogged, InFlight, Keeps, Is
  <2> QED
    BY <2>1, <2>2, <2>3
<1> QED
  BY <1>1, <1>2, <1>3 DEF CallStep

LEMMA StatementCalls ==
    ASSUME IInv, NEW c \in Call, Statement(c)
    PROVE  /\ \A d \in Call : d # c => call'[d] = call[d]
           /\ Keeps(c) /\ call[c].phase = "running" /\ call'[c].phase = "fetched"
           /\ call'[c].at = call[c].at /\ call'[c].stamp = call[c].stamp
BY StatementMoves DEF OnlyMoves, Moves, Goes, GoesToLog, InFlight

LEMMA DoneStays ==
    ASSUME IInv, Next, NEW d \in Call
    PROVE  Done(d)'
<1> Done(d) /\ Place(d) /\ Decides(d) /\ InTime(d) /\ Types
  BY DEF IInv, CallInv
<1>1. CASE db' = db /\ Quiet(d)
  BY <1>1, QuietBack DEF Done, Keeps, Is, Decided
<1>2. ASSUME NEW c \in Call, LogStep(c)
      PROVE  Done(d)'
  <2>1. Statement(c) /\ Logs(c)
    BY <1>2 DEF Statement, LogStep
  <2>2. db'.actions = db.actions /\ db'.fields = db.fields
        /\ db'.events = Append(db.events, LoggedBy(c)) /\ db.events \in Seq(EventRow)
    BY <1>2, LogStepIs, TablesType DEF Types
  <2>3. LoggedBy(c).call = c
    BY LoggedByType, <2>1, StatementCalls DEF IInv, CallInv, Place
  <2>4. /\ \A i \in DOMAIN db.events : i \in DOMAIN db'.events /\ db'.events[i] = db.events[i]
        /\ Len(db.events) + 1 \in DOMAIN db'.events
        /\ db'.events[Len(db.events) + 1] = LoggedBy(c)
    BY <2>2
  <2>5. CASE d # c
    <3>1. call'[d] = call[d]
      BY <2>1, <2>5, StatementCalls
    <3> QED
      BY <2>2, <2>4, <3>1 DEF Done, Is, Ran, HasLogged, Decided
  <2>6. CASE d = c
    <3>1. /\ Keeps(d) /\ call'[d].at = call[d].at
          /\ Is(d, "log_event") \/ call[d].at = "log"
      BY <2>1, <2>6, StatementCalls DEF Logs, Runs, Is
    <3> QED
      BY <2>2, <2>3, <2>4, <2>6, <3>1 DEF Done, Is, Ran, Decided, Keeps, Place, LogsLast
  <2> QED
    BY <2>5, <2>6
<1>3. ASSUME NEW c \in Call, AddStep(c)
      PROVE  Done(d)'
  <2>1. Statement(c) /\ Runs(c, "add_pending_action")
    BY <1>3 DEF Statement, AddStep
  <2>2. /\ db'.events = db.events /\ db'.fields = db.fields
        /\ db'.actions = [db.actions EXCEPT ![c] = [status |-> "pending", by |-> NoCall]]
        /\ db.actions \in [Call -> RecordRow]
    BY <1>3, AddStepIs, TablesType DEF Types
  <2>3. CASE d # c
    <3>1. call'[d] = call[d]
      BY <2>1, <2>3, StatementCalls
    <3>2. Is(d, "resolve_pending_action") => call[d].op.action # c
      BY <2>1 DEF Decides, Runs
    <3> QED
      BY <2>2, <2>3, <3>1, <3>2 DEF Done, Is, Ran, HasLogged, Decided
  <2>4. CASE d = c
    <3>1. /\ Keeps(d) /\ call'[d].at = "main" /\ Is(d, "add_pending_action")
          /\ db'.actions[d].status = "pending"
      BY <2>1, <2>2, <2>4, StatementCalls DEF Runs, Is
    <3> QED
      BY <3>1 DEF Done, Is, HasLogged, Keeps
  <2> QED
    BY <2>3, <2>4
<1>4. ASSUME NEW c \in Call, DecideStep(c)
      PROVE  Done(d)'
  <2>1. /\ Statement(c) /\ Runs(c, "resolve_pending_action")
        /\ db.actions[call[c].op.action].status = "pending"
    BY <1>4 DEF Statement, DecideStep
  <2>2. /\ db'.events = db.events /\ db'.fields = db.fields
        /\ db'.actions = [db.actions EXCEPT ![call[c].op.action] = Decided(c)]
        /\ call[c].op.action \in Call /\ call[c].op.vote \in Vote
        /\ db.actions \in [Call -> RecordRow]
    BY <1>4, DecideStepIs, TablesType DEF Types
  <2>3. Decided(c).status \in Vote
    BY <2>2 DEF Decided
  <2>4. CASE d # c
    <3>1. call'[d] = call[d]
      BY <2>1, <2>4, StatementCalls
    <3>2. Is(d, "add_pending_action") /\ Ran(d) => db'.actions[d].status # "absent"
      BY <2>2, <2>3 DEF Done, Vote
    <3>3. Is(d, "resolve_pending_action") /\ Ran(d) => call[d].op.action # call[c].op.action
      <4>1. ASSUME Is(d, "resolve_pending_action")
            PROVE  call[d].op.vote \in Vote
        BY <4>1, OpKinds, IdleIs DEF Place, Is
      <4> QED
        BY <2>1, <4>1 DEF Done, Decided, Vote
    <3>4. Is(d, "resolve_pending_action") => call[d].op.action \in Call
      BY OpKinds, IdleIs DEF Place, Is
    <3> QED
      BY <2>2, <3>1, <3>2, <3>3, <3>4 DEF Done, Is, Ran, HasLogged, Decided
  <2>5. CASE d = c
    <3>1. /\ Keeps(d) /\ call'[d].at = "main" /\ Is(d, "resolve_pending_action")
          /\ db'.actions[call[d].op.action] = Decided(d)
      BY <2>1, <2>2, <2>5, StatementCalls DEF Runs, Is
    <3> QED
      BY <3>1 DEF Done, Is, HasLogged, Keeps, Decided
  <2> QED
    BY <2>4, <2>5
<1>5. ASSUME NEW c \in Call, SetStep(c)
      PROVE  Done(d)'
  <2>1. Statement(c) /\ Runs(c, "set_status")
    BY <1>5 DEF Statement, SetStep
  <2>2. /\ db'.events = db.events /\ db'.actions = db.actions
        /\ db'.fields = Merged(c, db.fields)
    BY <1>5, SetStepIs
  <2>3. c # NoCall /\ c \notin call[d].preceding
    BY <2>1, StateStoreAssumption DEF InTime, Returned, Runs
  <2>4. CASE d # c
    <3>1. call'[d] = call[d]
      BY <2>1, <2>4, StatementCalls
    <3>2. ASSUME Is(d, "set_status") PROVE call[d].op.named \subseteq Field
      BY <3>2, OpKinds, IdleIs DEF Place, Is
    <3> QED
      BY <2>2, <2>3, <3>1, <3>2 DEF Done, Is, Ran, HasLogged, Decided, Merged
  <2>5. CASE d = c
    <3>1. /\ Keeps(d) /\ call'[d].at = "main" /\ Is(d, "set_status")
      BY <2>1, <2>5, StatementCalls DEF Runs, Is
    <3>2. call[d].op.named \subseteq Field
      BY <3>1, OpKinds, IdleIs DEF Place, Is
    <3> QED
      BY <2>2, <2>3, <2>5, <3>1, <3>2 DEF Done, Is, HasLogged, Keeps, Merged
  <2> QED
    BY <2>4, <2>5
<1>6. ASSUME NEW c \in Call, ReadStep(c)
      PROVE  Done(d)'
  <2>1. Statement(c) /\ Runs(c, "read") /\ db' = db
    BY <1>6, ReadStepIs DEF Statement, ReadStep
  <2>2. CASE d # c
    <3>1. call'[d] = call[d]
      BY <2>1, <2>2, StatementCalls
    <3> QED
      BY <2>1, <3>1 DEF Done, Is, Ran, HasLogged, Decided
  <2>3. CASE d = c
    <3>1. /\ Keeps(d) /\ call'[d].at = "main" /\ Is(d, "read")
      BY <2>1, <2>3, StatementCalls DEF Runs, Is
    <3> QED
      BY <3>1 DEF Done, Is, HasLogged, Keeps
  <2> QED
    BY <2>2, <2>3
<1> QED
  BY <1>1, <1>2, <1>3, <1>4, <1>5, <1>6, StatementOrQuiet DEF Statement

\* A call stays what it is.
LEMMA IsStays ==
    ASSUME IInv, Next, NEW d \in Call, NEW method, method # "none", Is(d, method)
    PROVE  Is(d, method)' /\ Keeps(d) /\ call[d].phase # "idle"
BY EveryCallGoesOn, IdleIs DEF GoesOn, Keeps, Is

LEMMA RecordedStays ==
    ASSUME IInv, Next, NEW a \in Call
    PROVE  Recorded(a)'
<1> DEFINE r == db.actions[a]
           q == db'.actions[a]
<1> Recorded(a) /\ Types /\ \A d \in Call : GoesOn(d)
  BY EveryCallGoesOn DEF IInv, CallInv
<1>1. r.status # "absent" => Is(a, "add_pending_action")' /\ MayHaveRun(a)'
  BY IsStays DEF Recorded, GoesOn
<1>2. ASSUME r.status \in Vote
      PROVE  /\ r.by \in Call
             /\ call'[r.by].op.method = "resolve_pending_action" /\ call'[r.by].op.action = a
             /\ call'[r.by].at = "log"
                    \/ call'[r.by].phase \in {"fetched", "returned", "raised", "timedOut", "dead"}
  <2> DEFINE b == r.by
  <2>1. b \in Call /\ Is(b, "resolve_pending_action") /\ MayHaveRun(b) /\ call[b].op.action = a
    BY <1>2 DEF Recorded
  <2> HIDE DEF b
  <2>2. Keeps(b) /\ MayHaveRun(b) => call'[b].at = "log"
                    \/ call'[b].phase \in {"fetched", "returned", "raised", "timedOut", "dead"}
    BY <2>1, IsStays DEF GoesOn, MayHaveRun, Ran
  <2>3. Keeps(b)
    BY <2>1, IsStays
  <2>4. call'[b].op.method = "resolve_pending_action" /\ call'[b].op.action = a
    BY <2>1, <2>3 DEF Keeps, Is
  <2> QED
    BY <2>1, <2>2, <2>3, <2>4 DEF b
<1>3. CASE q = r
  BY <1>1, <1>2, <1>3 DEF Recorded, MayHaveRun, Ran, Is
<1>4. ASSUME NEW c \in Call, AddStep(c), q # r
      PROVE  Recorded(a)'
  <2>1. /\ Statement(c) /\ Runs(c, "add_pending_action")
        /\ db'.actions = [db.actions EXCEPT ![c] = [status |-> "pending", by |-> NoCall]]
        /\ db.actions \in [Call -> RecordRow]
    BY <1>4, AddStepIs, TablesType DEF Types, AddStep, Statement
  <2>2. a = c /\ q.status = "pending" /\ q.by = NoCall
    BY <1>4, <2>1
  <2>3. Keeps(a) /\ call'[a].phase = "fetched" /\ Is(a, "add_pending_action")
    BY <2>1, <2>2, StatementCalls DEF Runs, Is
  <2> QED
    BY <2>2, <2>3 DEF Recorded, MayHaveRun, Ran, Is, Keeps, Vote
<1>5. ASSUME NEW c \in Call, DecideStep(c), q # r
      PROVE  Recorded(a)'
  <2>1. /\ Statement(c) /\ Runs(c, "resolve_pending_action")
        /\ db.actions[call[c].op.action].status = "pending"
        /\ db'.actions = [db.actions EXCEPT ![call[c].op.action] = Decided(c)]
        /\ call[c].op.vote \in Vote
        /\ db.actions \in [Call -> RecordRow]
    BY <1>5, DecideStepIs, TablesType DEF Types, DecideStep, Statement
  <2>2. a = call[c].op.action /\ q = Decided(c) /\ r.status = "pending"
    BY <1>5, <2>1
  <2>3. q.status \in Vote /\ q.by = c
    BY <2>1, <2>2 DEF Decided
  <2>4. Keeps(c) /\ call'[c].phase = "fetched" /\ Is(c, "resolve_pending_action")
    BY <2>1, StatementCalls DEF Runs, Is
  <2> QED
    BY <1>1, <2>2, <2>3, <2>4 DEF Recorded, MayHaveRun, Ran, Is, Keeps
<1>6. q # r => \E c \in Call : AddStep(c) \/ DecideStep(c)
  BY StatementOrQuiet, LogStepIs, SetStepIs, ReadStepIs DEF Statement
<1> QED
  BY <1>3, <1>4, <1>5, <1>6

\* The stamp and the type of an event.
LEMMA LoggedStamp ==
    ASSUME NEW c \in Call
    PROVE  LoggedBy(c).stamp = call[c].stamp
<1>1. \A type, a : EventOf(c, type, a).stamp = call[c].stamp
  BY DEF EventOf
<1>2. CASE call[c].op.method = "add_pending_action"
  BY <1>1, <1>2 DEF LoggedBy
<1>3. CASE call[c].op.method = "resolve_pending_action"
  BY <1>1, <1>3 DEF LoggedBy
<1>4. CASE call[c].op.method \notin {"add_pending_action", "resolve_pending_action"}
  BY <1>1, <1>4 DEF LoggedBy
<1> QED
  BY <1>2, <1>3, <1>4

LEMMA LoggedDecision ==
    ASSUME NEW c \in Call, LoggedBy(c).type \in Vote
    PROVE  /\ call[c].op.method = "resolve_pending_action"
           /\ LoggedBy(c).type = call[c].op.vote
           /\ LoggedBy(c).action = call[c].op.action
<1>1. \A type, a : EventOf(c, type, a).type = type /\ EventOf(c, type, a).action = a
  BY DEF EventOf
<1>2. CASE call[c].op.method = "add_pending_action"
  BY <1>1, <1>2 DEF LoggedBy, Vote
<1>3. CASE call[c].op.method = "resolve_pending_action"
  BY <1>1, <1>3 DEF LoggedBy
<1>4. CASE call[c].op.method \notin {"add_pending_action", "resolve_pending_action"}
  BY <1>1, <1>4 DEF LoggedBy, Vote
<1> QED
  BY <1>2, <1>3, <1>4

\* An event that was logged stays the one its call logged.
LEMMA EventStays ==
    ASSUME IInv, Next, NEW c \in Call, MayHaveLogged(c)
    PROVE  MayHaveLogged(c)' /\ LoggedBy(c)' = LoggedBy(c) /\ Keeps(c)
<1>1. GoesOn(c) /\ call[c].phase # "idle"
  BY EveryCallGoesOn DEF MayHaveLogged
<1>2. Keeps(c) /\ call'[c].stamp = call[c].stamp /\ MayHaveLogged(c)'
  BY <1>1 DEF GoesOn
<1>3. \A type, a : EventOf(c, type, a)' = EventOf(c, type, a)
  BY <1>2 DEF EventOf
<1>4. call'[c].op = call[c].op
  BY <1>2 DEF Keeps
<1>5. CASE call[c].op.method = "add_pending_action"
  BY <1>2, <1>4, <1>5 DEF LoggedBy, EventOf
<1>6. CASE call[c].op.method = "resolve_pending_action"
  BY <1>2, <1>4, <1>6 DEF LoggedBy, EventOf
<1>7. CASE call[c].op.method \notin {"add_pending_action", "resolve_pending_action"}
  BY <1>2, <1>4, <1>7 DEF LoggedBy, EventOf
<1> QED
  BY <1>2, <1>5, <1>6, <1>7

\* An event comes from a call that is on its way or was.
LEMMA EventCall ==
    ASSUME IInv, NEW i \in DOMAIN db.events
    PROVE  /\ db.events[i] \in EventRow /\ db.events[i].call \in Call
           /\ MayHaveLogged(db.events[i].call)
<1>1. db.events \in Seq(EventRow)
  BY TablesType DEF IInv, Types
<1>2. db.events[i] \in EventRow
  BY <1>1
<1>3. db.events[i].call \in Call
  BY <1>2 DEF EventRow
<1> QED
  BY <1>2, <1>3 DEF IInv, Listed

LEMMA ListedStays ==
    ASSUME IInv, Next
    PROVE  Listed'
<1> Types /\ db.events \in Seq(EventRow) /\ \A d \in Call : InTime(d)
  BY TablesType DEF IInv, Types, CallInv
\* The events there were.
<1>1. ASSUME NEW i \in DOMAIN db.events, NEW c \in Call, db.events[i].call = c
      PROVE  /\ MayHaveLogged(c)' /\ db.events[i] = LoggedBy(c)'
             /\ call'[c].preceding = call[c].preceding
             /\ \A j \in DOMAIN db.events, d \in Call :
                    db.events[j].call = d /\ c \in call[d].preceding => i < j
  <2>1. MayHaveLogged(c) /\ db.events[i] = LoggedBy(c)
    BY <1>1 DEF IInv, Listed
  <2>2. MayHaveLogged(c)' /\ LoggedBy(c)' = LoggedBy(c) /\ Keeps(c)
    BY <2>1, EventStays
  <2> QED
    BY <1>1, <2>1, <2>2 DEF IInv, Listed, Keeps
<1>2. CASE db'.events = db.events
  BY <1>1, <1>2 DEF Listed
<1>3. ASSUME NEW b \in Call, LogStep(b)
      PROVE  Listed'
  <2> DEFINE n == Len(db.events) + 1
  <2>1. Statement(b) /\ Logs(b) /\ db'.events = Append(db.events, LoggedBy(b))
    BY <1>3, LogStepIs DEF LogStep, Statement
  <2>2. LoggedBy(b).call = b /\ call[b].op \in Op
    BY LoggedByType, <2>1, StatementCalls DEF IInv, CallInv, Place
  <2>3. /\ DOMAIN db.events = 1..(n - 1) /\ DOMAIN db'.events = 1..n /\ n \in Nat
        /\ db'.events[n] = LoggedBy(b)
        /\ \A i \in 1..(n - 1) : db'.events[i] = db.events[i]
    BY <2>1
  <2>4. MayHaveLogged(b)' /\ LoggedBy(b)' = LoggedBy(b) /\ call'[b].preceding = call[b].preceding
    <3>1. Keeps(b) /\ call[b].phase = "running" /\ call'[b].phase = "fetched"
          /\ call'[b].at = call[b].at /\ call'[b].stamp = call[b].stamp
      BY <2>1, StatementCalls
    <3>2. MayHaveLogged(b)'
      BY <2>1, <3>1 DEF Logs, Runs, MayHaveLogged, Keeps, Is
    <3>3. call'[b].op = call[b].op /\ call'[b].stamp = call[b].stamp
      BY <3>1 DEF Keeps
    <3>4. LoggedBy(b)' = LoggedBy(b)
      <4>1. CASE call[b].op.method = "add_pending_action"
        BY <3>3, <4>1 DEF LoggedBy, EventOf
      <4>2. CASE call[b].op.method = "resolve_pending_action"
        BY <3>3, <4>2 DEF LoggedBy, EventOf
      <4>3. CASE call[b].op.method \notin {"add_pending_action", "resolve_pending_action"}
        BY <3>3, <4>3 DEF LoggedBy, EventOf
      <4> QED
        BY <4>1, <4>2, <4>3
    <3> QED
      BY <3>1, <3>2, <3>4 DEF Keeps
  \* The call that logs precedes none that has logged: it has not returned.
  <2>5. \A d \in Call : b \notin call[d].preceding
    BY <2>1, StatementCalls DEF InTime, Returned
  <2> HIDE DEF n
  <2>6. ASSUME NEW i \in 1..n, NEW c \in Call, db'.events[i].call = c
        PROVE  /\ MayHaveLogged(c)' /\ db'.events[i] = LoggedBy(c)'
               /\ call'[c].preceding = call[c].preceding
               /\ \A j \in 1..n, d \in Call :
                      db'.events[j].call = d /\ c \in call[d].preceding => i < j
    <3>1. CASE i = n
      BY <2>2, <2>3, <2>4, <2>5, <2>6, <3>1
    <3>2. CASE i # n
      <4>1. i \in 1..(n - 1) /\ db.events[i].call = c /\ db'.events[i] = db.events[i]
        BY <2>3, <2>6, <3>2
      <4>2. ASSUME NEW j \in 1..n, NEW d \in Call,
                   db'.events[j].call = d, c \in call[d].preceding
            PROVE  i < j
        <5>1. CASE j = n
          BY <2>3, <4>1, <5>1
        <5>2. CASE j # n
          <6>1. j \in 1..(n - 1) /\ db.events[j].call = d
            BY <2>3, <4>2, <5>2
          <6> QED
            BY <1>1, <2>3, <4>1, <4>2, <6>1
        <5> QED
          BY <5>1, <5>2
      <4> QED
        BY <1>1, <2>3, <4>1, <4>2
    <3> QED
      BY <3>1, <3>2
  <2>7. ASSUME NEW j \in 1..n, NEW d \in Call, db'.events[j].call = d
        PROVE  call'[d].preceding = call[d].preceding
    BY <2>6, <2>7
  <2> QED
    BY <2>3, <2>6, <2>7 DEF Listed
<1>4. db'.events = db.events \/ \E b \in Call : LogStep(b)
  BY StatementOrQuiet, AddStepIs, DecideStepIs, SetStepIs, ReadStepIs DEF Statement
<1> QED
  BY <1>2, <1>3, <1>4

-----------------------------------------------------------------------------
LEMMA InitIInv == Init => IInv
<1> SUFFICES ASSUME Init PROVE IInv
  OBVIOUS
<1>1. NoCallYet \in CallRecord
  BY EmptyType DEF NoCallYet, CallRecord
<1>2. Types
  BY <1>1, EmptyType DEF Init, Types
<1>3. ASSUME NEW c \in Call
      PROVE  CallInv(c)
  <2>1. /\ call[c] = NoCallYet /\ call[c].phase = "idle" /\ call[c].op = NoOp
        /\ call[c].at = "main" /\ call[c].holds = 0 /\ call[c].alive
        /\ call[c].preceding = {}
    BY DEF Init, NoCallYet
  <2>2. \A method : Is(c, method) => method = "none"
    BY <2>1 DEF Is, NoOp
  <2>3. Place(c)
    BY <2>1, <2>2 DEF Place, LogsLast
  <2>4. TroubleKnown(c)
    BY <2>1 DEF TroubleKnown, InFlight
  <2>5. Decides(c)
    BY <2>2 DEF Decides
  <2>6. InTime(c)
    BY <2>1 DEF InTime
  <2>7. Locked(c)
    BY <2>1 DEF Locked
  <2>8. Done(c)
    BY <2>1, <2>2 DEF Done, HasLogged
  <2>9. Recorded(c)
    BY DEF Init, Empty, NoRecord, Recorded, Vote
  <2> QED
    BY <2>3, <2>4, <2>5, <2>6, <2>7, <2>8, <2>9 DEF CallInv
<1>4. Listed
  BY DEF Init, Empty, Listed
<1> QED
  BY <1>2, <1>3, <1>4 DEF IInv

LEMMA SameStateKeepsIInv ==
    ASSUME IInv, UNCHANGED vars
    PROVE  IInv'
<1> /\ config' = config /\ call' = call /\ db' = db /\ clock' = clock
    /\ reachable' = reachable /\ stale' = stale
  BY DEF vars
<1>1. Types'
  BY DEF IInv, Types
<1>2. ASSUME NEW c \in Call
      PROVE  CallInv(c)'
  <2> CallInv(c)
    BY DEF IInv
  <2>1. Place(c)' /\ TroubleKnown(c)' /\ Decides(c)'
    BY DEF CallInv, Place, TroubleKnown, Decides, Is, LogsLast, InFlight
  <2>2. InTime(c)' /\ Locked(c)'
    BY DEF CallInv, InTime, Locked, Returned, ClocksAgree, Postgres
  <2>3. Done(c)'
    BY DEF CallInv, Done, Is, Ran, HasLogged, Decided
  <2>4. Recorded(c)'
    BY DEF CallInv, Recorded, Is, Ran, MayHaveRun
  <2> QED
    BY <2>1, <2>2, <2>3, <2>4 DEF CallInv
<1>3. ASSUME NEW c \in Call
      PROVE  LoggedBy(c)' = LoggedBy(c)
  BY DEF LoggedBy, EventOf
<1>4. Listed'
  BY <1>3 DEF IInv, Listed, MayHaveLogged, Is
<1> QED
  BY <1>1, <1>2, <1>4 DEF IInv

LEMMA NextKeepsIInv == IInv /\ [Next]_vars => IInv'
<1> SUFFICES ASSUME IInv, [Next]_vars PROVE IInv'
  OBVIOUS
<1>1. CASE Next
  <2>1. ASSUME NEW c \in Call PROVE CallInv(c)'
    BY <1>1, PlaceStays, TroubleStays, DecidesStays, InTimeStays, LockedStays, DoneStays,
       RecordedStays DEF CallInv
  <2> QED
    BY <1>1, <2>1, NextMoves, ListedStays DEF IInv
<1>2. CASE UNCHANGED vars
  BY <1>2, SameStateKeepsIInv
<1> QED
  BY <1>1, <1>2

\* The inductive invariant of StateStore holds of any calls, servers, fields
\* and configurations.
THEOREM InvariantHolds == Spec => []IInv
BY InitIInv, NextKeepsIInv, PTL DEF Spec

-----------------------------------------------------------------------------
(***************************************************************************)
(* The properties                                                          *)
(***************************************************************************)

\* Every variable holds what the code can put there; a call holds one session
\* at most, a pool's connection or the file's lock.
THEOREM TypeCorrect == Spec => []TypeOK
<1>1. ASSUME IInv, NEW c \in Call
      PROVE  CallOK(call[c])
  <2>1. call[c] \in CallRecord
    BY <1>1 DEF IInv, Types
  <2>2. call[c].server \in config.servers \cup {NoCall}
    BY <1>1 DEF IInv, CallInv, Place, NoCallYet
  <2> QED
    BY <2>1, <2>2 DEF CallOK, CallRecord
<1>2. IInv => TypeOK
  BY <1>1 DEF IInv, Types, TypeOK
<1> QED
  BY <1>2, InvariantHolds, PTL

\* list_events shows an event before those logged by methods that were called
\* after its own had returned, on one process or on any with equal clocks.
THEOREM HistoryHolds == Spec => []HistoryInOrder
<1>1. ASSUME IInv,
             NEW i \in DOMAIN db.events, NEW j \in DOMAIN db.events,
             NEW c, NEW d, c = db.events[i].call, d = db.events[j].call,
             c \in call[d].preceding, ClocksAgree \/ call[c].server = call[d].server
      PROVE  ListedBefore(i, j)
  <2>1. c \in Call /\ d \in Call
    BY <1>1, EventCall
  <2>2. CASE Postgres
    <3>1. call[c].stamp < call[d].stamp
      BY <1>1, <2>1 DEF IInv, CallInv, InTime
    <3>2. db.events[i] = LoggedBy(c) /\ db.events[j] = LoggedBy(d)
      BY <1>1, <2>1 DEF IInv, Listed
    <3>3. db.events[i].stamp = call[c].stamp /\ db.events[j].stamp = call[d].stamp
      BY <2>1, <3>2, LoggedStamp
    <3> QED
      BY <2>2, <3>1, <3>3 DEF ListedBefore
  <2>3. CASE ~Postgres
    BY <1>1, <2>1, <2>3 DEF IInv, Listed, ListedBefore
  <2> QED
    BY <2>2, <2>3
<1>2. IInv => HistoryInOrder
  BY <1>1 DEF HistoryInOrder
<1> QED
  BY <1>2, InvariantHolds, PTL

\* What a method did when it returned is never undone by another call.
THEOREM ReturnsHold == Spec => []NothingReturnedIsLost
<1>1. ASSUME IInv, NEW c \in Call, call[c].phase = "returned"
      PROVE  CASE call[c].op.method = "set_status" ->
                      \A f \in call[c].op.named :
                          db.fields[f] # NoCall /\ db.fields[f] \notin call[c].preceding
               [] call[c].op.method = "read" -> TRUE
               [] OTHER -> \E e \in Events : e.call = c
  <2> Place(c) /\ Done(c)
    BY <1>1 DEF IInv, CallInv
  <2>1. CASE call[c].op.method = "set_status"
    BY <1>1, <2>1 DEF Done, Is
  <2>2. CASE call[c].op.method = "read"
    BY <2>2
  <2>3. CASE call[c].op.method \notin {"set_status", "read"}
    <3>1. call[c].op.method \in
              {"log_event", "add_pending_action", "resolve_pending_action"}
      BY <1>1, <2>3, OpKinds DEF Place
    <3>2. HasLogged(c)
      BY <1>1, <3>1 DEF HasLogged, Place, LogsLast, Is
    <3>3. \E e \in Events : e.call = c
      BY <3>2 DEF Done, Events
    <3> QED
      BY <2>3, <3>3
  <2> QED
    BY <2>1, <2>2, <2>3
<1>2. IInv => NothingReturnedIsLost
  BY <1>1 DEF NothingReturnedIsLost
<1> QED
  BY <1>2, InvariantHolds, PTL

\* A decision in the audit log is the one on the record, by the same caller.
THEOREM DeciderHolds == Spec => []DeciderIsOnRecord
<1>1. ASSUME IInv, NEW e \in Events, e.type \in Vote
      PROVE  /\ db.actions[e.action] = [status |-> e.type, by |-> e.call]
             /\ call[e.call].phase # "nothing"
  <2>1. PICK i \in DOMAIN db.events : e = db.events[i]
    BY <1>1 DEF Events
  <2>2. PICK c \in Call : e.call = c
    BY <1>1, <2>1, EventCall
  <2>3. e = LoggedBy(c) /\ MayHaveLogged(c)
    BY <1>1, <2>1, <2>2 DEF IInv, Listed
  <2>4. /\ call[c].op.method = "resolve_pending_action"
        /\ e.type = call[c].op.vote /\ e.action = call[c].op.action
    BY <1>1, <2>3, LoggedDecision
  <2>5. call[c].at = "log" /\ call[c].phase # "nothing"
    BY <2>3, <2>4 DEF MayHaveLogged, Is
  <2>6. db.actions[call[c].op.action] = Decided(c)
    BY <1>1, <2>4, <2>5 DEF IInv, CallInv, Done, Ran, Is
  <2> QED
    BY <2>2, <2>4, <2>5, <2>6 DEF Decided
<1>2. IInv => DeciderIsOnRecord
  BY <1>1 DEF DeciderIsOnRecord
<1> QED
  BY <1>2, InvariantHolds, PTL

\* No method raises because of a connection that died while it was idle.
THEOREM RaisesHold == Spec => []RaisesOnlyInOutage
<1>1. IInv => RaisesOnlyInOutage
  BY DEF IInv, CallInv, TroubleKnown, RaisesOnlyInOutage
<1> QED
  BY <1>1, InvariantHolds, PTL

-----------------------------------------------------------------------------
(***************************************************************************)
(* The contract of both stores                                             *)
(***************************************************************************)

Row(e) == [call |-> e.call, type |-> e.type, action |-> e.action]
Rows == {Row(e) : e \in Events}

\* Appending an event adds its row.
LEMMA RowsGrow ==
    ASSUME IInv, NEW c \in Call, LogStep(c)
    PROVE  Rows' = Rows \cup {Row(LoggedBy(c))}
<1> DEFINE n == Len(db.events) + 1
<1>1. db.events \in Seq(EventRow) /\ db'.events = Append(db.events, LoggedBy(c))
  BY TablesType, LogStepIs DEF IInv, Types
<1>2. /\ DOMAIN db.events = 1..(n - 1) /\ DOMAIN db'.events = 1..n /\ n \in Nat /\ n > 0
      /\ db'.events[n] = LoggedBy(c)
      /\ \A i \in 1..(n - 1) : db'.events[i] = db.events[i]
  BY <1>1
<1> HIDE DEF n
<1>3. \A i \in 1..n : i = n \/ i \in 1..(n - 1)
  BY <1>2
<1>4. n \in 1..n /\ \A i \in 1..(n - 1) : i \in 1..n
  BY <1>2
<1>5. Events' = Events \cup {LoggedBy(c)}
  BY <1>2, <1>3, <1>4, Zenon DEF Events
<1> HIDE DEF Row
<1> QED
  BY <1>5, Zenon DEF Rows

LEMMA RowsStay ==
    ASSUME db'.events = db.events
    PROVE  Rows' = Rows
BY DEF Rows, Events

\* A call that is about to log has no row yet.
LEMMA NoRowYet ==
    ASSUME IInv, NEW c \in Call, call[c].phase = "running", NEW r \in Rows
    PROVE  r.call # c
<1>1. PICK i \in DOMAIN db.events : r.call = db.events[i].call
  BY DEF Rows, Row, Events
<1> QED
  BY <1>1, EventCall DEF MayHaveLogged

LEMMA StatementIsContractStep ==
    ASSUME IInv, NEW c \in Call, Statement(c)
    PROVE  Contract!Next \/ UNCHANGED <<db.actions, Rows, db.fields>>
<1> Types /\ db.actions \in [Call -> RecordRow] /\ Place(c) /\ Done(c) /\ Recorded(c)
  BY TablesType DEF IInv, Types, CallInv
<1>1. CASE LogStep(c)
  <2>1. db'.actions = db.actions /\ db'.fields = db.fields
    BY <1>1, LogStepIs
  <2>2. /\ Rows' = Rows \cup {Row(LoggedBy(c))}
        /\ \A r \in Rows : r.call # c
    BY <1>1, RowsGrow, NoRowYet DEF LogStep, Logs, Runs
  <2>3. Logs(c)
    BY <1>1 DEF LogStep
  <2>4. CASE Is(c, "add_pending_action")
    <3>1. LoggedBy(c) = EventOf(c, "proposed", c)
      BY <2>4 DEF LoggedBy, Is
    <3>2. Row(LoggedBy(c)) = [call |-> c, type |-> "proposed", action |-> c]
      BY <3>1 DEF Row, EventOf
    <3>3. db.actions[c].status # "absent"
      BY <2>3, <2>4 DEF Done, Ran, Logs, Runs, Is
    <3>4. Contract!RecordProposal(c)
      BY <2>1, <2>2, <3>2, <3>3 DEF Contract!RecordProposal, Contract!Record, Contract!Absent,
         Rows, Row
    <3> QED
      BY <3>4 DEF Contract!Next
  <2>5. CASE Is(c, "resolve_pending_action")
    <3>1. PICK a \in Call : a = call[c].op.action /\ call[c].op.vote \in Vote
      BY <2>5, OpKinds, IdleIs DEF Place, Is
    <3>2. LoggedBy(c) = EventOf(c, call[c].op.vote, a)
      BY <2>5, <3>1 DEF LoggedBy, Is
    <3>3. Row(LoggedBy(c)) = [call |-> c, type |-> call[c].op.vote, action |-> a]
      BY <3>2 DEF Row, EventOf
    <3>4. db.actions[a] = Decided(c)
      BY <2>3, <2>5, <3>1 DEF Done, Ran, Logs, Runs, Is
    <3>5. Contract!RecordDecision(a)
      BY <2>1, <2>2, <3>1, <3>3, <3>4 DEF Contract!RecordDecision, Contract!Record,
         Decided, Vote, Rows, Row
    <3> QED
      BY <3>5 DEF Contract!Next
  <2>6. CASE ~Is(c, "add_pending_action") /\ ~Is(c, "resolve_pending_action")
    <3>1. LoggedBy(c) = EventOf(c, "other", NoCall)
      BY <2>6 DEF LoggedBy, Is
    <3>2. Row(LoggedBy(c)) = [call |-> c, type |-> "other", action |-> NoCall]
      BY <3>1 DEF Row, EventOf
    <3>3. Contract!RecordOther(c)
      BY <2>1, <2>2, <3>2 DEF Contract!RecordOther, Contract!Record, Rows, Row
    <3> QED
      BY <3>3 DEF Contract!Next
  <2> QED
    BY <2>4, <2>5, <2>6
<1>2. CASE AddStep(c)
  <2>1. /\ db'.actions = [db.actions EXCEPT ![c] = [status |-> "pending", by |-> NoCall]]
        /\ db'.fields = db.fields /\ Rows' = Rows
    BY <1>2, AddStepIs, RowsStay
  <2>2. db.actions[c].status = "absent"
    BY <1>2 DEF AddStep, Runs, Recorded, MayHaveRun, Ran
  <2>3. db.actions[c] = Contract!Absent
    BY <2>2 DEF Recorded, Vote, RecordRow, Contract!Absent
  <2>4. [db.actions EXCEPT ![c] = [status |-> "pending", by |-> NoCall]]
            = [db.actions EXCEPT ![c].status = "pending"]
    BY <2>3 DEF Contract!Absent
  <2>5. Contract!Add(c)
    BY <2>1, <2>3, <2>4 DEF Contract!Add, Rows, Row
  <2> QED
    BY <2>5 DEF Contract!Next
<1>3. CASE DecideStep(c)
  <2> DEFINE a == call[c].op.action
  <2>1. /\ db'.actions = [db.actions EXCEPT ![a] = Decided(c)]
        /\ db'.fields = db.fields /\ Rows' = Rows
        /\ a \in Call /\ call[c].op.vote \in Vote
    BY <1>3, DecideStepIs, RowsStay
  <2>2. db.actions[a].status = "pending"
    BY <1>3 DEF DecideStep
  <2>3. Contract!Decide(a, call[c].op.vote, c)
    BY <2>1, <2>2 DEF Contract!Decide, Decided, Rows, Row
  <2> QED
    BY <2>1, <2>3 DEF Contract!Next, Vote
<1>4. CASE SetStep(c)
  <2>1. /\ db'.actions = db.actions /\ Rows' = Rows /\ db'.fields = Merged(c, db.fields)
    BY <1>4, SetStepIs, RowsStay
  <2>2. call[c].op.named \in SUBSET Field
    BY <1>4, OpKinds DEF Place, SetStep, Runs
  <2>3. Contract!SetFields(c, call[c].op.named)
    BY <2>1 DEF Contract!SetFields, Merged, Rows, Row
  <2> QED
    BY <2>2, <2>3 DEF Contract!Next
<1>5. CASE ReadStep(c)
  BY <1>5, ReadStepIs, RowsStay
<1> QED
  BY <1>1, <1>2, <1>3, <1>4, <1>5 DEF Statement

\* Both stores implement StoreContract: each method acts on the tables at one
\* moment, whatever other methods, outages and crashes come between its
\* statements.
THEOREM ContractHolds == Spec => ContractSpec
<1>1. Init => Contract!Init
  <2>1. Init => Rows = {}
    BY DEF Init, Empty, Rows, Events
  <2> QED
    BY <2>1 DEF Init, Empty, NoRecord, Contract!Init, Contract!Absent, Rows, Row
<1>2. IInv /\ [Next]_vars => [Contract!Next]_(Contract!vars)
  <2> SUFFICES ASSUME IInv, [Next]_vars
               PROVE  Contract!Next \/ UNCHANGED <<db.actions, Rows, db.fields>>
    BY DEF Contract!vars, Rows, Row
  <2>1. CASE Next
    <3>1. CASE db' = db
      BY <3>1, RowsStay
    <3> QED
      BY <2>1, <3>1, StatementOrQuiet, StatementIsContractStep
  <2>2. CASE UNCHANGED vars
    BY <2>2, RowsStay DEF vars
  <2> QED
    BY <2>1, <2>2
<1> QED
  BY <1>1, <1>2, InvariantHolds, PTL DEF Spec, ContractSpec, Contract!Spec
=============================================================================
