----------------------------- MODULE StateStore ------------------------------
(***************************************************************************)
(* The state store: PostgresStateStore, shared by the threads of one or    *)
(* more API processes, and the file-backed StateStore of one process.      *)
(*                                                                         *)
(* A call is one call of a method of StateStoreProtocol, made by a thread  *)
(* of a server.  A method runs one statement, and add_pending_action and   *)
(* resolve_pending_action run a second one through log_event.  Around      *)
(* each statement a call holds one session: a connection of its server's   *)
(* pool, or the file store's lock.  The model follows the rows of a single *)
(* process id; the uuid of an action is the call that added it.            *)
(***************************************************************************)
EXTENDS Naturals, Sequences, FiniteSets

CONSTANTS
    Call,           \* the calls that may be made
    NoCall,         \* stands for an absent call or action
    Server,         \* the API processes
    Field,          \* the fields set_status may set
    Configurations  \* see Configuration

\* The store in use, the servers, the sessions of each, how far each one's
\* clock is ahead, the methods called, whether callers may decide an action
\* again that was decided before, and what fails: an "outage" of the
\* database, "idle" connections, a "crash" of a server.
Configuration ==
    [store : {"postgres", "file"}, servers : SUBSET Server, sessions : Nat,
     ahead : [Server -> Nat], methods : SUBSET STRING, redecided : BOOLEAN,
     faults : SUBSET {"outage", "idle", "crash"}]

ASSUME StateStoreAssumption ==
    /\ NoCall \notin Call
    /\ Configurations \subseteq Configuration
    /\ \A k \in Configurations :
           /\ k.sessions > 0
           /\ k.store = "file" => k.sessions = 1 /\ \E s \in Server : k.servers = {s}

VARIABLES
    config,         \* the configuration
    call,           \* what each call is doing
    db,             \* the tables of the database, or the JSON file
    clock,          \* how many time stamps were taken
    reachable,      \* the database answers
    stale           \* an idle connection in a server's pool is dead

vars == <<config, call, db, clock, reachable, stale>>

-----------------------------------------------------------------------------
Vote == {"approved", "rejected"}
NoOp == [method |-> "none"]

Op ==
    {[method |-> "log_event"], [method |-> "add_pending_action"], [method |-> "read"]}
        \cup [method : {"resolve_pending_action"}, action : Call, vote : Vote]
        \cup [method : {"set_status"}, named : (SUBSET Field) \ {{}}]

NoRecord == [status |-> "absent", by |-> NoCall]

Tables ==
    [actions : [Call -> [status : {"absent", "pending"} \cup Vote, by : Call \cup {NoCall}]],
     events  : Seq([type : {"proposed", "other"} \cup Vote, call : Call,
                    action : Call \cup {NoCall}, stamp : Nat]),
     fields  : [Field -> Call \cup {NoCall}]]

Empty ==
    [actions |-> [a \in Call |-> NoRecord], events |-> <<>>,
     fields |-> [f \in Field |-> NoCall]]

\* preceding: the calls that had returned when this one began; troubled: the
\* database was out of reach meanwhile.
NoCallYet ==
    [phase |-> "idle", op |-> NoOp, server |-> NoCall, at |-> "main", stamp |-> 0,
     holds |-> 0, alive |-> TRUE, read |-> Empty, preceding |-> {}, troubled |-> FALSE]

Postgres == config.store = "postgres"
InFlight(c) == call[c].phase \in {"waiting", "running", "fetched"}
Returned(c) == call[c].phase \in {"returned", "nothing"}
Runs(c, method) == call[c].phase = "running" /\ call[c].at = "main" /\ call[c].op.method = method
Holders(s) == {c \in Call : call[c].server = s /\ call[c].holds > 0}

Init ==
    /\ config \in Configurations
    /\ call = [c \in Call |-> NoCallYet]
    /\ db = Empty
    /\ clock = 0
    /\ reachable = TRUE
    /\ stale = [s \in Server |-> FALSE]

Update(c, k) == call' = [call EXCEPT ![c] = k]

\* Variant: the time stamp is a default argument, evaluated once.
NowOnce(s) == config.ahead[s]

\* _now(): each process reads its own clock.
Now(s) == clock + 1 + config.ahead[s]

-----------------------------------------------------------------------------
(***************************************************************************)
(* A call of a method                                                      *)
(***************************************************************************)

\* The ids callers decide are those add_pending_action returned to them.
Allowed(op) ==
    /\ op.method \in config.methods
    /\ op.method = "resolve_pending_action" =>
           /\ call[op.action].op.method = "add_pending_action"
           /\ call[op.action].phase = "returned"
           /\ config.redecided \/ \A d \in Call :
                  call[d].op.method = op.method => call[d].op.action # op.action

\* The method reads the clock and asks for a session, in this order.
Begin(c, s, op) ==
    /\ call[c].phase = "idle"
    /\ s \in config.servers /\ Allowed(op)
    /\ Update(c, [NoCallYet EXCEPT
           !.phase = "waiting", !.op = op, !.server = s, !.stamp = Now(s),
           !.preceding = {d \in Call : Returned(d)}, !.troubled = ~reachable])
    /\ clock' = clock + 1
    /\ UNCHANGED <<config, db, reachable, stale>>

\* Variant: the session is given back when log_event has returned too.
ReleaseNested(c) ==
    LET k == call[c]
        logs == /\ k.at = "main"
                /\ k.op.method \in {"add_pending_action", "resolve_pending_action"} IN
    /\ k.phase = "fetched"
    /\ IF logs
       THEN /\ Update(c, [k EXCEPT !.phase = "waiting", !.at = "log", !.stamp = Now(k.server)])
            /\ clock' = clock + 1
       ELSE /\ Update(c, [k EXCEPT !.phase = "returned", !.holds = 0])
            /\ UNCHANGED clock
    /\ UNCHANGED <<config, db, reachable, stale>>

\* The with block is left: the session is given back, and only then are a
\* proposal and a decision logged, through log_event.
Release(c) ==
    LET k == call[c]
        logs == /\ k.at = "main"
                /\ k.op.method \in {"add_pending_action", "resolve_pending_action"} IN
    /\ k.phase = "fetched"
    /\ IF logs
       THEN /\ Update(c, [k EXCEPT !.phase = "waiting", !.at = "log", !.holds = @ - 1,
                             !.stamp = Now(k.server)])
            /\ clock' = clock + 1
       ELSE /\ Update(c, [k EXCEPT !.phase = "returned", !.holds = @ - 1])
            /\ UNCHANGED clock
    /\ UNCHANGED <<config, db, reachable, stale>>

\* The statement of c left the tables as d.
Fetched(c, d) ==
    /\ db' = d
    /\ Update(c, [call[c] EXCEPT !.phase = "fetched", !.read = Empty])
    /\ UNCHANGED <<config, clock, reachable, stale>>

EventOf(c, type, a) == [type |-> type, call |-> c, action |-> a, stamp |-> call[c].stamp]

\* What log_event appends for c.
LoggedBy(c) ==
    LET op == call[c].op IN
    CASE op.method = "add_pending_action" -> EventOf(c, "proposed", c)
      [] op.method = "resolve_pending_action" -> EventOf(c, op.vote, op.action)
      [] OTHER -> EventOf(c, "other", NoCall)

Logs(c) == Runs(c, "log_event") \/ (call[c].phase = "running" /\ call[c].at = "log")

-----------------------------------------------------------------------------
(***************************************************************************)
(* PostgresStateStore: each statement commits by itself                    *)
(***************************************************************************)

HasConnection(s) == Cardinality(Holders(s)) < config.sessions

\* Variant: the pool hands out a connection without checking it.
TakeConnectionUnchecked(c) ==
    LET s == call[c].server IN
    /\ Postgres
    /\ call[c].phase = "waiting" /\ HasConnection(s) /\ reachable
    /\ Update(c, [call[c] EXCEPT !.phase = "running", !.holds = @ + 1, !.alive = ~stale[s]])
    /\ UNCHANGED <<config, db, clock, reachable, stale>>

\* The pool checks a connection before it hands it out, and replaces a dead
\* one.
TakeConnection(c) ==
    LET s == call[c].server IN
    /\ Postgres
    /\ call[c].phase = "waiting" /\ HasConnection(s) /\ reachable
    /\ Update(c, [call[c] EXCEPT !.phase = "running", !.holds = @ + 1, !.alive = TRUE])
    /\ stale' = [stale EXCEPT ![s] = FALSE]
    /\ UNCHANGED <<config, db, clock, reachable>>

\* A statement needs the connection it runs on.
Answers(c) == Postgres /\ reachable /\ call[c].alive

InsertEvent(c) ==
    /\ Answers(c) /\ Logs(c)
    /\ Fetched(c, [db EXCEPT !.events = Append(@, LoggedBy(c))])

InsertAction(c) ==
    /\ Answers(c) /\ Runs(c, "add_pending_action")
    /\ Fetched(c, [db EXCEPT !.actions[c] = [status |-> "pending", by |-> NoCall]])

Decided(c) == [status |-> call[c].op.vote, by |-> c]

\* Variant: the UPDATE lacks AND status = 'pending'.
UpdateAnyAction(c) ==
    /\ Answers(c) /\ Runs(c, "resolve_pending_action")
    /\ Fetched(c, [db EXCEPT !.actions[call[c].op.action] = Decided(c)])

UpdateAction(c) ==
    /\ Answers(c) /\ Runs(c, "resolve_pending_action")
    /\ db.actions[call[c].op.action].status = "pending"
    /\ Fetched(c, [db EXCEPT !.actions[call[c].op.action] = Decided(c)])

\* No row is pending: the method returns None and logs nothing.
UpdateNothing(c) ==
    /\ Answers(c) /\ Runs(c, "resolve_pending_action")
    /\ db.actions[call[c].op.action].status # "pending"
    /\ Update(c, [call[c] EXCEPT !.phase = "nothing", !.holds = @ - 1])
    /\ UNCHANGED <<config, db, clock, reachable, stale>>

\* Variant: SET fields = EXCLUDED.fields.
UpsertReplaces(c) ==
    /\ Answers(c) /\ Runs(c, "set_status")
    /\ Fetched(c, [db EXCEPT !.fields =
           [f \in Field |-> IF f \in call[c].op.named THEN c ELSE NoCall]])

\* The fields of a process's row that c names, set in row d.
Merged(c, d) == [f \in Field |-> IF f \in call[c].op.named THEN c ELSE d[f]]

\* SET fields = apm_processes.fields || EXCLUDED.fields
Upsert(c) ==
    /\ Answers(c) /\ Runs(c, "set_status")
    /\ Fetched(c, [db EXCEPT !.fields = Merged(c, @)])

Select(c) ==
    /\ Answers(c) /\ Runs(c, "read")
    /\ Fetched(c, db)

-----------------------------------------------------------------------------
(***************************************************************************)
(* StateStore: the whole file is read, changed and replaced under a lock   *)
(***************************************************************************)

\* Variant: the file is read without the lock.
TakeLockAfterReading(c) ==
    /\ ~Postgres
    /\ call[c].phase = "waiting"
    /\ Update(c, [call[c] EXCEPT !.phase = "running", !.holds = @ + 1, !.read = db])
    /\ UNCHANGED <<config, db, clock, reachable, stale>>

\* threading.Lock is not reentrant.
TakeLock(c) ==
    /\ ~Postgres
    /\ call[c].phase = "waiting" /\ Holders(call[c].server) = {}
    /\ Update(c, [call[c] EXCEPT !.phase = "running", !.holds = @ + 1, !.read = db])
    /\ UNCHANGED <<config, db, clock, reachable, stale>>

\* _write: a temporary file takes the place of the old one at once.
Replace(c, d) == ~Postgres /\ Fetched(c, d)

FileLogEvent(c) ==
    /\ Logs(c)
    /\ Replace(c, [call[c].read EXCEPT !.events = Append(@, LoggedBy(c))])

FileAddAction(c) ==
    /\ Runs(c, "add_pending_action")
    /\ Replace(c, [call[c].read EXCEPT !.actions[c] = [status |-> "pending", by |-> NoCall]])

\* The status the action has is not looked at.
FileResolveAction(c) ==
    /\ Runs(c, "resolve_pending_action")
    /\ Replace(c, [call[c].read EXCEPT !.actions[call[c].op.action] = Decided(c)])

FileSetStatus(c) ==
    /\ Runs(c, "set_status")
    /\ Replace(c, [call[c].read EXCEPT !.fields = Merged(c, @)])

FileRead(c) ==
    /\ ~Postgres /\ Runs(c, "read")
    /\ Fetched(c, db)

-----------------------------------------------------------------------------
(***************************************************************************)
(* Faults                                                                  *)
(***************************************************************************)

\* The statement raises, before or after it took place.
ConnectionLost(c) ==
    /\ Postgres
    /\ call[c].phase \in {"running", "fetched"}
    /\ ~reachable \/ ~call[c].alive
    /\ Update(c, [call[c] EXCEPT !.phase = "raised", !.holds = 0])
    /\ UNCHANGED <<config, db, clock, reachable, stale>>

\* PoolTimeout, after 30 seconds without a connection: none can be made, or
\* all are in use.
PoolTimeout(c) ==
    /\ Postgres
    /\ call[c].phase = "waiting"
    /\ ~reachable \/ ~HasConnection(call[c].server)
    /\ Update(c, [call[c] EXCEPT !.phase = "timedOut", !.holds = 0])
    /\ UNCHANGED <<config, db, clock, reachable, stale>>

\* Every connection is lost, those in use and the idle ones.  Bound: one
\* outage that calls meet.
Outage ==
    /\ "outage" \in config.faults /\ Postgres /\ reachable
    /\ \A c \in Call : ~call[c].troubled
    /\ reachable' = FALSE
    /\ stale' = [s \in Server |-> s \in config.servers]
    /\ call' = [c \in Call |->
           IF InFlight(c)
           THEN [call[c] EXCEPT !.troubled = TRUE,
                    !.alive = @ /\ call[c].phase = "waiting"]
           ELSE call[c]]
    /\ UNCHANGED <<config, db, clock>>

OutageOver ==
    /\ ~reachable
    /\ reachable' = TRUE
    /\ UNCHANGED <<config, call, db, clock, stale>>

\* The database closes an idle connection (a serverless one, suspended).
IdleConnectionDies(s) ==
    /\ "idle" \in config.faults /\ Postgres /\ reachable
    /\ s \in config.servers /\ ~stale[s]
    /\ stale' = [stale EXCEPT ![s] = TRUE]
    /\ UNCHANGED <<config, call, db, clock, reachable>>

\* A process dies with its calls; the next one opens a pool of its own.
Crash(s) ==
    /\ "crash" \in config.faults
    /\ \E c \in Call : InFlight(c) /\ call[c].server = s
    /\ call' = [c \in Call |->
           IF InFlight(c) /\ call[c].server = s
           THEN [call[c] EXCEPT !.phase = "dead", !.holds = 0, !.read = Empty]
           ELSE call[c]]
    /\ stale' = [stale EXCEPT ![s] = FALSE]
    /\ UNCHANGED <<config, db, clock, reachable>>

-----------------------------------------------------------------------------
Run(c) ==
    \/ TakeConnection(c)
    \/ InsertEvent(c)
    \/ InsertAction(c)
    \/ UpdateAction(c)
    \/ UpdateNothing(c)
    \/ Upsert(c)
    \/ Select(c)
    \/ TakeLock(c)
    \/ FileLogEvent(c)
    \/ FileAddAction(c)
    \/ FileResolveAction(c)
    \/ FileSetStatus(c)
    \/ FileRead(c)
    \/ Release(c)
    \/ ConnectionLost(c)
    \/ PoolTimeout(c)

Next ==
    \/ \E c \in Call :
           \/ \E s \in Server, op \in Op : Begin(c, s, op)
           \/ Run(c)
    \/ Outage
    \/ OutageOver
    \/ \E s \in Server : IdleConnectionDies(s) \/ Crash(s)

Spec == Init /\ [][Next]_vars

\* Threads run on as long as one of them can: a statement returns or raises.
FairSpec == Spec /\ WF_vars(\E c \in Call : Run(c))

-----------------------------------------------------------------------------
(***************************************************************************)
(* Properties                                                              *)
(***************************************************************************)

CallOK(k) ==
    /\ k.phase \in {"idle", "waiting", "running", "fetched", "returned", "nothing",
                    "raised", "timedOut", "dead"}
    /\ k.op \in Op \cup {NoOp}
    /\ k.server \in config.servers \cup {NoCall}
    /\ k.at \in {"main", "log"}
    /\ k.stamp \in Nat
    /\ k.holds \in {0, 1}
    /\ k.alive \in BOOLEAN
    /\ k.read \in Tables
    /\ k.preceding \subseteq Call
    /\ k.troubled \in BOOLEAN

\* Every variable holds what the code can put there; a call holds one
\* session at most.
TypeOK ==
    /\ config \in Configurations
    /\ \A c \in Call : CallOK(call[c])
    /\ db \in Tables
    /\ clock \in Nat
    /\ reachable \in BOOLEAN
    /\ stale \in [Server -> BOOLEAN]

Events == {db.events[i] : i \in DOMAIN db.events}

\* The tables as StoreContract sees them.
Contract == INSTANCE StoreContract WITH
    decided <- db.actions,
    log <- {[call |-> e.call, type |-> e.type, action |-> e.action] : e \in Events},
    fields <- db.fields

\* Both stores implement the same contract, Postgres for callers on several
\* servers who may decide an action twice, the file for the threads of one
\* process that decide it once: no method's change is lost to another's, no
\* decision is replaced or logged twice, and the log never shrinks.
ContractSpec == Contract!Spec

\* list_events: ORDER BY created_at, or the order in the file.
ListedBefore(i, j) ==
    IF Postgres THEN db.events[i].stamp < db.events[j].stamp ELSE i < j

ClocksAgree == \A s, r \in config.servers : config.ahead[s] = config.ahead[r]

\* An event is listed before those that were logged after its call had
\* returned: a proposal before its decision, a decision before what follows
\* it.  Between the processes of a Postgres store this takes clocks that
\* agree; on one process they need not.
HistoryInOrder ==
    \A i, j \in DOMAIN db.events :
        LET c == db.events[i].call
            d == db.events[j].call IN
        /\ c \in call[d].preceding
        /\ ClocksAgree \/ call[c].server = call[d].server
        => ListedBefore(i, j)

\* A method that returned has done its work for good: its event is in the
\* log, its action on record, and a field it set shows its value or that of
\* a call that did not end before it began.
NothingReturnedIsLost ==
    \A c \in Call : call[c].phase = "returned" =>
        CASE call[c].op.method = "set_status" ->
                 \A f \in call[c].op.named :
                     db.fields[f] # NoCall /\ db.fields[f] \notin call[c].preceding
          [] call[c].op.method = "read" -> TRUE
          [] OTHER -> \E e \in Events : e.call = c

\* A decision in the log is the one on the record, made by the same caller
\* (decided_by), and the call that was told None logged none.
DeciderIsOnRecord ==
    \A e \in Events : e.type \in Vote =>
        /\ db.actions[e.action] = [status |-> e.type, by |-> e.call]
        /\ call[e.call].phase # "nothing"

\* A statement raises only if the database was out of reach while its method
\* ran: a connection that died while nobody used it is no reason to.  (A
\* method that got no connection timed out.)
RaisesOnlyInOutage ==
    \A c \in Call : call[c].phase = "raised" => call[c].troubled

\* Every method returns or raises, however few sessions there are: nobody
\* waits for a session while it holds one.  (Calls are finitely many.  The
\* pool gives up after 30 seconds, the file store's lock never does.)
EveryMethodEnds == <>[](\A c \in Call : ~InFlight(c))
=============================================================================
