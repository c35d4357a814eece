---------------------------- MODULE StateStoreInv ----------------------------
(***************************************************************************)
(* The inductive invariant behind the properties of StateStore: what a     *)
(* call has done to the tables wherever it is, and what the tables tell of *)
(* the calls.                                                              *)
(***************************************************************************)
EXTENDS StateStore

\* What the callers of the file store have to see to: its
\* resolve_pending_action does not look at the status an action has.
ASSUME FileActionsDecidedOnce ==
    \A k \in Configurations : k.store = "file" => ~k.redecided

CallRecord ==
    [phase : {"idle", "waiting", "running", "fetched", "returned", "nothing", "raised",
              "timedOut", "dead"},
     op : Op \cup {NoOp}, server : Server \cup {NoCall}, at : {"main", "log"}, stamp : Nat,
     holds : {0, 1}, alive : BOOLEAN, read : Tables, preceding : SUBSET Call,
     troubled : BOOLEAN]

Types ==
    /\ config \in Configurations
    /\ call \in [Call -> CallRecord]
    /\ db \in Tables
    /\ clock \in Nat
    /\ reachable \in BOOLEAN
    /\ stale \in [Server -> BOOLEAN]

-----------------------------------------------------------------------------
(***************************************************************************)
(* Calls                                                                   *)
(***************************************************************************)

Is(c, method) == call[c].op.method = method
LogsLast(c) == Is(c, "add_pending_action") \/ Is(c, "resolve_pending_action")

\* Where a call is in its method, and the session it holds there.
Place(c) ==
    /\ call[c].phase = "idle" => call[c] = NoCallYet
    /\ call[c].phase # "idle" => call[c].op \in Op /\ call[c].server \in config.servers
    /\ call[c].holds = 1 <=> call[c].phase \in {"running", "fetched"}
    /\ call[c].at = "log" => LogsLast(c)
    /\ call[c].phase = "returned" /\ LogsLast(c) => call[c].at = "log"
    /\ call[c].phase = "nothing" => call[c].at = "main" /\ Is(c, "resolve_pending_action")

\* A call that the database does not answer knows that it was in trouble.
TroubleKnown(c) ==
    /\ InFlight(c) /\ ~reachable => call[c].troubled
    /\ ~call[c].alive => call[c].troubled
    /\ call[c].phase = "raised" => call[c].troubled

\* A call decides an action that was added; on the file no other call does.
Decides(c) ==
    Is(c, "resolve_pending_action") =>
        /\ Is(call[c].op.action, "add_pending_action")
        /\ call[call[c].op.action].phase = "returned"
        /\ config.redecided \/ \A d \in Call :
               Is(d, "resolve_pending_action") /\ call[d].op.action = call[c].op.action => d = c

\* Time passes between a call's return and the stamp of one that began later.
InTime(c) ==
    /\ call[c].phase # "idle" => call[c].stamp <= clock + config.ahead[call[c].server]
    /\ \A d \in call[c].preceding :
           /\ Returned(d)
           /\ ClocksAgree \/ call[d].server = call[c].server => call[d].stamp < call[c].stamp

\* The file belongs to the call that holds its lock, which has read it.
Locked(c) ==
    ~Postgres =>
        /\ call[c].phase = "running" => call[c].read = db
        /\ \A d \in Call : call[c].holds = 1 /\ call[d].holds = 1 => c = d

-----------------------------------------------------------------------------
(***************************************************************************)
(* Calls and tables                                                        *)
(***************************************************************************)

\* The first statement of a method was run, or may have been.
Ran(c) == call[c].at = "log" \/ call[c].phase = "fetched"
MayHaveRun(c) == Ran(c) \/ call[c].phase \in {"returned", "raised", "timedOut", "dead"}

\* The second one of a method that logs.
HasLogged(c) ==
    (Is(c, "log_event") \/ call[c].at = "log") /\ call[c].phase \in {"fetched", "returned"}
MayHaveLogged(c) ==
    /\ Is(c, "log_event") \/ call[c].at = "log"
    /\ call[c].phase \in {"fetched", "returned", "raised", "timedOut", "dead"}

\* What a call did is in the tables.
Done(c) ==
    /\ Is(c, "add_pending_action") /\ Ran(c) => db.actions[c].status # "absent"
    /\ Is(c, "resolve_pending_action") /\ Ran(c) => db.actions[call[c].op.action] = Decided(c)
    /\ HasLogged(c) => \E i \in DOMAIN db.events : db.events[i].call = c
    /\ Is(c, "set_status") /\ call[c].phase \in {"fetched", "returned"} =>
           \A f \in call[c].op.named :
               db.fields[f] # NoCall /\ db.fields[f] \notin call[c].preceding

\* A record comes from the call that added it, a decision from a call that
\* decided it.
Recorded(a) ==
    LET r == db.actions[a] IN
    /\ r.status # "absent" => Is(a, "add_pending_action") /\ MayHaveRun(a)
    /\ r.status \notin Vote => r.by = NoCall
    /\ r.status \in Vote =>
           /\ r.by \in Call
           /\ Is(r.by, "resolve_pending_action") /\ MayHaveRun(r.by)
           /\ call[r.by].op.action = a

\* An event was logged by its call, after those logged before the call began.
Listed ==
    \A i \in DOMAIN db.events, c \in Call : db.events[i].call = c =>
        /\ MayHaveLogged(c)
        /\ db.events[i] = LoggedBy(c)
        /\ \A j \in DOMAIN db.events, d \in Call :
               db.events[j].call = d /\ c \in call[d].preceding => i < j

-----------------------------------------------------------------------------
CallInv(c) ==
    /\ Place(c)
    /\ TroubleKnown(c)
    /\ Decides(c)
    /\ InTime(c)
    /\ Locked(c)
    /\ Done(c)
    /\ Recorded(c)

\* The inductive invariant.
IInv ==
    /\ Types
    /\ \A c \in Call : CallInv(c)
    /\ Listed
=============================================================================
