--------------------------- MODULE StoreContract ---------------------------
(***************************************************************************)
(* What both state stores promise (StateStoreProtocol): every method acts  *)
(* at one moment on the process's row, its pending actions and its audit   *)
(* log.  A record is added once and decided once, a proposal and a         *)
(* decision are logged once and only after they are on the record, an      *)
(* update of the process's row keeps the fields it does not name, and      *)
(* nothing is ever taken back.                                             *)
(***************************************************************************)

CONSTANTS Call, NoCall, Field

VARIABLES
    decided,        \* per action: what was decided, and by which call
    log,            \* the events of the audit log
    fields          \* per field of the process's row: the call that set it

vars == <<decided, log, fields>>

Absent == [status |-> "absent", by |-> NoCall]

Init ==
    /\ decided = [a \in Call |-> Absent]
    /\ log = {}
    /\ fields = [f \in Field |-> NoCall]

Add(a) ==
    /\ decided[a] = Absent
    /\ decided' = [decided EXCEPT ![a].status = "pending"]
    /\ UNCHANGED <<log, fields>>

Decide(a, vote, c) ==
    /\ decided[a].status = "pending"
    /\ decided' = [decided EXCEPT ![a] = [status |-> vote, by |-> c]]
    /\ UNCHANGED <<log, fields>>

\* A call logs one event at most.
Record(c, type, a) ==
    /\ \A e \in log : e.call # c
    /\ log' = log \cup {[call |-> c, type |-> type, action |-> a]}
    /\ UNCHANGED <<decided, fields>>

RecordProposal(a) ==
    /\ decided[a] # Absent
    /\ Record(a, "proposed", a)

RecordDecision(a) ==
    /\ decided[a].status \in {"approved", "rejected"}
    /\ Record(decided[a].by, decided[a].status, a)

RecordOther(c) == Record(c, "other", NoCall)

SetFields(c, named) ==
    /\ fields' = [f \in Field |-> IF f \in named THEN c ELSE fields[f]]
    /\ UNCHANGED <<decided, log>>

Next ==
    \E c \in Call :
        \/ Add(c)
        \/ \E a \in Call, vote \in {"approved", "rejected"} : Decide(a, vote, c)
        \/ RecordProposal(c)
        \/ RecordDecision(c)
        \/ RecordOther(c)
        \/ \E named \in SUBSET Field : SetFields(c, named)

Spec == Init /\ [][Next]_vars
=============================================================================
