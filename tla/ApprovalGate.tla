---------------------------- MODULE ApprovalGate ----------------------------
(***************************************************************************)
(* What the write gate promises: an action is proposed, decided once by a  *)
(* human, and, if it was approved, executed by at most one call; nothing   *)
(* else ever happens to it.                                                *)
(***************************************************************************)

CONSTANTS Action, Executor

VARIABLES
    stage,          \* what was decided about each action
    executedBy      \* the calls that carried each action out

Init ==
    /\ stage = [a \in Action |-> "absent"]
    /\ executedBy = [a \in Action |-> {}]

Propose(a) ==
    /\ stage[a] = "absent"
    /\ stage' = [stage EXCEPT ![a] = "pending"]
    /\ UNCHANGED executedBy

Decide(a, vote) ==
    /\ stage[a] = "pending"
    /\ stage' = [stage EXCEPT ![a] = vote]
    /\ UNCHANGED executedBy

Execute(a, c) ==
    /\ stage[a] = "approved"
    /\ executedBy[a] = {}
    /\ executedBy' = [executedBy EXCEPT ![a] = {c}]
    /\ UNCHANGED stage

Next ==
    \E a \in Action :
        \/ Propose(a)
        \/ \E vote \in {"approved", "rejected"} : Decide(a, vote)
        \/ \E c \in Executor : Execute(a, c)

Spec == Init /\ [][Next]_<<stage, executedBy>>
=============================================================================
