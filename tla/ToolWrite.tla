----------------------------- MODULE ToolWrite ------------------------------
(***************************************************************************)
(* A write as execute_node sees it: the tool is called, audits the write   *)
(* before it makes it, makes it at most once, and returns or raises; what  *)
(* raised may have been made.  A write that returned was made.             *)
(***************************************************************************)

CONSTANT Call

VARIABLES
    stage,          \* where each call's write is
    made            \* how often it took place

vars == <<stage, made>>

Init ==
    /\ stage = [c \in Call |-> "execute"]
    /\ made = [c \in Call |-> 0]

Goto(c, from, to) ==
    /\ stage[c] = from
    /\ stage' = [stage EXCEPT ![c] = to]

Make(c) == made' = [made EXCEPT ![c] = 1]

Audit(c) == Goto(c, "execute", "acting") /\ UNCHANGED made

AuditRaises(c) == Goto(c, "execute", "failing") /\ UNCHANGED made

Refuse(c) == Goto(c, "execute", "refused") /\ UNCHANGED made

Write(c) == Goto(c, "acting", "acted") /\ Make(c)

Raise(c) == Goto(c, "acting", "failing") /\ (Make(c) \/ UNCHANGED made)

\* Calls are over, answered or dead with their server, wherever they were.
End ==
    /\ stage' = [c \in Call |-> IF stage'[c] = "over" THEN "over" ELSE stage[c]]
    /\ UNCHANGED made

Next ==
    \/ End
    \/ \E c \in Call :
           \/ Audit(c)
           \/ AuditRaises(c)
           \/ Refuse(c)
           \/ Write(c)
           \/ Raise(c)

Spec == Init /\ [][Next]_vars
=============================================================================
