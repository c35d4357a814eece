--------------------------- MODULE ActionGraphInv ---------------------------
(***************************************************************************)
(* The inductive invariant behind the safety properties of ActionGraph:    *)
(* what every call and every thread may rely on between two statements.    *)
(***************************************************************************)
EXTENDS ActionGraph

\* A call that has not invoked the graph holds nothing, and no record bears
\* its name before InsertRecord.
FreshCalls ==
    \A c \in Call :
        /\ phase[c] = "idle" => req[c] = NoRequest
        /\ phase[c] \in {"idle", "received"} => work[c] = NoCheckpoint
        /\ phase[c] \in {"idle", "received", "propose"} => pending[c] = NoRecord

\* Between interrupt()'s return and the end of approval_node, the call holds
\* a decision.
DecisionAtHand ==
    \A c \in Call : phase[c] \in {"resolve", "logDecision"} => work[c].decision \in Vote

\* The node a call is running is the next node of the state it holds, and
\* the nodes past the interrupt are run for decision requests only.
NodeOfPhase ==
    \A c \in Call :
        /\ phase[c] \in {"propose", "logProposed"} => work[c].next = "propose"
        /\ phase[c] \in {"approval", "resolve", "logDecision"} => work[c].next = "approval"
        /\ phase[c] \in {"execute", "acting", "acted", "refused", "failing"}
               => work[c].next = "execute"
        /\ phase[c] \in {"resolve", "logDecision", "execute", "acting", "acted",
                        "refused", "failing"}
               => req[c].kind = "decide"

\* A state k of thread t that waits at approval or execute names a record of
\* t with k's proposal; at execute that record is decided; an approval it
\* carries was delivered by somebody; and a new proposal keeps none.
Sound(k, t) ==
    /\ k.next \in {"approval", "execute"} =>
           /\ k.action \in Call
           /\ pending[k.action] \in Record
           /\ pending[k.action].thread = t
           /\ pending[k.action].proposal = k.proposal
    /\ k.next = "propose" => k.kept = "none"
    /\ k.next = "execute" => pending[k.action].status \in Vote
    /\ k.next = "execute" /\ k.decision = "approved" => \E d \in Call : Approver(d, k.action)
    /\ k.next = "approval" /\ k.kept = "approved" => \E d \in Call : Approver(d, k.action)

SoundCheckpoints == \A t \in Thread : Sound(checkpoint[t], t)
SoundWork == \A c \in Call : phase[c] # "idle" => Sound(work[c], req[c].thread)

\* What a call knows at the points between two store statements.
MidNode ==
    \A c \in Call :
        /\ phase[c] = "logProposed" =>
               /\ pending[c] \in Record
               /\ pending[c].thread = req[c].thread
               /\ pending[c].proposal = work[c].proposal
        /\ phase[c] \in {"resolve", "logDecision"} /\ work[c].decision = "approved" =>
               \E d \in Call : Approver(d, work[c].action)
        /\ phase[c] = "logDecision" => pending[work[c].action].status = work[c].decision
        /\ phase[c] \in {"acting", "acted"} =>
               /\ work[c].decision = "approved"
               /\ [type |-> "executed", call |-> c, action |-> work[c].action] \in events

\* A call about to log a decision is the only one to do so for its record.
OneDecider ==
    \A c \in Call : phase[c] = "logDecision" =>
        /\ \A f \in events : f.type \in Vote => f.action # work[c].action
        /\ \A d \in Call : phase[d] = "logDecision" /\ work[d].action = work[c].action => d = c

\* Logged decisions and effects are about records that exist.
NamedRecords ==
    /\ \A e \in events : e.type \in Vote => e.action \in Call /\ pending[e.action] \in Record
    /\ \A e \in effects : e.action \in Call /\ pending[e.action] \in Record

\* The inductive invariant: the facts above, and the properties they support.
IInv ==
    /\ TypeOK
    /\ DecisionAtHand
    /\ FreshCalls
    /\ NodeOfPhase
    /\ SoundCheckpoints
    /\ SoundWork
    /\ MidNode
    /\ OneDecider
    /\ NamedRecords
    /\ NoEffectWithoutApproval
    /\ ExecutesWhatWasRecorded
    /\ EffectIsAudited
    /\ OneDecisionEvent
=============================================================================
