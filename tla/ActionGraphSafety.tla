------------------------- MODULE ActionGraphSafety -------------------------
(***************************************************************************)
(* Theorems about ActionGraph for any calls, threads, faults and client    *)
(* discipline: IInv is inductive, and the safety properties follow.        *)
(***************************************************************************)
EXTENDS ActionGraphProofs

\* What every step of a call preserves, whatever it does: a record keeps its
\* thread and payload and, once decided, its decision; a delivered approval
\* stays delivered; the audit log and the effects grow.
Monotone ==
    /\ \A a \in Call : pending[a] \in Record =>
           /\ pending'[a] \in Record
           /\ pending'[a].thread = pending[a].thread
           /\ pending'[a].proposal = pending[a].proposal
           /\ pending[a].status \in Vote => pending'[a] = pending[a]
    /\ \A d, a \in Call : pending[a] \in Record /\ Approver(d, a) => Approver(d, a)'
    /\ events \subseteq events'
    /\ effects \subseteq effects'

\* A step of call c leaves the other calls alone.
Others(c) ==
    \A d \in Call : d # c =>
        /\ phase'[d] = phase[d] /\ req'[d] = req[d] /\ work'[d] = work[d]

Step(c) == Arrive(c) \/ Progress(c) \/ Fault(c)

LEMMA OthersUntouched ==
    ASSUME TypeOK, NEW c \in Call, Step(c)
    PROVE  Others(c)
<1> USE DEF Others, TypeOK, Goto, Exit, NodeReturns
<1>1. CASE Arrive(c)
  BY <1>1 DEF Arrive, ReceivePropose, ReceiveDecision
<1>2. CASE Invoke(c)
  BY <1>2 DEF Invoke, InvokeStart, ResumeUnknown, ResumePaused, ResumeUnfinished, ResumeFinished
<1>3. CASE RunNode(c)
  BY <1>3 DEF RunNode, ProposeKeyError, InsertRecord, LogProposed, Interrupt, ResolveRecord,
         ResolveNothing, LogDecision, FinishRejected, AuditExecution, CallTool,
         FinishExecuted, FinishRefused, RecordFailure, Finish
<1>4. CASE Fault(c)
  BY <1>4 DEF Fault, ToolRaises, StoreRaises, StoreRaisesInApproval, StoreRaisesInGuard,
         ToolRefuses, ToolNotConfigured, CheckpointRaises, Crash
<1>5. CASE SaveCheckpoint(c) \/ Respond(c)
  BY <1>5 DEF SaveCheckpoint, Respond
<1> QED
  BY <1>1, <1>2, <1>3, <1>4, <1>5 DEF Step, Progress

\* Records: InsertRecord makes one that was absent, ResolveRecord decides one
\* that was pending, and no other step writes the table.
LEMMA RecordsMonotone ==
    ASSUME IInv, NEW c \in Call, Step(c), NEW a \in Call, pending[a] \in Record
    PROVE  /\ pending'[a] \in Record
           /\ pending'[a].thread = pending[a].thread
           /\ pending'[a].proposal = pending[a].proposal
           /\ pending[a].status \in Vote => pending'[a] = pending[a]
<1>1. CASE InsertRecord(c)
  <2>1. pending[c] = NoRecord
    BY <1>1 DEF InsertRecord, IInv, FreshCalls
  <2>2. NoRecord \notin Record
    BY DEF NoRecord, Record
  <2> QED
    BY <1>1, <2>1, <2>2 DEF InsertRecord
<1>2. CASE ResolveRecord(c)
  <2>1. work[c].decision \in Vote
    BY <1>2 DEF ResolveRecord, IInv, DecisionAtHand
  <2>2. CASE work[c].action = a
    <3>1. /\ pending'[a] = [pending[a] EXCEPT !.status = work[c].decision]
          /\ pending[a].status = "pending"
      BY <1>2, <2>2 DEF ResolveRecord, IInv, TypeOK
    <3>2. pending[a].status \notin Vote
      BY <3>1 DEF Vote
    <3> QED
      BY <2>1, <3>1, <3>2 DEF Record
  <2>3. CASE work[c].action # a
    BY <1>2, <2>3 DEF ResolveRecord, IInv, TypeOK
  <2> QED
    BY <2>2, <2>3
<1>3. CASE UNCHANGED pending
  BY <1>3
<1>4. InsertRecord(c) \/ ResolveRecord(c) \/ UNCHANGED pending
  BY DEF Step, Arrive, ReceivePropose, ReceiveDecision, Progress, SaveCheckpoint, Respond,
         Invoke, InvokeStart, ResumeUnknown, ResumePaused, ResumeUnfinished, ResumeFinished,
         RunNode, ProposeKeyError, LogProposed, Interrupt, ResolveNothing, LogDecision,
         FinishRejected, AuditExecution, CallTool, FinishExecuted, FinishRefused, RecordFailure,
         Fault, ToolRaises, StoreRaises, StoreRaisesInApproval, StoreRaisesInGuard,
         ToolRefuses, ToolNotConfigured, CheckpointRaises, Crash,
         storeVars
<1> QED
  BY <1>1, <1>2, <1>3, <1>4

\* A call with work to show has its request for good, and past propose_node
\* its state keeps naming the same record.
LEMMA ApproverMonotone ==
    ASSUME IInv, NEW c \in Call, Step(c), NEW d \in Call, NEW a \in Call,
           pending[a] \in Record, Approver(d, a)
    PROVE  Approver(d, a)'
<1>1. pending'[a].thread = pending[a].thread
  BY RecordsMonotone
<1>2. CASE d # c
  BY <1>1, <1>2, OthersUntouched DEF Others, Approver, IInv
<1>3. CASE d = c
  <2>1. work[c].action = a /\ work[c].next # "propose"
    BY <1>3 DEF Approver
  <2>2. work[c] # NoCheckpoint
    BY <2>1, NoCallAssumption DEF NoCheckpoint
  <2>3. phase[c] \notin {"idle", "received", "propose", "logProposed"}
    BY <2>1, <2>2 DEF IInv, FreshCalls, NodeOfPhase
  <2>4. req'[c] = req[c]
    BY <2>3 DEF Step, Arrive, ReceivePropose, ReceiveDecision, MayArrive, Progress,
         SaveCheckpoint, Respond,
         Invoke, InvokeStart, ResumeUnknown, ResumePaused, ResumeUnfinished, ResumeFinished,
         RunNode, ProposeKeyError, InsertRecord, LogProposed, Interrupt, ResolveRecord,
         ResolveNothing, LogDecision, FinishRejected, AuditExecution, CallTool,
         FinishExecuted, FinishRefused, RecordFailure,
         Fault, ToolRaises, StoreRaises, StoreRaisesInApproval, StoreRaisesInGuard,
         ToolRefuses, ToolNotConfigured, CheckpointRaises, Crash
  <2>5. work'[c].action = a /\ work'[c].next # "propose"
    <3>1. CASE UNCHANGED work
      BY <2>1, <3>1
    <3>2. CASE ResolveNothing(c) \/ LogDecision(c)
      <4>1. work'[c] = [work[c] EXCEPT !.next = "execute", !.kept = "none"]
        BY <3>2 DEF ResolveNothing, LogDecision, NodeReturns, IInv, TypeOK
      <4>2. work[c] \in Checkpoint
        BY DEF IInv, TypeOK
      <4> QED
        BY <2>1, <4>1, <4>2 DEF Checkpoint
    <3>3. CASE FinishRejected(c) \/ FinishExecuted(c) \/ FinishRefused(c)
      <4>1. PICK r : work'[c] = [work[c] EXCEPT !.next = "end", !.result = r]
        BY <3>3 DEF FinishRejected, FinishExecuted, FinishRefused, Finish, NodeReturns, IInv, TypeOK
      <4>2. work[c] \in Checkpoint
        BY DEF IInv, TypeOK
      <4> QED
        BY <2>1, <4>1, <4>2 DEF Checkpoint
    <3>4. \/ UNCHANGED work
          \/ ResolveNothing(c) \/ LogDecision(c)
          \/ FinishRejected(c) \/ FinishExecuted(c) \/ FinishRefused(c)
      BY <2>3 DEF Step, Arrive, ReceivePropose, ReceiveDecision, MayArrive, Progress,
         SaveCheckpoint, Respond,
         Invoke, InvokeStart, ResumeUnknown, ResumePaused, ResumeUnfinished, ResumeFinished,
         RunNode, ProposeKeyError, InsertRecord, LogProposed, Interrupt, ResolveRecord,
         AuditExecution, CallTool, RecordFailure,
         Fault, ToolRaises, StoreRaises, StoreRaisesInApproval, StoreRaisesInGuard,
         ToolRefuses, ToolNotConfigured, CheckpointRaises, Crash
    <3> QED
      BY <3>1, <3>2, <3>3, <3>4
  <2> QED
    BY <1>1, <1>3, <2>4, <2>5 DEF Approver
<1> QED
  BY <1>2, <1>3

LEMMA StepMonotone ==
    ASSUME IInv, NEW c \in Call, Step(c)
    PROVE  Monotone
<1>1. events \subseteq events' /\ effects \subseteq effects'
  BY DEF Step, Arrive, ReceivePropose, ReceiveDecision, Progress, SaveCheckpoint, Respond,
         Invoke, InvokeStart, ResumeUnknown, ResumePaused, ResumeUnfinished, ResumeFinished,
         RunNode, ProposeKeyError, InsertRecord, LogProposed, Interrupt, ResolveRecord,
         ResolveNothing, LogDecision, FinishRejected, AuditExecution, CallTool,
         FinishExecuted, FinishRefused, RecordFailure, Log, storeVars,
         Fault, ToolRaises, StoreRaises, StoreRaisesInApproval, StoreRaisesInGuard,
         ToolRefuses, ToolNotConfigured, CheckpointRaises, Crash
<1> QED
  BY <1>1, RecordsMonotone, ApproverMonotone DEF Monotone

-----------------------------------------------------------------------------
(***************************************************************************)
(* What a step of c leaves intact                                          *)
(***************************************************************************)

\* A sound state stays sound when it is not touched.
LEMMA SoundStays ==
    ASSUME Monotone, NEW k, NEW t, Sound(k, t)
    PROVE  Sound(k, t)'
BY DEF Sound, Monotone

\* The invariant's clauses about one call.
CallInv(c) ==
    /\ phase[c] = "idle" => req[c] = NoRequest
    /\ phase[c] \in {"idle", "received"} => work[c] = NoCheckpoint
    /\ phase[c] \in {"idle", "received", "propose"} => pending[c] = NoRecord
    /\ phase[c] \in {"propose", "logProposed"} => work[c].next = "propose"
    /\ phase[c] \in {"approval", "resolve", "logDecision"} => work[c].next = "approval"
    /\ phase[c] \in {"execute", "acting", "acted", "refused", "failing"}
           => work[c].next = "execute"
    /\ phase[c] \in {"resolve", "logDecision", "execute", "acting", "acted",
                    "refused", "failing"}
           => req[c].kind = "decide"
    /\ phase[c] # "idle" => Sound(work[c], req[c].thread)
    /\ phase[c] = "logProposed" =>
           /\ pending[c] \in Record
           /\ pending[c].thread = req[c].thread
           /\ pending[c].proposal = work[c].proposal
    /\ phase[c] \in {"resolve", "logDecision"} /\ work[c].decision = "approved" =>
           \E d \in Call : Approver(d, work[c].action)
    /\ phase[c] = "logDecision" => pending[work[c].action].status = work[c].decision
    /\ phase[c] \in {"acting", "acted"} =>
           /\ work[c].decision = "approved"
           /\ [type |-> "executed", call |-> c, action |-> work[c].action] \in events

LEMMA CallInvIsIInv ==
    (\A c \in Call : CallInv(c)) <=> FreshCalls /\ NodeOfPhase /\ SoundWork /\ MidNode
BY DEF CallInv, FreshCalls, NodeOfPhase, SoundWork, MidNode

\* The record of a call other than c that has none yet stays absent.
LEMMA OtherRecordsAbsent ==
    ASSUME IInv, NEW c \in Call, Step(c), NEW d \in Call, d # c, pending[d] = NoRecord
    PROVE  pending'[d] = NoRecord
<1>1. CASE InsertRecord(c)
  BY <1>1 DEF InsertRecord, IInv, TypeOK
<1>2. CASE ResolveRecord(c)
  BY <1>2 DEF ResolveRecord, IInv, TypeOK, NoRecord
<1>3. InsertRecord(c) \/ ResolveRecord(c) \/ UNCHANGED pending
  BY DEF Step, Arrive, ReceivePropose, ReceiveDecision, Progress, SaveCheckpoint, Respond,
         Invoke, InvokeStart, ResumeUnknown, ResumePaused, ResumeUnfinished, ResumeFinished,
         RunNode, ProposeKeyError, LogProposed, Interrupt, ResolveNothing, LogDecision,
         FinishRejected, AuditExecution, CallTool, FinishExecuted, FinishRefused, RecordFailure,
         Fault, ToolRaises, StoreRaises, StoreRaisesInApproval, StoreRaisesInGuard,
         ToolRefuses, ToolNotConfigured, CheckpointRaises, Crash,
         storeVars
<1> QED
  BY <1>1, <1>2, <1>3

LEMMA OthersKeepCallInv ==
    ASSUME IInv, NEW c \in Call, Step(c), NEW d \in Call, d # c
    PROVE  CallInv(d)'
<1>1. CallInv(d)
  BY CallInvIsIInv DEF IInv
<1>2. Monotone /\ Others(c)
  BY StepMonotone, OthersUntouched DEF IInv
<1>3. phase'[d] = phase[d] /\ req'[d] = req[d] /\ work'[d] = work[d]
  BY <1>2 DEF Others
<1>4. phase'[d] # "idle" => Sound(work[d], req[d].thread)'
  BY <1>1, <1>2, <1>3, SoundStays DEF CallInv
<1>5. phase[d] \in {"resolve", "logDecision"} =>
          work[d].action \in Call /\ pending[work[d].action] \in Record
  BY <1>1 DEF CallInv, Sound
<1>6. phase'[d] \in {"resolve", "logDecision"} /\ work'[d].decision = "approved" =>
          \E e \in Call : Approver(e, work[d].action)'
  BY <1>1, <1>2, <1>3, <1>5 DEF CallInv, Monotone
<1>7. phase'[d] = "logDecision" => pending'[work[d].action].status = work[d].decision
  BY <1>1, <1>2, <1>3, <1>5 DEF CallInv, Monotone, IInv, DecisionAtHand
<1>8. phase'[d] \in {"idle", "received", "propose"} => pending'[d] = NoRecord
  BY <1>1, <1>3, OtherRecordsAbsent DEF CallInv
<1> QED
  BY <1>1, <1>2, <1>3, <1>4, <1>6, <1>7, <1>8 DEF CallInv, Monotone, Sound, Approver

-----------------------------------------------------------------------------
(***************************************************************************)
(* What a step of c does to c's own clauses                                *)
(***************************************************************************)

LEMMA ArriveKeepsCallInv ==
    ASSUME IInv, NEW c \in Call, Arrive(c)
    PROVE  CallInv(c)'
<1>1. CallInv(c) /\ phase[c] = "idle"
  BY CallInvIsIInv DEF IInv, Arrive, ReceivePropose, ReceiveDecision, MayArrive
<1>2. phase'[c] = "received" /\ UNCHANGED <<work, pending>>
  BY DEF Arrive, ReceivePropose, ReceiveDecision, Goto, storeVars, IInv, TypeOK
<1> QED
  BY <1>1, <1>2 DEF CallInv, Sound, NoCheckpoint

LEMMA InvokeKeepsCallInv ==
    ASSUME IInv, NEW c \in Call, Invoke(c)
    PROVE  CallInv(c)'
<1>1. /\ phase[c] = "received"
      /\ UNCHANGED <<req, pending, events>>
  BY DEF Invoke, InvokeStart, ResumeUnknown, ResumePaused, ResumeUnfinished, ResumeFinished,
         storeVars
<1>2. PICK t \in Thread, k \in Checkpoint : t = req[c].thread /\ k = checkpoint[t]
  BY <1>1, RequestThread DEF IInv, TypeOK
<1>3. /\ Sound(k, t)
      /\ pending[c] = NoRecord
      /\ Monotone
  BY <1>1, <1>2, StepMonotone DEF IInv, SoundCheckpoints, FreshCalls, Step, Progress
<1>4. Sound(k, t)'
  BY <1>3, SoundStays
<1>5. CASE InvokeStart(c)
  <2>1. /\ phase'[c] = "propose"
        /\ work'[c] = [k EXCEPT !.next = "propose", !.proposal = c, !.kept = "none"]
    BY <1>2, <1>5 DEF InvokeStart, Goto, NodeReturns, IInv, TypeOK
  <2>2. work'[c].next = "propose" /\ work'[c].kept = "none"
    BY <1>2, <2>1 DEF Checkpoint
  <2> QED
    BY <1>1, <1>3, <2>1, <2>2 DEF CallInv, Sound
<1>6. CASE ResumeUnknown(c)
  <2>1. phase'[c] = "propose" /\ work'[c] = [NoCheckpoint EXCEPT !.next = "propose"]
    BY <1>6 DEF ResumeUnknown, Goto, NodeReturns, IInv, TypeOK
  <2>2. work'[c].next = "propose" /\ work'[c].kept = "none"
    BY <2>1 DEF NoCheckpoint
  <2> QED
    BY <1>1, <1>3, <2>1, <2>2 DEF CallInv, Sound
<1>7. CASE ResumePaused(c)
  <2>1. /\ phase'[c] = "resolve" /\ k.next = "approval" /\ req[c].kind = "decide"
        /\ work'[c] =
               [k EXCEPT !.decision = IF k.kept = "none" THEN req[c].vote ELSE k.kept]
    BY <1>2, <1>7 DEF ResumePaused, Goto, IInv, TypeOK
  <2>2. /\ work'[c].decision = IF k.kept = "none" THEN req[c].vote ELSE k.kept
        /\ work'[c].next = "approval" /\ work'[c].kept = k.kept
        /\ work'[c].action = k.action /\ work'[c].proposal = k.proposal
    BY <1>2, <2>1 DEF Checkpoint
  <2>3. k.action \in Call /\ pending[k.action] \in Record /\ pending[k.action].thread = t
    BY <1>3, <2>1 DEF Sound
  <2>4. k.kept = "approved" => \E d \in Call : Approver(d, k.action)'
    BY <1>3, <2>1, <2>3 DEF Sound, Monotone
  <2>5. work'[c].decision = "approved" => \E d \in Call : Approver(d, k.action)'
    <3>1. CASE k.kept = "none"
      <4>1. work'[c].decision = "approved" => Approver(c, k.action)'
        BY <1>1, <1>2, <2>1, <2>2, <2>3, <3>1 DEF Approver
      <4> QED
        BY <4>1
    <3> QED
      BY <2>2, <2>4, <3>1
  <2>6. \A d \in Call : Approver(d, work[c].action)' <=> Approver(d, k.action)'
    BY <2>2 DEF Approver
  <2>7. Sound(work[c], req[c].thread)'
    <3>1. \E d \in Call : k.kept = "approved" => Approver(d, work[c].action)'
      BY <2>4, <2>6
    <3>2. pending'[k.action].proposal = k.proposal
      BY <1>1, <1>3, <2>1 DEF Sound
    <3> QED
      BY <1>1, <1>2, <2>2, <2>3, <3>1, <3>2 DEF Sound
  <2> QED
    BY <1>1, <2>1, <2>2, <2>5, <2>6, <2>7 DEF CallInv
<1>8. CASE ResumeUnfinished(c)
  <2>1. phase'[c] = k.next /\ work'[c] = k /\ k.next \in {"propose", "execute"}
        /\ req[c].kind = "decide"
    BY <1>2, <1>8 DEF ResumeUnfinished, Goto, IInv, TypeOK
  <2>2. Sound(work[c], req[c].thread)'
    BY <1>1, <1>2, <1>4, <2>1 DEF Sound, Approver
  <2> QED
    BY <1>1, <1>3, <2>1, <2>2 DEF CallInv
<1>9. CASE ResumeFinished(c)
  <2>1. phase'[c] = "exit" /\ work'[c] = k /\ k.next = "end"
    BY <1>2, <1>9 DEF ResumeFinished, Exit, Goto, IInv, TypeOK
  <2> QED
    BY <1>1, <2>1 DEF CallInv, Sound
<1> QED
  BY <1>5, <1>6, <1>7, <1>8, <1>9 DEF Invoke

\* The two ways a call leaves its node without new knowledge.
LEMMA LeaveKeepsCallInv ==
    ASSUME IInv, NEW c \in Call, Step(c), phase[c] # "idle",
           UNCHANGED <<req, work>>,
           phase'[c] \in {"exit", "dead", "done", "failing", "refused"},
           phase'[c] \in {"failing", "refused"} => phase[c] \in {"execute", "acting"}
    PROVE  CallInv(c)'
<1>1. CallInv(c) /\ Monotone
  BY CallInvIsIInv, StepMonotone DEF IInv
<1>2. Sound(work[c], req[c].thread)'
  BY <1>1, SoundStays DEF CallInv
<1> QED
  BY <1>1, <1>2 DEF CallInv, Sound

LEMMA ProposeKeepsCallInv ==
    ASSUME IInv, NEW c \in Call, InsertRecord(c) \/ LogProposed(c)
    PROVE  CallInv(c)'
<1>1. /\ CallInv(c) /\ req[c] \in Request /\ work[c] \in Checkpoint
      /\ UNCHANGED req
  BY CallInvIsIInv, RequestThread DEF IInv, TypeOK, InsertRecord, LogProposed
<1>2. /\ work[c].next = "propose" /\ work[c].kept = "none"
      /\ work[c].proposal \in MaybeCall /\ req[c].thread \in Thread
  BY <1>1, RequestThread, CheckpointFields DEF CallInv, Sound, InsertRecord, LogProposed, IInv
<1>3. CASE InsertRecord(c)
  <2>1. /\ phase'[c] = "logProposed" /\ work'[c] = work[c]
        /\ pending'[c] = [thread |-> req[c].thread, proposal |-> work[c].proposal,
                          status |-> "pending"]
    BY <1>3 DEF InsertRecord, Goto, IInv, TypeOK
  <2>2. pending'[c] \in Record
    BY <1>2, <1>3, <2>1 DEF InsertRecord, Record, MaybeCall
  <2> QED
    BY <1>1, <1>2, <2>1, <2>2 DEF CallInv, Sound
<1>4. CASE LogProposed(c)
  <2>1. /\ phase'[c] = "approval" /\ UNCHANGED pending
        /\ work'[c] = [work[c] EXCEPT !.next = "approval", !.action = c]
    BY <1>4 DEF LogProposed, Goto, NodeReturns, IInv, TypeOK
  <2>2. /\ work'[c].next = "approval" /\ work'[c].action = c /\ work'[c].kept = "none"
        /\ work'[c].proposal = work[c].proposal
    BY <1>1, <1>2, <2>1 DEF Checkpoint
  <2>3. pending[c] \in Record /\ pending[c].thread = req[c].thread
        /\ pending[c].proposal = work[c].proposal
    BY <1>1, <1>4 DEF CallInv, LogProposed
  <2> QED
    BY <1>1, <2>1, <2>2, <2>3 DEF CallInv, Sound
<1> QED
  BY <1>3, <1>4

LEMMA ApprovalKeepsCallInv ==
    ASSUME IInv, NEW c \in Call, ResolveRecord(c) \/ ResolveNothing(c) \/ LogDecision(c)
    PROVE  CallInv(c)'
<1>1. /\ CallInv(c) /\ Monotone /\ work[c] \in Checkpoint
      /\ UNCHANGED req
      /\ work[c].decision \in Vote
      /\ phase[c] \in {"resolve", "logDecision"}
  BY CallInvIsIInv, StepMonotone DEF IInv, TypeOK, DecisionAtHand, Step, Progress, RunNode,
     ResolveRecord, ResolveNothing, LogDecision
<1>2. PICK a \in Call : /\ a = work[c].action
                        /\ pending[a] \in Record
                        /\ pending[a].thread = req[c].thread
                        /\ pending[a].proposal = work[c].proposal
  BY <1>1 DEF CallInv, Sound
<1>3. work[c].decision = "approved" => \E d \in Call : Approver(d, a)'
  BY <1>1, <1>2 DEF CallInv, Monotone
<1>4. CASE ResolveRecord(c)
  <2>1. /\ phase'[c] = "logDecision" /\ work'[c] = work[c]
        /\ pending'[a] = [pending[a] EXCEPT !.status = work[c].decision]
    BY <1>2, <1>4 DEF ResolveRecord, Goto, IInv, TypeOK
  <2>2. pending'[a].status = work[c].decision
    BY <1>2, <2>1 DEF Record
  <2>3. Sound(work[c], req[c].thread)'
    <3>1. PICK k, t : k = work[c] /\ t = req[c].thread
      OBVIOUS
    <3>2. Sound(k, t)'
      BY <1>1, <3>1, SoundStays, <1>4 DEF CallInv, ResolveRecord
    <3> QED
      BY <1>1, <2>1, <3>1, <3>2 DEF Sound, Approver
  <2> QED
    BY <1>1, <1>2, <1>3, <2>1, <2>2, <2>3 DEF CallInv, Approver
<1>5. CASE ResolveNothing(c) \/ LogDecision(c)
  <2>1. /\ phase'[c] = "execute" /\ UNCHANGED pending
        /\ work'[c] = [work[c] EXCEPT !.next = "execute", !.kept = "none"]
    BY <1>5 DEF ResolveNothing, LogDecision, Goto, NodeReturns, storeVars, IInv, TypeOK
  <2>2. /\ work'[c].next = "execute" /\ work'[c].kept = "none" /\ work'[c].action = a
        /\ work'[c].proposal = work[c].proposal /\ work'[c].decision = work[c].decision
    BY <1>1, <1>2, <2>1 DEF Checkpoint
  <2>3. pending[a].status \in Vote
    BY <1>1, <1>2, <1>5 DEF ResolveNothing, LogDecision, CallInv, Record
  <2>4. req'[c].kind = "decide"
    BY <1>1 DEF CallInv
  <2>5. Sound(work[c], req[c].thread)'
    BY <1>1, <1>2, <1>3, <2>1, <2>2, <2>3 DEF Sound, Approver
  <2> QED
    BY <2>1, <2>2, <2>4, <2>5 DEF CallInv
<1> QED
  BY <1>4, <1>5

LEMMA ExecuteKeepsCallInv ==
    ASSUME IInv, NEW c \in Call,
           \/ FinishRejected(c) \/ AuditExecution(c) \/ CallTool(c)
           \/ FinishExecuted(c) \/ FinishRefused(c)
    PROVE  CallInv(c)'
<1>1. /\ CallInv(c) /\ Monotone /\ work[c] \in Checkpoint
      /\ UNCHANGED <<req, pending>>
      /\ phase[c] \in {"execute", "acting", "acted", "refused"}
  BY CallInvIsIInv, StepMonotone DEF IInv, TypeOK, Step, Progress, RunNode,
     FinishRejected, AuditExecution, CallTool, FinishExecuted, FinishRefused,
     storeVars
<1>2. CASE FinishRejected(c) \/ FinishExecuted(c) \/ FinishRefused(c)
  <2>1. PICK r : work'[c] = [work[c] EXCEPT !.next = "end", !.result = r]
    BY <1>2 DEF FinishRejected, FinishExecuted, FinishRefused, Finish, NodeReturns, IInv, TypeOK
  <2>2. phase'[c] = "exit" /\ work'[c].next = "end"
    BY <1>1, <1>2, <2>1 DEF FinishRejected, FinishExecuted, FinishRefused,
       Finish, Exit, Goto, IInv, TypeOK,
       Checkpoint
  <2> QED
    BY <2>2 DEF CallInv, Sound
<1>3. CASE AuditExecution(c) \/ CallTool(c)
  <2>1. PICK k, t : k = work[c] /\ t = req[c].thread
    OBVIOUS
  <2>2. Sound(k, t)'
    BY <1>1, <2>1, SoundStays DEF CallInv
  <2>3. /\ phase'[c] \in {"acting", "acted"} /\ work'[c] = work[c]
        /\ work[c].decision = "approved"
        /\ [type |-> "executed", call |-> c, action |-> work[c].action] \in events'
    BY <1>1, <1>3 DEF AuditExecution, CallTool, Goto, Log, CallInv, storeVars, IInv, TypeOK
  <2>4. Sound(work[c], req[c].thread)'
    BY <1>1, <2>1, <2>2, <2>3 DEF Sound, Approver
  <2> QED
    BY <1>1, <2>3, <2>4 DEF CallInv
<1> QED
  BY <1>2, <1>3

LEMMA StepKeepsCallInv ==
    ASSUME IInv, NEW c \in Call, Step(c)
    PROVE  CallInv(c)'
<1> DEFINE Leaves == \/ ProposeKeyError(c) \/ Interrupt(c) \/ RecordFailure(c)
                     \/ Fault(c) \/ Respond(c)
<1>1. CASE Leaves
  <2>1. /\ phase[c] # "idle" /\ UNCHANGED <<req, work>>
        /\ phase'[c] \in {"exit", "dead", "done", "failing", "refused"}
        /\ phase'[c] \in {"failing", "refused"} => phase[c] \in {"execute", "acting"}
    BY <1>1 DEF ProposeKeyError, Interrupt, RecordFailure, Respond, Fault, ToolRaises,
       StoreRaises, StoreRaisesInApproval, StoreRaisesInGuard,
         ToolRefuses, ToolNotConfigured, CheckpointRaises, Crash, InFlight, Exit, Goto,
       IInv, TypeOK
  <2> QED
    BY <2>1, LeaveKeepsCallInv
<1>2. CASE SaveCheckpoint(c)
  <2>1. CallInv(c) /\ UNCHANGED <<phase, req, work, pending, events>>
    BY <1>2, CallInvIsIInv DEF SaveCheckpoint, storeVars, IInv
  <2> QED
    BY <2>1 DEF CallInv, Sound, Approver
<1> QED
  BY <1>1, <1>2, ArriveKeepsCallInv, InvokeKeepsCallInv, ProposeKeepsCallInv,
     ApprovalKeepsCallInv, ExecuteKeepsCallInv DEF Step, Progress, RunNode

-----------------------------------------------------------------------------
(***************************************************************************)
(* What a step adds to the shared state                                    *)
(***************************************************************************)

\* Only LogDecision writes a decision to the audit log.
LEMMA NewDecisionEvents ==
    ASSUME TypeOK, NEW c \in Call, Step(c), NEW e \in events', e.type \in Vote, e \notin events
    PROVE  /\ LogDecision(c)
           /\ e = [type |-> work[c].decision, call |-> c, action |-> work[c].action]
BY DEF Step, Arrive, ReceivePropose, ReceiveDecision, Progress, SaveCheckpoint, Respond,
       Invoke, InvokeStart, ResumeUnknown, ResumePaused, ResumeUnfinished, ResumeFinished,
       RunNode, ProposeKeyError, InsertRecord, LogProposed, Interrupt, ResolveRecord,
       ResolveNothing, LogDecision, FinishRejected, AuditExecution, CallTool,
       FinishExecuted, FinishRefused, RecordFailure, Log, storeVars, Vote,
       Fault, ToolRaises, StoreRaises, StoreRaisesInApproval, StoreRaisesInGuard,
         ToolRefuses, ToolNotConfigured, CheckpointRaises, Crash

\* Only a call that is at the tool makes an effect.
LEMMA NewEffects ==
    ASSUME NEW c \in Call, Step(c), NEW e \in effects', e \notin effects
    PROVE  phase[c] = "acting" /\ e = EffectOf(c)
BY DEF Step, Arrive, ReceivePropose, ReceiveDecision, Progress, SaveCheckpoint, Respond,
       Invoke, InvokeStart, ResumeUnknown, ResumePaused, ResumeUnfinished, ResumeFinished,
       RunNode, ProposeKeyError, InsertRecord, LogProposed, Interrupt, ResolveRecord,
       ResolveNothing, LogDecision, FinishRejected, AuditExecution, CallTool,
       FinishExecuted, FinishRefused, RecordFailure, storeVars,
       Fault, ToolRaises, StoreRaises, StoreRaisesInApproval, StoreRaisesInGuard,
         ToolRefuses, ToolNotConfigured, CheckpointRaises, Crash

\* Only ResolveRecord brings a call to the point of logging a decision.
LEMMA NewDeciders ==
    ASSUME TypeOK, NEW c \in Call, Step(c), phase'[c] = "logDecision"
    PROVE  /\ work'[c] = work[c]
           /\ ResolveRecord(c) \/ phase[c] = "logDecision"
<1> USE DEF TypeOK, Goto, Exit
<1>1. CASE Arrive(c)
  BY <1>1 DEF Arrive, ReceivePropose, ReceiveDecision
<1>2. CASE Invoke(c)
  <2>1. InvokeStart(c) \/ ResumeUnknown(c) \/ ResumeFinished(c) =>
            phase'[c] \in {"propose", "exit"}
    BY DEF InvokeStart, ResumeUnknown, ResumeFinished
  <2>2. ResumeUnfinished(c) => phase'[c] \in {"propose", "execute"}
    BY DEF ResumeUnfinished
  <2>3. ResumePaused(c) => phase'[c] = "resolve"
    BY DEF ResumePaused
  <2> QED
    BY <1>2, <2>1, <2>2, <2>3 DEF Invoke
<1>3. CASE RunNode(c)
  BY <1>3 DEF RunNode, ProposeKeyError, InsertRecord, LogProposed, Interrupt, ResolveRecord,
         ResolveNothing, LogDecision, FinishRejected, AuditExecution, CallTool,
         FinishExecuted, FinishRefused, RecordFailure, Finish
<1>4. CASE Fault(c)
  BY <1>4 DEF Fault, ToolRaises, StoreRaises, StoreRaisesInApproval, StoreRaisesInGuard,
         ToolRefuses, ToolNotConfigured, CheckpointRaises, Crash
<1>5. CASE SaveCheckpoint(c) \/ Respond(c)
  BY <1>5 DEF SaveCheckpoint, Respond
<1> QED
  BY <1>1, <1>2, <1>3, <1>4, <1>5 DEF Step, Progress

-----------------------------------------------------------------------------
(***************************************************************************)
(* What a step of c does to the clauses about the shared state             *)
(***************************************************************************)

LEMMA StepKeepsSoundCheckpoints ==
    ASSUME IInv, NEW c \in Call, Step(c)
    PROVE  SoundCheckpoints'
<1> SUFFICES ASSUME NEW t \in Thread
             PROVE  Sound(checkpoint[t], t)'
  BY DEF SoundCheckpoints
<1>1. PICK k : k = checkpoint[t]
  OBVIOUS
<1>2. Monotone /\ Sound(k, t) /\ k \in Checkpoint
  BY <1>1, StepMonotone DEF IInv, SoundCheckpoints, TypeOK
<1>3. Sound(k, t)'
  BY <1>2, SoundStays
<1>4. CASE checkpoint'[t] = checkpoint[t]
  BY <1>1, <1>3, <1>4 DEF Sound, Approver
<1>5. CASE SaveCheckpoint(c) /\ t = req[c].thread
  <2>1. /\ checkpoint'[t] = work[c] /\ UNCHANGED <<pending, req, work>>
        /\ phase[c] # "idle"
    BY <1>5 DEF SaveCheckpoint, storeVars, InFlight, IInv, TypeOK
  <2>2. Sound(work[c], t)
    BY <1>5, <2>1 DEF IInv, SoundWork
  <2> QED
    BY <2>1, <2>2 DEF Sound, Approver
<1>6. CASE StoreRaisesInApproval(c) /\ t = req[c].thread /\ checkpoint'[t] # checkpoint[t]
  <2>1. /\ checkpoint'[t] = [k EXCEPT !.kept = work[c].decision]
        /\ k.next = "approval" /\ k.action = work[c].action
        /\ UNCHANGED <<pending, req, work>>
        /\ phase[c] \in {"resolve", "logDecision"}
    BY <1>1, <1>6 DEF StoreRaisesInApproval, storeVars, IInv, TypeOK
  <2>2. /\ checkpoint'[t].next = "approval" /\ checkpoint'[t].action = k.action
        /\ checkpoint'[t].proposal = k.proposal /\ checkpoint'[t].kept = work[c].decision
    BY <1>2, <2>1 DEF Checkpoint
  <2>3. work[c].decision = "approved" => \E d \in Call : Approver(d, k.action)
    BY <2>1 DEF IInv, MidNode
  <2> QED
    BY <1>2, <2>1, <2>2, <2>3 DEF Sound, Approver
<1>7. \/ checkpoint'[t] = checkpoint[t]
      \/ SaveCheckpoint(c) /\ t = req[c].thread
      \/ StoreRaisesInApproval(c) /\ t = req[c].thread /\ checkpoint'[t] # checkpoint[t]
  BY DEF Step, Arrive, ReceivePropose, ReceiveDecision, Progress, SaveCheckpoint, Respond,
       Invoke, InvokeStart, ResumeUnknown, ResumePaused, ResumeUnfinished, ResumeFinished,
       RunNode, ProposeKeyError, InsertRecord, LogProposed, Interrupt, ResolveRecord,
       ResolveNothing, LogDecision, FinishRejected, AuditExecution, CallTool,
       FinishExecuted, FinishRefused, RecordFailure, IInv, TypeOK,
       Fault, ToolRaises, StoreRaises, StoreRaisesInApproval, StoreRaisesInGuard,
         ToolRefuses, ToolNotConfigured, CheckpointRaises, Crash
<1> QED
  BY <1>4, <1>5, <1>6, <1>7

\* Of two calls that resolve the same record, the UPDATE lets one through.
LEMMA StepKeepsOneDecider ==
    ASSUME IInv, NEW c \in Call, Step(c)
    PROVE  OneDecider'
<1>1. SUFFICES ASSUME NEW d \in Call, phase'[d] = "logDecision"
               PROVE  /\ \A f \in events' : f.type \in Vote => f.action # work'[d].action
                      /\ \A e \in Call :
                             phase'[e] = "logDecision" /\ work'[e].action = work'[d].action
                                 => e = d
  BY DEF OneDecider
<1>2. \A e \in Call : phase'[e] = "logDecision" =>
          /\ work'[e] = work[e]
          /\ phase[e] = "logDecision" \/ (e = c /\ ResolveRecord(c))
  BY OthersUntouched, NewDeciders DEF Others, IInv
<1>3. CASE ResolveRecord(c)
  <2>1. UNCHANGED events /\ pending[work[c].action].status = "pending"
    BY <1>3 DEF ResolveRecord
  <2>2. pending[work[c].action].status \notin Vote
    BY <2>1 DEF Vote
  <2>3. \A f \in events : f.type \in Vote => f.action # work[c].action
    BY <2>2 DEF IInv, OneDecisionEvent
  <2>4. ASSUME NEW e \in Call, phase[e] = "logDecision"
        PROVE  work[e].action # work[c].action
    <3>1. work[e].decision \in Vote
      BY <2>4 DEF IInv, DecisionAtHand
    <3>2. pending[work[e].action].status = work[e].decision
      BY <2>4 DEF IInv, MidNode
    <3> QED
      BY <2>2, <3>1, <3>2
  <2> QED
    BY <1>1, <1>2, <2>1, <2>3, <2>4 DEF IInv, OneDecider
<1>4. CASE LogDecision(c)
  <2>1. phase'[c] = "execute" /\ phase[c] = "logDecision" /\ ~ResolveRecord(c)
    BY <1>4 DEF LogDecision, ResolveRecord, Goto, IInv, TypeOK
  <2>2. \A e \in Call : phase'[e] = "logDecision" => e # c /\ phase[e] = "logDecision"
    BY <1>2, <2>1
  <2>3. \A f \in events' : f \in events \/ f.action = work[c].action
    BY <1>4 DEF LogDecision, Log
  <2>4. work[d].action # work[c].action
    BY <1>1, <2>1, <2>2 DEF IInv, OneDecider
  <2> QED
    BY <1>1, <1>2, <2>2, <2>3, <2>4 DEF IInv, OneDecider
<1>5. CASE ~ResolveRecord(c) /\ ~LogDecision(c)
  <2>1. \A f \in events' : f.type \in Vote => f \in events
    BY <1>5, NewDecisionEvents DEF IInv
  <2> QED
    BY <1>1, <1>2, <1>5, <2>1 DEF IInv, OneDecider
<1> QED
  BY <1>3, <1>4, <1>5

LEMMA StepKeepsOneDecisionEvent ==
    ASSUME IInv, NEW c \in Call, Step(c)
    PROVE  /\ \A e \in events' : e.type \in Vote =>
                  e.action \in Call /\ pending'[e.action] \in Record
           /\ OneDecisionEvent'
<1>1. Monotone
  BY StepMonotone
<1>2. \A e \in events : e.type \in Vote =>
          /\ e.action \in Call /\ pending'[e.action] \in Record
          /\ pending'[e.action].status = e.type
          /\ \A f \in events : f.type \in Vote /\ f.action = e.action => f = e
  BY <1>1 DEF IInv, NamedRecords, OneDecisionEvent, Monotone
<1>3. CASE LogDecision(c)
  <2>1. /\ phase[c] = "logDecision" /\ UNCHANGED pending
        /\ events' = events \cup
               {[type |-> work[c].decision, call |-> c, action |-> work[c].action]}
    BY <1>3 DEF LogDecision, Log
  <2>2. /\ work[c].action \in Call /\ pending[work[c].action] \in Record
        /\ pending[work[c].action].status = work[c].decision
    BY <2>1 DEF IInv, SoundWork, NodeOfPhase, MidNode, Sound
  <2>3. \A f \in events : f.type \in Vote => f.action # work[c].action
    BY <2>1 DEF IInv, OneDecider
  <2> QED
    BY <1>2, <2>1, <2>2, <2>3 DEF OneDecisionEvent
<1>4. CASE ~LogDecision(c)
  <2>1. \A f \in events' : f.type \in Vote => f \in events
    BY <1>4, NewDecisionEvents DEF IInv
  <2> QED
    BY <1>2, <2>1 DEF OneDecisionEvent
<1> QED
  BY <1>3, <1>4

\* An effect keeps what was true of it, and a new one is made by a call that
\* holds an approved, recorded and audited action.
LEMMA StepKeepsEffects ==
    ASSUME IInv, NEW c \in Call, Step(c)
    PROVE  /\ \A e \in effects' : e.action \in Call /\ pending'[e.action] \in Record
           /\ NoEffectWithoutApproval'
           /\ ExecutesWhatWasRecorded'
           /\ EffectIsAudited'
<1> DEFINE Good(e) == /\ req'[e.call] = req[e.call]
                      /\ e.action \in Call /\ pending[e.action] \in Record
                      /\ req[e.call].kind = "decide"
                      /\ pending[e.action].status \in Vote
                      /\ \E d \in Call : Approver(d, e.action)
                      /\ pending[e.action].proposal = e.proposal
                      /\ pending[e.action].thread = req[e.call].thread
                      /\ [type |-> "executed", call |-> e.call, action |-> e.action] \in events
<1>1. Monotone
  BY StepMonotone
<1>2. ASSUME NEW e \in effects
      PROVE  Good(e)
  <2>1. e.call \in Call /\ req[e.call].kind = "decide"
    BY DEF IInv, TypeOK, Effect, NoEffectWithoutApproval
  <2>2. phase[e.call] # "idle"
    BY <2>1 DEF IInv, FreshCalls, NoRequest
  <2>3. req'[e.call] = req[e.call]
    <3>1. CASE e.call # c
      BY <2>1, <3>1, OthersUntouched DEF Others, IInv
    <3>2. CASE e.call = c
      BY <2>2, <3>2 DEF Step, Arrive, ReceivePropose, ReceiveDecision, MayArrive, Progress,
         SaveCheckpoint, Respond,
         Invoke, InvokeStart, ResumeUnknown, ResumePaused, ResumeUnfinished, ResumeFinished,
         RunNode, ProposeKeyError, InsertRecord, LogProposed, Interrupt, ResolveRecord,
         ResolveNothing, LogDecision, FinishRejected, AuditExecution, CallTool,
         FinishExecuted, FinishRefused, RecordFailure,
         Fault, ToolRaises, StoreRaises, StoreRaisesInApproval, StoreRaisesInGuard,
         ToolRefuses, ToolNotConfigured, CheckpointRaises, Crash
    <3> QED
      BY <3>1, <3>2
  <2> QED
    BY <2>1, <2>3 DEF IInv, NamedRecords, NoEffectWithoutApproval, ExecutesWhatWasRecorded,
       EffectIsAudited
<1>3. ASSUME NEW e \in effects', e \notin effects
      PROVE  Good(e)
  <2>1. phase[c] = "acting" /\ e = EffectOf(c)
    BY <1>3, NewEffects
  <2>2. e.call = c /\ e.action = work[c].action /\ e.proposal = work[c].proposal
    BY <2>1 DEF EffectOf
  <2>3. req'[c] = req[c]
    BY <2>1 DEF Step, Arrive, ReceivePropose, ReceiveDecision, MayArrive, Progress,
         SaveCheckpoint, Respond,
         Invoke, InvokeStart, ResumeUnknown, ResumePaused, ResumeUnfinished, ResumeFinished,
         RunNode, ProposeKeyError, InsertRecord, LogProposed, Interrupt, ResolveRecord,
         ResolveNothing, LogDecision, FinishRejected, AuditExecution, CallTool,
         FinishExecuted, FinishRefused, RecordFailure,
         Fault, ToolRaises, StoreRaises, StoreRaisesInApproval, StoreRaisesInGuard,
         ToolRefuses, ToolNotConfigured, CheckpointRaises, Crash
  <2>4. work[c].next = "execute" /\ work[c].decision = "approved" /\ req[c].kind = "decide"
    BY <2>1 DEF IInv, NodeOfPhase, MidNode
  <2>5. Sound(work[c], req[c].thread)
    BY <2>1 DEF IInv, SoundWork
  <2>6. [type |-> "executed", call |-> c, action |-> work[c].action] \in events
    BY <2>1 DEF IInv, MidNode
  <2> QED
    BY <2>2, <2>3, <2>4, <2>5, <2>6 DEF Sound
<1>4. ASSUME NEW e \in effects'
      PROVE  /\ e.action \in Call /\ pending'[e.action] \in Record
             /\ req'[e.call].kind = "decide"
             /\ pending'[e.action].status \in Vote
             /\ \E d \in Call : Approver(d, e.action)'
             /\ pending'[e.action].proposal = e.proposal
             /\ pending'[e.action].thread = req'[e.call].thread
             /\ [type |-> "executed", call |-> e.call, action |-> e.action] \in events'
  <2>1. Good(e)
    BY <1>2, <1>3
  <2> QED
    BY <1>1, <2>1 DEF Monotone
<1>5. NoRecord \notin Record
  BY DEF NoRecord, Record
<1>6. NoEffectWithoutApproval'
  BY <1>4 DEF NoEffectWithoutApproval, Approver
<1> QED
  BY <1>4, <1>5, <1>6 DEF ExecutesWhatWasRecorded, EffectIsAudited

-----------------------------------------------------------------------------
(***************************************************************************)
(* The theorems                                                            *)
(***************************************************************************)

LEMMA InitIInv == Init => IInv
<1> SUFFICES ASSUME Init
             PROVE  IInv
  OBVIOUS
<1>1. TypeOK
  BY InitTypeOK
<1>2. SoundCheckpoints /\ SoundWork
  BY DEF Init, SoundCheckpoints, SoundWork, Sound, NoCheckpoint
<1>3. DecisionAtHand /\ FreshCalls /\ NodeOfPhase /\ MidNode /\ OneDecider
  BY DEF Init, DecisionAtHand, FreshCalls, NodeOfPhase, MidNode, OneDecider
<1>4. /\ NamedRecords /\ NoEffectWithoutApproval /\ ExecutesWhatWasRecorded
      /\ EffectIsAudited /\ OneDecisionEvent
  BY DEF Init, NamedRecords, NoEffectWithoutApproval, ExecutesWhatWasRecorded,
     EffectIsAudited, OneDecisionEvent
<1> QED
  BY <1>1, <1>2, <1>3, <1>4 DEF IInv

LEMMA StepKeepsIInv ==
    ASSUME IInv, NEW c \in Call, Step(c)
    PROVE  IInv'
<1>1. TypeOK' /\ DecisionAtHand'
  BY TypeStep DEF IInv, Next, Step
<1>2. \A d \in Call : CallInv(d)'
  BY OthersKeepCallInv, StepKeepsCallInv
<1>3. FreshCalls' /\ NodeOfPhase' /\ SoundWork' /\ MidNode'
  BY <1>2 DEF CallInv, FreshCalls, NodeOfPhase, SoundWork, MidNode
<1>4. NamedRecords'
  BY StepKeepsOneDecisionEvent, StepKeepsEffects DEF NamedRecords
<1> QED
  BY <1>1, <1>3, <1>4, StepKeepsSoundCheckpoints,
     StepKeepsOneDecider, StepKeepsOneDecisionEvent, StepKeepsEffects DEF IInv

LEMMA StutterKeepsIInv == IInv /\ UNCHANGED vars => IInv'
BY DEF vars, callVars, storeVars, IInv, TypeOK, DecisionAtHand, FreshCalls, NodeOfPhase,
   SoundCheckpoints, SoundWork, Sound, MidNode, OneDecider, NamedRecords, Approver,
   NoEffectWithoutApproval, ExecutesWhatWasRecorded, EffectIsAudited, OneDecisionEvent

\* The invariant holds of every instance of the gate, whatever the number of
\* calls and threads, the faults that occur and the discipline of the clients.
THEOREM InvariantHolds == Spec => []IInv
<1>1. IInv /\ [Next]_vars => IInv'
  BY StepKeepsIInv, StutterKeepsIInv DEF Next, Step
<1> QED
  BY InitIInv, <1>1, PTL DEF Spec

\* No write leaves the gate without a delivered approval and a stored
\* decision on its record.
THEOREM GateHolds == Spec => []NoEffectWithoutApproval
<1>1. IInv => NoEffectWithoutApproval
  BY DEF IInv
<1> QED
  BY InvariantHolds, <1>1, PTL

\* What is executed is what the decided record holds.
THEOREM PayloadIsTheRecorded == Spec => []ExecutesWhatWasRecorded
<1>1. IInv => ExecutesWhatWasRecorded
  BY DEF IInv
<1> QED
  BY InvariantHolds, <1>1, PTL

\* The audit log is ahead of the external systems.
THEOREM AuditIsComplete == Spec => []EffectIsAudited
<1>1. IInv => EffectIsAudited
  BY DEF IInv
<1> QED
  BY InvariantHolds, <1>1, PTL

\* The audit log never holds two decisions on one record.
THEOREM DecisionIsLoggedOnce == Spec => []OneDecisionEvent
<1>1. IInv => OneDecisionEvent
  BY DEF IInv
<1> QED
  BY InvariantHolds, <1>1, PTL

\* A stored decision is never overwritten.
THEOREM DecisionStays == Spec => DecisionIsFinal
<1>1. IInv /\ [Next]_vars =>
          [\A a \in Call : pending[a].status \in Vote => pending'[a] = pending[a]]_pending
  <2> SUFFICES ASSUME IInv, [Next]_vars, pending' # pending,
                      NEW a \in Call, pending[a].status \in Vote
               PROVE  pending'[a] = pending[a]
    OBVIOUS
  <2>1. PICK c \in Call : Step(c)
    BY DEF Next, Step, vars, storeVars
  <2>2. pending[a] \in Record
    BY DEF IInv, TypeOK, NoRecord, Vote
  <2> QED
    BY <2>1, <2>2, RecordsMonotone
<1> QED
  BY InvariantHolds, <1>1, PTL DEF Spec, DecisionIsFinal
-----------------------------------------------------------------------------
(***************************************************************************)
(* What a step is, for the proofs of other properties                      *)
(***************************************************************************)

\* A state, put together field by field.
LEMMA Fields ==
    ASSUME NEW k \in Checkpoint, NEW c, NEW x
    PROVE  /\ [k EXCEPT !.next = "propose", !.proposal = c, !.kept = "none"].next = "propose"
           /\ [k EXCEPT !.next = "propose", !.proposal = c, !.kept = "none"].proposal = c
           /\ [k EXCEPT !.next = "propose", !.proposal = c, !.kept = "none"].decision = k.decision
           /\ [k EXCEPT !.next = "propose", !.proposal = c, !.kept = "none"].kept = "none"
           /\ [k EXCEPT !.next = "approval", !.action = c].next = "approval"
           /\ [k EXCEPT !.next = "approval", !.action = c].action = c
           /\ [k EXCEPT !.next = "approval", !.action = c].proposal = k.proposal
           /\ [k EXCEPT !.next = "approval", !.action = c].decision = k.decision
           /\ [k EXCEPT !.next = "approval", !.action = c].kept = k.kept
           /\ [k EXCEPT !.decision = x].next = k.next
           /\ [k EXCEPT !.decision = x].action = k.action
           /\ [k EXCEPT !.decision = x].proposal = k.proposal
           /\ [k EXCEPT !.decision = x].decision = x
           /\ [k EXCEPT !.decision = x].kept = k.kept
           /\ [k EXCEPT !.kept = x].next = k.next
           /\ [k EXCEPT !.kept = x].action = k.action
           /\ [k EXCEPT !.kept = x].proposal = k.proposal
           /\ [k EXCEPT !.kept = x].decision = k.decision
           /\ [k EXCEPT !.kept = x].kept = x
           /\ [k EXCEPT !.kept = x].result = k.result
           /\ [k EXCEPT !.next = "execute", !.kept = "none"].next = "execute"
           /\ [k EXCEPT !.next = "execute", !.kept = "none"].action = k.action
           /\ [k EXCEPT !.next = "execute", !.kept = "none"].proposal = k.proposal
           /\ [k EXCEPT !.next = "execute", !.kept = "none"].decision = k.decision
           /\ [k EXCEPT !.next = "execute", !.kept = "none"].kept = "none"
           /\ [k EXCEPT !.next = "end", !.result = x].next = "end"
           /\ [k EXCEPT !.next = "end", !.result = x].action = k.action
           /\ [k EXCEPT !.next = "end", !.result = x].proposal = k.proposal
           /\ [k EXCEPT !.next = "end", !.result = x].decision = k.decision
           /\ [k EXCEPT !.next = "end", !.result = x].kept = k.kept
           /\ [k EXCEPT !.next = "end", !.result = x].result = x
BY DEF Checkpoint

\* What the invariants say of one call that is at work.
LEMMA WorkFacts ==
    ASSUME IInv, NEW c \in Call, phase[c] # "idle"
    PROVE  /\ req[c] \in Request /\ req[c].thread \in Thread /\ work[c] \in Checkpoint
           /\ checkpoint[req[c].thread] \in Checkpoint
           /\ Sound(work[c], req[c].thread) /\ Sound(checkpoint[req[c].thread], req[c].thread)
BY RequestThread DEF IInv, TypeOK, SoundWork, SoundCheckpoints

LEMMA RecordIsThere ==
    ASSUME IInv, NEW a \in Call
    PROVE  pending[a] # NoRecord <=> pending[a] \in Record
<1>1. \A r \in Record : r.status # "absent"
  BY DEF Record, Vote
<1>2. NoRecord.status = "absent"
  BY DEF NoRecord
<1> QED
  BY <1>1, <1>2 DEF IInv, TypeOK

\* The record of a state that is past the proposal.
LEMMA SoundRecord ==
    ASSUME IInv, NEW k, NEW t, Sound(k, t), k.next \in {"approval", "execute"}
    PROVE  k.action \in RecordsOf(t)
BY RecordIsThere DEF Sound, RecordsOf

LEMMA RecordsOfIs ==
    ASSUME IInv, NEW a, NEW t
    PROVE  a \in RecordsOf(t) <=> a \in Call /\ pending[a] \in Record /\ pending[a].thread = t
BY RecordIsThere DEF RecordsOf

\* The table of pending actions is written by two statements.
LEMMA RecordsChange ==
    ASSUME NEW c \in Call, Step(c)
    PROVE  InsertRecord(c) \/ ResolveRecord(c) \/ pending' = pending
BY DEF Step, Arrive, ReceivePropose, ReceiveDecision, Progress, SaveCheckpoint, Respond,
       Invoke, InvokeStart, ResumeUnknown, ResumePaused, ResumeUnfinished, ResumeFinished,
       RunNode, ProposeKeyError, LogProposed, Interrupt,
       ResolveNothing, LogDecision, FinishRejected, AuditExecution, CallTool,
       FinishExecuted, FinishRefused, RecordFailure, storeVars,
       Fault, ToolRaises, StoreRaises, StoreRaisesInApproval, StoreRaisesInGuard,
       ToolRefuses, ToolNotConfigured, CheckpointRaises, Crash

\* Who takes a step is at work, or arrives.
LEMMA StepperIsBusy ==
    ASSUME NEW c \in Call, Step(c)
    PROVE  \/ phase[c] = "idle" /\ Arrive(c)
           \/ InFlight(c) /\ (Progress(c) \/ Fault(c))
<1>1. Arrive(c) => phase[c] = "idle"
  BY DEF Arrive, ReceivePropose, ReceiveDecision, MayArrive
<1>2. Invoke(c) => phase[c] = "received"
  BY DEF Invoke, InvokeStart, ResumeUnknown, ResumePaused, ResumeUnfinished, ResumeFinished
<1>3. RunNode(c) => phase[c] \notin {"idle", "done", "dead"}
  BY DEF RunNode, ProposeKeyError, InsertRecord, LogProposed, Interrupt, ResolveRecord,
     ResolveNothing, LogDecision, FinishRejected, AuditExecution, CallTool,
     FinishExecuted, FinishRefused, RecordFailure
<1>4. Fault(c) => phase[c] \notin {"idle", "done", "dead"}
  BY DEF Fault, ToolRaises, StoreRaises, StoreRaisesInApproval, StoreRaisesInGuard,
     ToolRefuses, ToolNotConfigured, CheckpointRaises, Crash, InFlight
<1>5. SaveCheckpoint(c) \/ Respond(c) => phase[c] \notin {"idle", "done", "dead"}
  BY DEF SaveCheckpoint, Respond, InFlight
<1> QED
  BY <1>1, <1>2, <1>3, <1>4, <1>5 DEF Step, Progress, InFlight

LEMMA ArrivalIs ==
    ASSUME TypeOK, NEW c \in Call, Arrive(c)
    PROVE  /\ phase[c] = "idle" /\ phase' = [phase EXCEPT ![c] = "received"]
           /\ UNCHANGED <<work, unsaved, reply, checkpoint, pending, events, status, effects>>
           /\ \A d \in Call : d # c => req'[d] = req[d]
BY DEF Arrive, ReceivePropose, ReceiveDecision, MayArrive, Goto, storeVars, TypeOK
=============================================================================
