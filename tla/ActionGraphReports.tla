------------------------- MODULE ActionGraphReports -------------------------
(***************************************************************************)
(* "executed" is never claimed of a write that did not take place: for any *)
(* calls, threads, faults and client discipline.                           *)
(***************************************************************************)
EXTENDS ActionGraphSafety

Made(p) == \E e \in effects : e.proposal = p
Claims(k) == k.next = "end" /\ k.result = "executed"

\* What a claim rests on, wherever it is on its way: in a call behind its tool
\* call, in the memory of an invocation, in a checkpoint, in a status row or in
\* an answer, which comes last.
AnsweredLast == \A c \in Call : reply[c] # "none" => phase[c] \in {"exit", "done", "dead"}
ActedMade == \A c \in Call : phase[c] = "acted" => EffectOf(c) \in effects
WorkClaims == \A c \in Call : Claims(work[c]) => Made(work[c].proposal)
ReplyClaims == \A c \in Call : reply[c] = "executed" => Made(work[c].proposal)
ThreadClaims == \A t \in Thread : Claims(checkpoint[t]) => Made(checkpoint[t].proposal)
StatusClaims == \A t \in Thread : status[t] = "executed" => \E e \in effects : req[e.call].thread = t

ReportsInv ==
    /\ AnsweredLast
    /\ ActedMade
    /\ WorkClaims
    /\ ReplyClaims
    /\ ThreadClaims
    /\ StatusClaims

-----------------------------------------------------------------------------
LEMMA MadeStays ==
    ASSUME effects \subseteq effects', NEW p, Made(p)
    PROVE  Made(p)'
BY DEF Made

\* The shared rows a step of c may write are those of its own thread, and the
\* answers of others stay; so do their unsaved checkpoints, unless the one of c
\* is newer.
LEMMA StepFrame ==
    ASSUME TypeOK, NEW c \in Call, Step(c)
    PROVE  /\ \A d \in Call : d # c =>
                  /\ reply'[d] = reply[d]
                  /\ unsaved'[d] = unsaved[d] \/ (SaveCheckpoint(c) /\ d \in Overlapping(c))
           /\ phase[c] # "idle" => req' = req
           /\ \A t \in Thread : phase[c] = "idle" \/ t # req[c].thread =>
                  checkpoint'[t] = checkpoint[t] /\ status'[t] = status[t]
<1> USE DEF TypeOK, Goto, Exit, NodeReturns, storeVars
<1>1. CASE Arrive(c)
  BY <1>1 DEF Arrive, ReceivePropose, ReceiveDecision, MayArrive
<1>2. CASE Invoke(c)
  BY <1>2 DEF Invoke, InvokeStart, ResumeUnknown, ResumePaused, ResumeUnfinished, ResumeFinished
<1>3. CASE RunNode(c)
  BY <1>3 DEF RunNode, ProposeKeyError, InsertRecord, LogProposed, Interrupt, ResolveRecord,
         ResolveNothing, LogDecision, FinishRejected, AuditExecution, CallTool,
         FinishExecuted, FinishRefused, RecordFailure, Finish
<1>4. CASE Fault(c)
  BY <1>4 DEF Fault, ToolRaises, StoreRaises, StoreRaisesInApproval, StoreRaisesInGuard,
         ToolRefuses, ToolNotConfigured, CheckpointRaises, Crash, InFlight
<1>5. CASE SaveCheckpoint(c) \/ Respond(c)
  BY <1>5 DEF SaveCheckpoint, Respond, InFlight, Overlapping
<1> QED
  BY <1>1, <1>2, <1>3, <1>4, <1>5 DEF Step, Progress

\* An effect's call has its request for good.
LEMMA EffectsKeepThread ==
    ASSUME IInv, NEW c \in Call, Step(c), NEW e \in effects, NEW t
    PROVE  e \in effects' /\ (req[e.call].thread = t => req'[e.call].thread = t)
<1>1. e.call \in Call /\ req[e.call].kind = "decide"
  BY DEF IInv, TypeOK, Effect, NoEffectWithoutApproval
<1>2. phase[e.call] # "idle"
  BY <1>1 DEF IInv, FreshCalls, NoRequest
<1>3. req'[e.call] = req[e.call]
  BY <1>1, <1>2, OthersUntouched, StepFrame DEF IInv, Others
<1> QED
  BY <1>3, StepMonotone DEF Monotone

\* How a step changes what its call holds.
LEMMA WorkChanges ==
    ASSUME IInv, NEW c \in Call, Step(c)
    PROVE  \/ work' = work
           \/ work'[c].next \in {"propose", "approval", "execute"} /\ phase[c] \notin {"exit", "done", "dead"}
           \/ /\ phase[c] = "received" /\ ResumeFinished(c)
              /\ req[c].thread \in Thread /\ work'[c] = checkpoint[req[c].thread]
           \/ /\ phase[c] = "acted" /\ FinishExecuted(c)
              /\ work'[c].proposal = work[c].proposal
           \/ /\ phase[c] \in {"execute", "refused"} /\ (FinishRejected(c) \/ FinishRefused(c))
              /\ work'[c].result # "executed"
<1> work \in [Call -> Checkpoint] /\ TypeOK
  BY DEF IInv, TypeOK
<1>1. CASE Invoke(c)
  <2>1. phase[c] = "received"
    BY <1>1 DEF Invoke, InvokeStart, ResumeUnknown, ResumePaused, ResumeUnfinished, ResumeFinished
  <2>2. PICK t \in Thread, k \in Checkpoint : t = req[c].thread /\ k = checkpoint[t]
    BY <2>1, RequestThread DEF TypeOK
  <2>3. CASE InvokeStart(c)
    <3>1. work'[c] = [k EXCEPT !.next = "propose", !.proposal = c, !.kept = "none"]
      BY <2>2, <2>3 DEF InvokeStart, NodeReturns
    <3>2. work'[c].next = "propose"
      BY <3>1 DEF Checkpoint
    <3> QED
      BY <2>1, <3>2
  <2>4. CASE ResumeUnknown(c)
    <3>1. work'[c] = [NoCheckpoint EXCEPT !.next = "propose"]
      BY <2>4 DEF ResumeUnknown, NodeReturns
    <3>2. work'[c].next = "propose"
      BY <3>1 DEF NoCheckpoint
    <3> QED
      BY <2>1, <3>2
  <2>5. CASE ResumePaused(c)
    <3>1. PICK v : work'[c] = [k EXCEPT !.decision = v] /\ k.next = "approval"
      BY <2>2, <2>5 DEF ResumePaused
    <3>2. work'[c].next = "approval"
      BY <3>1 DEF Checkpoint
    <3> QED
      BY <2>1, <3>2
  <2>6. CASE ResumeUnfinished(c)
    <3>1. work'[c] = k /\ k.next \in {"propose", "execute"}
      BY <2>2, <2>6 DEF ResumeUnfinished
    <3> QED
      BY <2>1, <3>1
  <2>7. CASE ResumeFinished(c)
    <3>1. work'[c] = checkpoint[req[c].thread]
      BY <2>7 DEF ResumeFinished
    <3> QED
      BY <2>1, <2>2, <2>7, <3>1
  <2> QED
    BY <1>1, <2>3, <2>4, <2>5, <2>6, <2>7 DEF Invoke
<1>2. ASSUME NEW w, work' = [work EXCEPT ![c] = w]
      PROVE  work'[c] = w
  BY <1>2
<1>3. ASSUME NEW k \in Checkpoint, NEW x
      PROVE  /\ [k EXCEPT !.next = "approval", !.action = c].next = "approval"
             /\ [k EXCEPT !.next = "execute", !.kept = "none"].next = "execute"
             /\ [k EXCEPT !.next = "end", !.result = x].proposal = k.proposal
             /\ [k EXCEPT !.next = "end", !.result = x].result = x
  BY DEF Checkpoint
<1>4. CASE LogProposed(c)
  <2>1. work'[c] = [work[c] EXCEPT !.next = "approval", !.action = c] /\ phase[c] = "logProposed"
    BY <1>4 DEF LogProposed, NodeReturns
  <2> QED
    BY <1>3, <2>1
<1>5. CASE ResolveNothing(c) \/ LogDecision(c)
  <2>1. work'[c] = [work[c] EXCEPT !.next = "execute", !.kept = "none"]
        /\ phase[c] \in {"resolve", "logDecision"}
    BY <1>5 DEF ResolveNothing, LogDecision, NodeReturns
  <2> QED
    BY <1>3, <2>1
<1>6. CASE FinishExecuted(c)
  <2>1. work'[c] = [work[c] EXCEPT !.next = "end", !.result = "executed"] /\ phase[c] = "acted"
    BY <1>6 DEF FinishExecuted, Finish, NodeReturns
  <2> QED
    BY <1>3, <1>6, <2>1
<1>7. CASE FinishRejected(c) \/ FinishRefused(c)
  <2>1. PICK r \in {"rejected", "refused"} : work'[c] = [work[c] EXCEPT !.next = "end", !.result = r]
    BY <1>7 DEF FinishRejected, FinishRefused, Finish, NodeReturns
  <2>2. phase[c] \in {"execute", "refused"}
    BY <1>7 DEF FinishRejected, FinishRefused
  <2>3. work'[c].result = r
    BY <1>3, <2>1
  <2> QED
    BY <1>7, <2>2, <2>3
<1>8. \/ UNCHANGED work \/ Invoke(c)
      \/ LogProposed(c) \/ ResolveNothing(c) \/ LogDecision(c)
      \/ FinishRejected(c) \/ FinishExecuted(c) \/ FinishRefused(c)
  BY DEF Step, Arrive, ReceivePropose, ReceiveDecision, Progress,
     SaveCheckpoint, Respond, RunNode, ProposeKeyError, InsertRecord, Interrupt, ResolveRecord,
     AuditExecution, CallTool, RecordFailure,
     Fault, ToolRaises, StoreRaises, StoreRaisesInApproval, StoreRaisesInGuard,
     ToolRefuses, ToolNotConfigured, CheckpointRaises, Crash
<1> QED
  BY <1>1, <1>4, <1>5, <1>6, <1>7, <1>8

\* How a step changes its call's answer.
LEMMA ReplyChanges ==
    ASSUME IInv, NEW c \in Call, Step(c)
    PROVE  \/ reply' = reply /\ (phase[c] \in {"exit", "done", "dead"} => phase'[c] \in {"exit", "done", "dead"})
           \/ reply'[c] # "executed" /\ phase'[c] = "exit"
           \/ phase'[c] = "exit" /\ FinishExecuted(c)
           \/ phase'[c] = "exit" /\ ResumeFinished(c) /\ reply'[c] = checkpoint[req[c].thread].result
<1> TypeOK
  BY DEF IInv
<1> USE DEF TypeOK, Goto, Exit, NodeReturns
<1>1. CASE Arrive(c)
  BY <1>1 DEF Arrive, ReceivePropose, ReceiveDecision, MayArrive
<1>2. CASE Invoke(c)
  BY <1>2 DEF Invoke, InvokeStart, ResumeUnknown, ResumePaused, ResumeUnfinished, ResumeFinished
<1>3. CASE RunNode(c)
  BY <1>3 DEF RunNode, ProposeKeyError, InsertRecord, LogProposed, Interrupt, ResolveRecord,
         ResolveNothing, LogDecision, FinishRejected, AuditExecution, CallTool,
         FinishExecuted, FinishRefused, RecordFailure, Finish
<1>4. CASE Fault(c)
  BY <1>4 DEF Fault, ToolRaises, StoreRaises, StoreRaisesInApproval, StoreRaisesInGuard,
         ToolRefuses, ToolNotConfigured, CheckpointRaises, Crash, InFlight
<1>5. CASE SaveCheckpoint(c) \/ Respond(c)
  BY <1>5 DEF SaveCheckpoint, Respond, InFlight
<1> QED
  BY <1>1, <1>2, <1>3, <1>4, <1>5 DEF Step, Progress

\* What a call is about to claim it has done.
LEMMA FinishIsMade ==
    ASSUME IInv, ReportsInv, NEW c \in Call, FinishExecuted(c)
    PROVE  Made(work[c].proposal) /\ \E e \in effects : e.call = c
<1>1. EffectOf(c) \in effects
  BY DEF FinishExecuted, ReportsInv, ActedMade
<1> QED
  BY <1>1 DEF Made, EffectOf

LEMMA AnsweredLastStays ==
    ASSUME IInv, ReportsInv, NEW c \in Call, Step(c)
    PROVE  AnsweredLast'
<1>1. ASSUME NEW d \in Call, d # c
      PROVE  reply'[d] # "none" => phase'[d] \in {"exit", "done", "dead"}
  BY <1>1, StepFrame, OthersUntouched DEF Others, IInv, ReportsInv, AnsweredLast
<1>2. reply'[c] # "none" => phase'[c] \in {"exit", "done", "dead"}
  BY ReplyChanges DEF ReportsInv, AnsweredLast
<1> QED
  BY <1>1, <1>2 DEF AnsweredLast

LEMMA ActedMadeStays ==
    ASSUME IInv, ReportsInv, NEW c \in Call, Step(c)
    PROVE  ActedMade'
<1>1. effects \subseteq effects'
  BY StepMonotone DEF Monotone
<1>2. ASSUME NEW d \in Call, d # c, phase'[d] = "acted"
      PROVE  EffectOf(d)' \in effects'
  BY <1>1, <1>2, OthersUntouched DEF Others, IInv, ReportsInv, ActedMade, EffectOf
<1>3. ASSUME phase'[c] = "acted"
      PROVE  EffectOf(c)' \in effects'
  <2>1. work' = work /\ (CallTool(c) \/ phase[c] = "acted")
    <3> TypeOK
      BY DEF IInv
    <3> USE <1>3 DEF TypeOK, Goto, Exit, NodeReturns
    <3>1. ~Arrive(c)
      BY DEF Arrive, ReceivePropose, ReceiveDecision
    <3>2. ~Invoke(c)
      <4>1. Invoke(c) => phase'[c] \in {"propose", "resolve", "execute", "exit"}
        BY DEF Invoke, InvokeStart, ResumeUnknown, ResumePaused, ResumeUnfinished, ResumeFinished
      <4> QED
        BY <4>1
    <3>3. RunNode(c) => CallTool(c)
      BY DEF RunNode, ProposeKeyError, InsertRecord, LogProposed, Interrupt, ResolveRecord,
         ResolveNothing, LogDecision, FinishRejected, AuditExecution,
         FinishExecuted, FinishRefused, RecordFailure, Finish
    <3>4. ~Fault(c)
      BY DEF Fault, ToolRaises, StoreRaises, StoreRaisesInApproval, StoreRaisesInGuard,
         ToolRefuses, ToolNotConfigured, CheckpointRaises, Crash
    <3>5. SaveCheckpoint(c) \/ Respond(c) => phase[c] = "acted" /\ work' = work
      BY DEF SaveCheckpoint, Respond
    <3> QED
      BY <3>1, <3>2, <3>3, <3>4, <3>5 DEF Step, Progress, CallTool
  <2>2. EffectOf(c)' = EffectOf(c)
    BY <2>1 DEF EffectOf
  <2>3. EffectOf(c) \in effects'
    BY <1>1, <2>1 DEF CallTool, ReportsInv, ActedMade
  <2> QED
    BY <2>2, <2>3
<1> QED
  BY <1>2, <1>3 DEF ActedMade

LEMMA WorkClaimsStay ==
    ASSUME IInv, ReportsInv, NEW c \in Call, Step(c)
    PROVE  WorkClaims'
<1>1. effects \subseteq effects'
  BY StepMonotone DEF Monotone
<1>2. ASSUME NEW d \in Call, work'[d] = work[d], Claims(work[d])'
      PROVE  Made(work[d].proposal)'
  <2>1. Claims(work[d])
    BY <1>2 DEF Claims
  <2> QED
    BY <1>1, <1>2, <2>1 DEF ReportsInv, WorkClaims, Made
<1>3. ASSUME Claims(work[c])', work' # work
      PROVE  Made(work[c].proposal)'
  <2>1. CASE ResumeFinished(c) /\ req[c].thread \in Thread /\ work'[c] = checkpoint[req[c].thread]
    <3>1. PICK k : k = checkpoint[req[c].thread]
      OBVIOUS
    <3>2. Claims(k) /\ work'[c] = k
      BY <1>3, <2>1, <3>1 DEF Claims
    <3>3. Made(k.proposal)
      BY <2>1, <3>1, <3>2 DEF ReportsInv, ThreadClaims
    <3> QED
      BY <1>1, <3>2, <3>3 DEF Made
  <2>2. CASE FinishExecuted(c) /\ work'[c].proposal = work[c].proposal
    BY <1>1, <2>2, FinishIsMade DEF Made
  <2> QED
    BY <1>3, <2>1, <2>2, WorkChanges DEF Claims
<1>4. \A d \in Call : d # c \/ work' = work => work'[d] = work[d]
  BY OthersUntouched DEF Others, IInv
<1> QED
  BY <1>2, <1>3, <1>4 DEF WorkClaims

LEMMA ReplyClaimsStay ==
    ASSUME IInv, ReportsInv, NEW c \in Call, Step(c)
    PROVE  ReplyClaims'
<1>1. effects \subseteq effects'
  BY StepMonotone DEF Monotone
<1>2. ASSUME NEW d \in Call, work'[d] = work[d], reply'[d] = reply[d], reply'[d] = "executed"
      PROVE  Made(work[d].proposal)'
  BY <1>1, <1>2 DEF ReportsInv, ReplyClaims, Made
<1>3. ASSUME reply'[c] = "executed"
      PROVE  Made(work[c].proposal)'
  <2>1. CASE reply' = reply
    <3>1. phase[c] \in {"exit", "done", "dead"}
      BY <1>3, <2>1 DEF ReportsInv, AnsweredLast
    <3>2. work' = work
      BY <3>1, WorkChanges
    <3> QED
      BY <1>2, <1>3, <2>1, <3>2
  <2>2. CASE FinishExecuted(c)
    <3>1. work'[c].proposal = work[c].proposal
      <4>1. work[c] \in Checkpoint /\ work'[c] = [work[c] EXCEPT !.next = "end", !.result = "executed"]
        BY <2>2 DEF FinishExecuted, Finish, NodeReturns, IInv, TypeOK
      <4> QED
        BY <4>1 DEF Checkpoint
    <3> QED
      BY <1>1, <2>2, <3>1, FinishIsMade DEF Made
  <2>3. CASE ResumeFinished(c) /\ reply'[c] = checkpoint[req[c].thread].result
    <3>1. req[c].thread \in Thread
      BY <2>3, RequestThread DEF ResumeFinished, IInv
    <3>2. PICK k : k = checkpoint[req[c].thread]
      OBVIOUS
    <3>3. k.next = "end" /\ k.result = "executed"
      BY <1>3, <2>3, <3>2 DEF ResumeFinished
    <3>5. work'[c] = k
      BY <2>3, <3>2 DEF ResumeFinished, IInv, TypeOK
    <3>4. Made(k.proposal)
      BY <3>1, <3>2, <3>3 DEF ReportsInv, ThreadClaims, Claims
    <3> QED
      BY <1>1, <3>4, <3>5 DEF Made
  <2> QED
    BY <1>3, <2>1, <2>2, <2>3, ReplyChanges
<1>4. \A d \in Call : d # c => work'[d] = work[d] /\ reply'[d] = reply[d]
  BY OthersUntouched, StepFrame DEF Others, IInv
<1> QED
  BY <1>2, <1>3, <1>4 DEF ReplyClaims

\* The checkpoint of a thread is written from a call's memory, or gets a kept
\* vote while it waits at approval.
LEMMA CheckpointChanges ==
    ASSUME IInv, NEW c \in Call, Step(c), NEW t \in Thread
    PROVE  \/ checkpoint'[t] = checkpoint[t]
           \/ SaveCheckpoint(c) /\ t = req[c].thread /\ checkpoint'[t] = work[c]
           \/ StoreRaisesInApproval(c) /\ checkpoint'[t].next = "approval"
<1> TypeOK
  BY DEF IInv
<1>1. CASE SaveCheckpoint(c)
  BY <1>1 DEF SaveCheckpoint, TypeOK
<1>2. CASE StoreRaisesInApproval(c)
  <2>1. PICK s : s = req[c].thread
    OBVIOUS
  <2>2. \/ checkpoint[s].next = "approval"
           /\ checkpoint' = [checkpoint EXCEPT ![s].kept = work[c].decision]
        \/ UNCHANGED checkpoint
    BY <1>2, <2>1 DEF StoreRaisesInApproval
  <2>3. ASSUME NEW v, checkpoint' = [checkpoint EXCEPT ![s].kept = v], s = t
        PROVE  checkpoint'[t].next = checkpoint[t].next
    <3>1. checkpoint'[t] = [checkpoint[t] EXCEPT !.kept = v] /\ checkpoint[t] \in Checkpoint
      BY <2>3 DEF TypeOK
    <3> QED
      BY <3>1 DEF Checkpoint
  <2> QED
    BY <1>2, <2>2, <2>3 DEF TypeOK
<1>3. SaveCheckpoint(c) \/ StoreRaisesInApproval(c) \/ UNCHANGED checkpoint
  BY DEF Step, Arrive, ReceivePropose, ReceiveDecision, Progress, Respond,
         Invoke, InvokeStart, ResumeUnknown, ResumePaused, ResumeUnfinished, ResumeFinished,
         RunNode, ProposeKeyError, InsertRecord, LogProposed, Interrupt, ResolveRecord,
         ResolveNothing, LogDecision, FinishRejected, AuditExecution, CallTool,
         FinishExecuted, FinishRefused, RecordFailure,
         Fault, ToolRaises, StoreRaises, StoreRaisesInGuard,
         ToolRefuses, ToolNotConfigured, CheckpointRaises, Crash
<1> QED
  BY <1>1, <1>2, <1>3

LEMMA ThreadClaimsStay ==
    ASSUME IInv, ReportsInv, NEW c \in Call, Step(c)
    PROVE  ThreadClaims'
<1>1. effects \subseteq effects'
  BY StepMonotone DEF Monotone
<1> SUFFICES ASSUME NEW t \in Thread, Claims(checkpoint[t])'
             PROVE  Made(checkpoint[t].proposal)'
  BY DEF ThreadClaims
<1>2. PICK k : checkpoint'[t] = k
  OBVIOUS
<1>3. Claims(k)
  BY <1>2 DEF Claims
<1>4. k = checkpoint[t] \/ k = work[c]
  BY <1>2, <1>3, CheckpointChanges DEF Claims
<1>5. Made(k.proposal)
  BY <1>3, <1>4 DEF ReportsInv, ThreadClaims, WorkClaims
<1> QED
  BY <1>1, <1>2, <1>5 DEF Made

LEMMA StatusClaimsStay ==
    ASSUME IInv, ReportsInv, NEW c \in Call, Step(c)
    PROVE  StatusClaims'
<1> SUFFICES ASSUME NEW t \in Thread, status'[t] = "executed"
             PROVE  \E e \in effects' : req'[e.call].thread = t
  BY DEF StatusClaims
<1>1. CASE status'[t] = status[t]
  BY <1>1, EffectsKeepThread DEF ReportsInv, StatusClaims
<1>2. CASE status'[t] # status[t]
  <2>1. FinishExecuted(c) /\ t = req[c].thread
    <3>1. \/ FinishExecuted(c) \/ FinishRejected(c) \/ FinishRefused(c) \/ UNCHANGED status
      BY DEF Step, Arrive, ReceivePropose, ReceiveDecision, Progress, SaveCheckpoint, Respond,
         Invoke, InvokeStart, ResumeUnknown, ResumePaused, ResumeUnfinished, ResumeFinished,
         RunNode, ProposeKeyError, InsertRecord, LogProposed, Interrupt, ResolveRecord,
         ResolveNothing, LogDecision, AuditExecution, CallTool, RecordFailure, storeVars,
         Fault, ToolRaises, StoreRaises, StoreRaisesInApproval, StoreRaisesInGuard,
         ToolRefuses, ToolNotConfigured, CheckpointRaises, Crash
    <3>2. FinishRejected(c) \/ FinishRefused(c) => status'[t] \in {status[t], "rejected", "refused"}
      BY DEF FinishRejected, FinishRefused, Finish, IInv, TypeOK
    <3>3. FinishExecuted(c) => t = req[c].thread \/ status'[t] = status[t]
      BY DEF FinishExecuted, Finish, IInv, TypeOK
    <3> QED
      BY <1>2, <3>1, <3>2, <3>3
  <2>2. PICK e \in effects : e.call = c
    BY <2>1, FinishIsMade
  <2> QED
    BY <2>1, <2>2, EffectsKeepThread
<1> QED
  BY <1>1, <1>2

LEMMA StepKeepsReports ==
    ASSUME IInv, ReportsInv, [Next]_vars
    PROVE  ReportsInv'
<1>1. CASE UNCHANGED vars
  BY <1>1 DEF vars, callVars, storeVars, ReportsInv, AnsweredLast, ActedMade, WorkClaims, ReplyClaims,
     ThreadClaims, StatusClaims, Made, Claims, EffectOf
<1>2. ASSUME NEW c \in Call, Step(c)
      PROVE  ReportsInv'
  BY <1>2, AnsweredLastStays, ActedMadeStays, WorkClaimsStay, ReplyClaimsStay, ThreadClaimsStay,
     StatusClaimsStay DEF ReportsInv
<1> QED
  BY <1>1, <1>2 DEF Next, Step

LEMMA ReportsHold == Spec => []ReportsInv
<1>1. Init => ReportsInv
  BY DEF Init, ReportsInv, AnsweredLast, ActedMade, WorkClaims, ReplyClaims, ThreadClaims,
     StatusClaims, Claims, NoCheckpoint
<1> QED
  BY <1>1, StepKeepsReports, InvariantHolds, PTL DEF Spec

\* "executed" is never claimed of a write that did not take place: not in an
\* answer, not in a process's status, not in a checkpoint (execute_node sets
\* the status after the tool has returned, and raises what the tool raises).
THEOREM ReportsAreTrue == Spec => []ReportedWritesHappened
<1>1. ReportsInv => ReportedWritesHappened
  BY DEF ReportsInv, ReplyClaims, ThreadClaims, StatusClaims, Claims, Made, ReportedWritesHappened
<1> QED
  BY <1>1, ReportsHold, PTL
=============================================================================
