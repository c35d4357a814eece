------------------------- MODULE ActionGraphProofs -------------------------
(***************************************************************************)
(* Theorems about ActionGraph for any calls, threads, faults and client    *)
(* discipline: type correctness.                                           *)
(***************************************************************************)
EXTENDS ActionGraphInv, TLAPS

-----------------------------------------------------------------------------
(***************************************************************************)
(* Type correctness                                                        *)
(***************************************************************************)

\* Checkpoints built from a well-typed one, field by field, are well typed.
LEMMA CheckpointFields ==
    ASSUME NEW k \in Checkpoint
    PROVE  /\ k.next \in {"none", "propose", "approval", "execute", "end"}
           /\ k.proposal \in MaybeCall /\ k.action \in MaybeCall
           /\ k.decision \in MaybeVote /\ k.kept \in MaybeVote
           /\ k.result \in {"none", "executed", "rejected", "refused"}
           /\ \A p \in MaybeCall :
                  [k EXCEPT !.next = "propose", !.proposal = p, !.kept = "none"] \in Checkpoint
           /\ \A v \in MaybeVote : [k EXCEPT !.decision = v] \in Checkpoint
           /\ \A v \in MaybeVote : [k EXCEPT !.kept = v] \in Checkpoint
           /\ \A a \in MaybeCall : [k EXCEPT !.next = "approval", !.action = a] \in Checkpoint
           /\ \A v \in MaybeVote : [k EXCEPT !.decision = v].decision = v
           /\ [k EXCEPT !.next = "execute", !.kept = "none"] \in Checkpoint
           /\ \A r \in {"executed", "rejected", "refused"} :
                  [k EXCEPT !.next = "end", !.result = r] \in Checkpoint
BY DEF Checkpoint, MaybeVote

LEMMA NoCheckpointType ==
    /\ NoCheckpoint \in Checkpoint
    /\ [NoCheckpoint EXCEPT !.next = "propose"] \in Checkpoint
BY DEF NoCheckpoint, Checkpoint, MaybeCall, MaybeVote

LEMMA ArriveTypeOK ==
    ASSUME TypeOK, DecisionAtHand, NEW c \in Call, Arrive(c)
    PROVE  TypeOK' /\ DecisionAtHand'
<1> USE DEF TypeOK, DecisionAtHand, Goto, storeVars, Phase
<1>1. ASSUME NEW t \in Thread, ReceivePropose(c, t)
      PROVE  TypeOK' /\ DecisionAtHand'
  <2>1. [kind |-> "propose", thread |-> t] \in Request
    BY DEF Request
  <2> QED
    BY <1>1, <2>1 DEF ReceivePropose
<1>2. ASSUME NEW t \in Thread, NEW vote \in Vote, NEW about \in MaybeCall,
             ReceiveDecision(c, t, vote, about)
      PROVE  TypeOK' /\ DecisionAtHand'
  <2>1. [kind |-> "decide", thread |-> t, vote |-> vote, about |-> about] \in Request
    BY DEF Request
  <2> QED
    BY <1>2, <2>1 DEF ReceiveDecision
<1> QED
  BY <1>1, <1>2 DEF Arrive

LEMMA RequestThread ==
    ASSUME TypeOK, NEW c \in Call, phase[c] # "idle"
    PROVE  /\ req[c] \in Request
           /\ req[c].thread \in Thread
           /\ req[c].kind \in {"propose", "decide"}
           /\ req[c].kind = "decide" => req[c].vote \in Vote
BY DEF TypeOK, Request

LEMMA InvokeTypeOK ==
    ASSUME TypeOK, DecisionAtHand, NEW c \in Call, Invoke(c)
    PROVE  TypeOK' /\ DecisionAtHand'
<1> DEFINE k == checkpoint[req[c].thread]
<1>1. phase[c] = "received"
  BY DEF Invoke, InvokeStart, ResumeUnknown, ResumePaused, ResumeUnfinished, ResumeFinished
<1>2. /\ k \in Checkpoint
      /\ req[c].kind = "decide" => req[c].vote \in Vote
      /\ c \in MaybeCall
  BY <1>1, RequestThread DEF TypeOK, MaybeVote, MaybeCall
<1> USE DEF TypeOK, DecisionAtHand, Goto, Exit, NodeReturns, storeVars, Phase
<1>3. CASE InvokeStart(c)
  <2>1. [k EXCEPT !.next = "propose", !.proposal = c, !.kept = "none"] \in Checkpoint
    BY <1>2, CheckpointFields
  <2> QED
    BY <1>3, <2>1 DEF InvokeStart
<1>4. CASE ResumeUnknown(c)
  BY <1>4, NoCheckpointType DEF ResumeUnknown
<1>5. CASE ResumePaused(c)
  <2> DEFINE v == IF k.kept = "none" THEN req[c].vote ELSE k.kept
  <2>1. v \in Vote /\ v \in MaybeVote
    BY <1>2, <1>5, CheckpointFields DEF ResumePaused, MaybeVote
  <2>2. [k EXCEPT !.decision = v] \in Checkpoint /\ [k EXCEPT !.decision = v].decision = v
    BY <1>2, <2>1, CheckpointFields
  <2> QED
    BY <1>5, <2>1, <2>2 DEF ResumePaused
<1>6. CASE ResumeUnfinished(c)
  BY <1>2, <1>6 DEF ResumeUnfinished
<1>7. CASE ResumeFinished(c)
  <2>1. k.result \in {"none", "executed", "rejected", "refused"}
    BY <1>2, CheckpointFields
  <2> QED
    BY <1>2, <1>7, <2>1 DEF ResumeFinished
<1> QED
  BY <1>3, <1>4, <1>5, <1>6, <1>7 DEF Invoke

LEMMA ResolvedRecordType ==
    ASSUME TypeOK, NEW a, NEW v \in Vote, pending[a].status = "pending"
    PROVE  [pending EXCEPT ![a].status = v] \in [Call -> Record \cup {NoRecord}]
<1>1. CASE a \in Call
  <2>1. pending[a] \in Record
    BY <1>1 DEF TypeOK, NoRecord
  <2>2. [pending[a] EXCEPT !.status = v] \in Record
    BY <2>1 DEF Record
  <2> QED
    BY <1>1, <2>2 DEF TypeOK
<1>2. CASE a \notin Call
  BY <1>2 DEF TypeOK
<1> QED
  BY <1>1, <1>2

LEMMA RunNodeTypeOK ==
    ASSUME TypeOK, DecisionAtHand, NEW c \in Call, RunNode(c)
    PROVE  TypeOK' /\ DecisionAtHand'
<1>1. phase[c] # "idle"
  BY DEF RunNode, ProposeKeyError, InsertRecord, LogProposed, Interrupt, ResolveRecord,
         ResolveNothing, LogDecision, FinishRejected, AuditExecution, CallTool,
         FinishExecuted, FinishRefused, RecordFailure, Finish
<1>2. /\ req[c].thread \in Thread
      /\ work[c] \in Checkpoint
      /\ c \in MaybeCall
  BY <1>1, RequestThread DEF TypeOK, MaybeCall
<1>3. /\ [work[c] EXCEPT !.next = "execute", !.kept = "none"] \in Checkpoint
      /\ [work[c] EXCEPT !.next = "approval", !.action = c] \in Checkpoint
      /\ \A r \in {"executed", "rejected", "refused"} :
             [work[c] EXCEPT !.next = "end", !.result = r] \in Checkpoint
      /\ work[c].action \in MaybeCall
      /\ work[c].proposal \in MaybeCall
      /\ work[c].decision \in MaybeVote
  BY <1>2, CheckpointFields
<1>4. /\ \A type \in {"proposed", "executed", "failed"} \cup Vote, a \in MaybeCall :
             [type |-> type, call |-> c, action |-> a] \in Event
      /\ EffectOf(c) \in Effect
  BY <1>3 DEF Event, Effect, EffectOf
<1> USE DEF TypeOK, DecisionAtHand, Goto, Exit, NodeReturns, Log, storeVars, Phase
<1>5. CASE ProposeKeyError(c)
  BY <1>5 DEF ProposeKeyError
<1>6. CASE InsertRecord(c)
  <2>1. [thread |-> req[c].thread, proposal |-> work[c].proposal, status |-> "pending"]
            \in Record
    BY <1>2, <1>3, <1>6 DEF InsertRecord, Record, MaybeCall
  <2> QED
    BY <1>6, <2>1 DEF InsertRecord
<1>7. CASE LogProposed(c)
  BY <1>2, <1>3, <1>4, <1>7 DEF LogProposed
<1>8. CASE Interrupt(c)
  BY <1>8 DEF Interrupt
<1>9. CASE ResolveRecord(c)
  BY <1>3, <1>9, ResolvedRecordType DEF ResolveRecord
<1>10. CASE ResolveNothing(c)
  BY <1>3, <1>10 DEF ResolveNothing
<1>11. CASE LogDecision(c)
  BY <1>3, <1>4, <1>11 DEF LogDecision
<1>12. CASE FinishRejected(c)
  BY <1>2, <1>3, <1>12 DEF FinishRejected, Finish
<1>13. CASE AuditExecution(c)
  BY <1>3, <1>4, <1>13 DEF AuditExecution
<1>14. CASE CallTool(c)
  BY <1>4, <1>14 DEF CallTool
<1>15. CASE FinishExecuted(c)
  BY <1>2, <1>3, <1>15 DEF FinishExecuted, Finish
<1>16. CASE FinishRefused(c)
  BY <1>2, <1>3, <1>16 DEF FinishRefused, Finish
<1>17. CASE RecordFailure(c)
  BY <1>3, <1>4, <1>17 DEF RecordFailure
<1> QED
  BY <1>5, <1>6, <1>7, <1>8, <1>9, <1>10, <1>11, <1>12, <1>13, <1>14, <1>15, <1>16, <1>17
     DEF RunNode

LEMMA FaultTypeOK ==
    ASSUME TypeOK, DecisionAtHand, NEW c \in Call, Fault(c)
    PROVE  TypeOK' /\ DecisionAtHand'
<1>1. phase[c] # "idle"
  BY DEF Fault, ToolRaises, StoreRaises, StoreRaisesInApproval, StoreRaisesInGuard,
         ToolRefuses, ToolNotConfigured, CheckpointRaises, Crash,
         InFlight
<1>2. /\ checkpoint[req[c].thread] \in Checkpoint
      /\ work[c] \in Checkpoint
  BY <1>1, RequestThread DEF TypeOK
<1>3. /\ work[c].decision \in MaybeVote
      /\ EffectOf(c) \in Effect
  BY <1>2, CheckpointFields DEF EffectOf, Effect, TypeOK
<1> USE DEF TypeOK, DecisionAtHand, Goto, Exit, storeVars, Phase
<1>4. CASE ToolRaises(c)
  BY <1>3, <1>4 DEF ToolRaises
<1>5. CASE StoreRaises(c)
  BY <1>5 DEF StoreRaises
<1>6. CASE StoreRaisesInApproval(c)
  <2>1. [checkpoint[req[c].thread] EXCEPT !.kept = work[c].decision] \in Checkpoint
    BY <1>2, <1>3, CheckpointFields
  <2> QED
    BY <1>6, <2>1 DEF StoreRaisesInApproval
<1>7. CASE StoreRaisesInGuard(c)
  BY <1>7 DEF StoreRaisesInGuard
<1>8. CASE ToolRefuses(c)
  <2>1. [type |-> "failed", call |-> c, action |-> work[c].action] \in Event
    BY <1>2, CheckpointFields DEF Event
  <2> QED
    BY <1>8, <2>1 DEF ToolRefuses, Log
<1>9. CASE ToolNotConfigured(c)
  BY <1>9 DEF ToolNotConfigured
<1>10. CASE CheckpointRaises(c)
  BY <1>10 DEF CheckpointRaises
<1>11. CASE Crash(c)
  BY <1>1, <1>11 DEF Crash
<1> QED
  BY <1>4, <1>5, <1>6, <1>7, <1>8, <1>9, <1>10, <1>11 DEF Fault

LEMMA TypeStep ==
    ASSUME TypeOK, DecisionAtHand, [Next]_vars
    PROVE  TypeOK' /\ DecisionAtHand'
<1>1. ASSUME NEW c \in Call, SaveCheckpoint(c)
      PROVE  TypeOK' /\ DecisionAtHand'
  <2>1. req[c].thread \in Thread
    BY <1>1, RequestThread DEF SaveCheckpoint, InFlight
  <2> QED
    BY <1>1, <2>1 DEF SaveCheckpoint, TypeOK, DecisionAtHand, storeVars
<1>2. ASSUME NEW c \in Call, Respond(c)
      PROVE  TypeOK' /\ DecisionAtHand'
  BY <1>2 DEF Respond, Goto, TypeOK, DecisionAtHand, storeVars, Phase
<1>3. CASE UNCHANGED vars
  BY <1>3 DEF vars, callVars, storeVars, TypeOK, DecisionAtHand
<1> QED
  BY <1>1, <1>2, <1>3, ArriveTypeOK, InvokeTypeOK, RunNodeTypeOK, FaultTypeOK
     DEF Next, Progress

LEMMA InitTypeOK == Init => TypeOK /\ DecisionAtHand
BY NoCheckpointType DEF Init, TypeOK, DecisionAtHand, Phase

\* Every reachable state is well typed: the phases, requests, checkpoints,
\* tables and effects stay what the code's types allow.
THEOREM TypeCorrect == Spec => []TypeOK
<1>1. TypeOK /\ DecisionAtHand /\ [Next]_vars => TypeOK' /\ DecisionAtHand'
  BY TypeStep
<1> QED
  BY InitTypeOK, <1>1, PTL DEF Spec
=============================================================================
