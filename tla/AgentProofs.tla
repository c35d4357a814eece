---------------------------- MODULE AgentProofs -----------------------------
(***************************************************************************)
(* What the gate's theorems give an agent, for any number of proposals,    *)
(* repeated decisions and overlapping calls.                               *)
(***************************************************************************)
EXTENDS AgentInv, ActionGraphReports, FiniteSetTheorems

\* Every step of the agent and its server is a step of the gate, or none.
LEMMA AgentStep == [AgentNext]_agentVars => [Next]_vars
<1> SUFFICES ASSUME [AgentNext]_agentVars, UNCHANGED vars => FALSE
             PROVE  Next
  OBVIOUS
<1>1. AgentNext
  BY DEF agentVars
<1>2. PICK c \in Call :
        \/ \E t \in Thread : Propose(c, t) \/ \E vote \in Vote : Decide(c, t, vote)
        \/ GiveUp(c)
        \/ Serve(c)
  BY <1>1 DEF AgentNext
<1>3. CASE \E t \in Thread : Propose(c, t)
  BY <1>3 DEF Propose, Next, Arrive
<1>4. CASE \E t \in Thread : \E vote \in Vote : Decide(c, t, vote)
  <2>1. PICK t \in Thread, vote \in Vote, a \in Call : ReceiveDecision(c, t, vote, work[a].action)
    BY <1>4 DEF Decide
  <2>2. work[a].action \in MaybeCall
    BY <2>1 DEF ReceiveDecision, RecordsOf, MaybeCall
  <2> QED
    BY <2>1, <2>2 DEF Next, Arrive
<1>5. CASE GiveUp(c)
  BY <1>5 DEF GiveUp
<1>6. CASE Serve(c)
  BY <1>6 DEF Serve, Next
<1> QED
  BY <1>2, <1>3, <1>4, <1>5, <1>6

\* An agent on the MCP server is one of the clients ActionGraph allows: what
\* is proved of the gate holds for it.
THEOREM AgentUsesGate == AgentSpec => Spec
<1>1. AgentInit => Init
  BY DEF AgentInit
<1> QED
  BY <1>1, AgentStep, PTL DEF AgentSpec, Spec

\* So nothing leaves the gate without an approval the agent sent.
THEOREM AgentGateHolds == AgentSpec => []NoEffectWithoutApproval
BY AgentUsesGate, GateHolds, PTL

\* A step never changes the request of a call that has one.
LEMMA RequestsStay ==
    ASSUME TypeOK, NEW c \in Call, Progress(c) \/ Fault(c)
    PROVE  req' = req
<1> USE DEF Goto, Exit, NodeReturns
<1>1. CASE Invoke(c)
  BY <1>1 DEF Invoke, InvokeStart, ResumeUnknown, ResumePaused, ResumeUnfinished, ResumeFinished
<1>2. CASE RunNode(c)
  BY <1>2 DEF RunNode, ProposeKeyError, InsertRecord, LogProposed, Interrupt, ResolveRecord,
         ResolveNothing, LogDecision, FinishRejected, AuditExecution, CallTool,
         FinishExecuted, FinishRefused, RecordFailure, Finish
<1>3. CASE Fault(c)
  BY <1>3 DEF Fault, ToolRaises, StoreRaises, StoreRaisesInApproval, StoreRaisesInGuard,
         ToolRefuses, ToolNotConfigured, CheckpointRaises, Crash
<1>4. CASE SaveCheckpoint(c) \/ Respond(c)
  BY <1>4 DEF SaveCheckpoint, Respond
<1> QED
  BY <1>1, <1>2, <1>3, <1>4 DEF Progress

LEMMA StepKeepsOneOpinion ==
    ASSUME TypeOK, OneOpinion, [AgentNext]_agentVars
    PROVE  OneOpinion'
<1>1. CASE UNCHANGED agentVars
  BY <1>1 DEF agentVars, vars, callVars, OneOpinion
<1>2. CASE AgentNext
  <2>1. PICK c \in Call :
          \/ \E t \in Thread : Propose(c, t) \/ \E vote \in Vote : Decide(c, t, vote)
          \/ GiveUp(c)
          \/ Serve(c)
    BY <1>2 DEF AgentNext
  <2>2. CASE \E t \in Thread : Propose(c, t)
    BY <2>2 DEF Propose, ReceivePropose, OneOpinion, TypeOK
  <2>3. CASE \E t \in Thread : \E vote \in Vote : Decide(c, t, vote)
    <3>1. PICK t \in Thread, vote \in Vote : Decide(c, t, vote)
      BY <2>3
    <3>2. /\ \A d \in Call : req[d].kind = "decide" /\ req[d].thread = t => req[d].vote = vote
          /\ \E a \in Call : ReceiveDecision(c, t, vote, work[a].action)
      BY <3>1 DEF Decide, Decider
    <3> QED
      BY <3>2 DEF ReceiveDecision, OneOpinion, TypeOK
  <2>4. CASE GiveUp(c)
    BY <2>4 DEF GiveUp, vars, callVars, OneOpinion
  <2>5. CASE Serve(c)
    BY <2>5, RequestsStay DEF Serve, OneOpinion
  <2> QED
    BY <2>1, <2>2, <2>3, <2>4, <2>5
<1> QED
  BY <1>1, <1>2

LEMMA HonouredIfOneOpinion == IInv /\ OneOpinion => VoteIsHonoured
<1> SUFFICES ASSUME IInv, OneOpinion, NEW c \in Call, NEW e \in effects,
                    req[c].kind = "decide", req[e.call].thread = req[c].thread
             PROVE  req[c].vote # "rejected"
  BY DEF VoteIsHonoured, EffectsOn
<1>1. PICK d \in Call : Approver(d, e.action)
  BY DEF IInv, NoEffectWithoutApproval
<1>2. pending[e.action].thread = req[e.call].thread
  BY DEF IInv, ExecutesWhatWasRecorded
<1> QED
  BY <1>1, <1>2 DEF Approver, OneOpinion

\* What the agent rejects is never made, under any fault and interleaving:
\* every approval that was delivered on a thread is the agent's, and it has
\* sent none.  (Clients that differ about an action have no such promise, see
\* run reject_after_failure.)
THEOREM RejectionIsHonoured == AgentSpec => []VoteIsHonoured
<1>1. AgentInit => OneOpinion
  BY DEF AgentInit, Init, OneOpinion, NoRequest
<1>2. IInv => TypeOK
  BY DEF IInv
<1>4. AgentSpec => []IInv
  BY AgentUsesGate, InvariantHolds, PTL
<1>5. AgentSpec => []OneOpinion
  BY <1>1, <1>2, <1>4, StepKeepsOneOpinion, PTL DEF AgentSpec
<1> QED
  BY HonouredIfOneOpinion, <1>4, <1>5, PTL

-----------------------------------------------------------------------------
(***************************************************************************)
(* What no step of the agent and its server takes away                     *)
(***************************************************************************)

\* A move of the agent's call c, on either side.
Move(c) ==
    \/ \E t \in Thread : Propose(c, t) \/ \E vote \in Vote : Decide(c, t, vote)
    \/ Serve(c)

\* Requests stay, a reply the agent was given stays given, and the recipients
\* of proposals are what they are.
Lasts ==
    /\ \A d \in Call : phase[d] # "idle" =>
           /\ req'[d] = req[d]
           /\ phase'[d] = "received" => phase[d] = "received"
    /\ \A a \in Call : \A t \in Thread : Given(a, t) => Given(a, t)'
    /\ placeholder \subseteq placeholder'
    /\ \A p \in placeholder' : p \in placeholder \/ (p \in Call /\ phase[p] = "idle")

LEMMA MoveIsStep ==
    ASSUME NEW c \in Call, Move(c)
    PROVE  Step(c) /\ gaveUp' = gaveUp
<1>1. CASE \E t \in Thread : Propose(c, t)
  BY <1>1 DEF Propose, Step, Arrive
<1>2. CASE \E t \in Thread : \E vote \in Vote : Decide(c, t, vote)
  <2>1. PICK t \in Thread, vote \in Vote, a \in Call :
            ReceiveDecision(c, t, vote, work[a].action) /\ gaveUp' = gaveUp
    BY <1>2 DEF Decide
  <2>2. work[a].action \in MaybeCall
    BY <2>1 DEF ReceiveDecision, RecordsOf, MaybeCall
  <2> QED
    BY <2>1, <2>2 DEF Step, Arrive
<1>3. CASE Serve(c)
  BY <1>3 DEF Serve, Step
<1> QED
  BY <1>1, <1>2, <1>3 DEF Move

\* Only an arrival brings a call to "received".
LEMMA NeverReceivedAgain ==
    ASSUME TypeOK, NEW c \in Call, Step(c), phase[c] # "idle", phase'[c] = "received"
    PROVE  phase[c] = "received"
<1> USE DEF TypeOK, Goto, Exit, NodeReturns
<1>1. ~Arrive(c)
  BY DEF Arrive, ReceivePropose, ReceiveDecision, MayArrive
<1>2. Invoke(c) => phase[c] = "received"
  BY DEF Invoke, InvokeStart, ResumeUnknown, ResumePaused, ResumeUnfinished, ResumeFinished
<1>3. ~RunNode(c)
  BY DEF RunNode, ProposeKeyError, InsertRecord, LogProposed, Interrupt, ResolveRecord,
     ResolveNothing, LogDecision, FinishRejected, AuditExecution, CallTool,
     FinishExecuted, FinishRefused, RecordFailure, Finish
<1>4. ~Fault(c)
  BY DEF Fault, ToolRaises, StoreRaises, StoreRaisesInApproval, StoreRaisesInGuard,
     ToolRefuses, ToolNotConfigured, CheckpointRaises, Crash
<1>5. SaveCheckpoint(c) \/ Respond(c) => phase[c] = "received"
  BY DEF SaveCheckpoint, Respond
<1> QED
  BY <1>1, <1>2, <1>3, <1>4, <1>5 DEF Step, Progress

LEMMA MoveLasts ==
    ASSUME IInv, NEW c \in Call, Move(c)
    PROVE  Lasts
<1>1. Step(c) /\ gaveUp' = gaveUp /\ TypeOK
  BY MoveIsStep DEF IInv
<1>2. \A d \in Call : d # c =>
          phase'[d] = phase[d] /\ req'[d] = req[d] /\ work'[d] = work[d] /\ reply'[d] = reply[d]
  BY <1>1, OthersUntouched, StepFrame DEF Others
<1>3. phase[c] # "idle" => req'[c] = req[c] /\ (phase'[c] = "received" => phase[c] = "received")
  BY <1>1, StepFrame, NeverReceivedAgain
<1>4. phase[c] # "done"
  BY <1>1, StepperIsBusy DEF InFlight
<1>5. \A a \in Call : \A t \in Thread : Given(a, t) => Given(a, t)'
  BY <1>1, <1>2, <1>4 DEF Given, Proposer, Answered
<1>6. placeholder' \in {placeholder, placeholder \cup {c}}
      /\ (placeholder' = placeholder \/ phase[c] = "idle")
  BY DEF Move, Propose, Decide, Serve, ReceivePropose, MayArrive
<1> QED
  BY <1>2, <1>3, <1>5, <1>6 DEF Lasts

\* Who has a request is past "idle".
LEMMA RequestedIsBusy ==
    ASSUME IInv, NEW c \in Call, req[c].kind \in {"propose", "decide"}
    PROVE  phase[c] # "idle" /\ req[c].thread \in Thread
BY RequestThread DEF IInv, FreshCalls, NoRequest

LEMMA SaidStays ==
    ASSUME IInv, Lasts, NEW v, NEW t, Said(v, t)
    PROVE  Said(v, t)'
<1>1. PICK c \in Call : Decider(c, t) /\ req[c].vote = v
  BY DEF Said
<1>2. phase[c] # "idle"
  BY <1>1, RequestedIsBusy DEF Decider
<1>3. req'[c] = req[c]
  BY <1>2 DEF Lasts
<1> QED
  BY <1>1, <1>3 DEF Said, Decider

LEMMA FitsStays ==
    ASSUME IInv, Lasts, NEW k, NEW t, Fits(k, t)
    PROVE  Fits(k, t)'
<1>1. k.next # "none" =>
          k.proposal \in Call /\ Proposer(k.proposal, t)' /\ phase'[k.proposal] # "received"
  BY RequestedIsBusy DEF Fits, Proposer, Lasts
<1>2. \A v : Said(v, t) => Said(v, t)'
  BY SaidStays
<1> QED
  BY <1>1, <1>2 DEF Fits, Lasts

\* The proposal of a state is the one its thread was given.
LEMMA ThisProposal ==
    ASSUME AgentInv, NEW t \in Thread, NEW k, Fits(k, t), k.next # "none",
           NEW a \in Call, Proposer(a, t)
    PROVE  k.proposal = a
BY DEF AgentInv, OneProposer, Fits

\* A decision finds its thread past propose_node.
LEMMA DeciderStands ==
    ASSUME IInv, AgentInv, NEW c \in Call, req[c].kind = "decide"
    PROVE  /\ req[c].thread \in Thread /\ req[c].about \in Call
           /\ Given(req[c].about, req[c].thread)
           /\ checkpoint[req[c].thread].next \in {"approval", "execute", "end"}
BY RequestedIsBusy DEF AgentInv, DecidersWereGiven, GivenStands

\* While a proposal has not been answered nobody else is on its thread.
LEMMA ProposerIsAlone ==
    ASSUME IInv, AgentInv, NEW a \in Call, req[a].kind = "propose", phase[a] # "done",
           NEW d \in Call, phase[d] # "idle", req[d].thread = req[a].thread
    PROVE  d = a
<1>1. req[d].kind \in {"propose", "decide"} /\ req[a].thread \in Thread
  BY RequestThread DEF IInv
<1>2. CASE req[d].kind = "propose"
  BY <1>1, <1>2 DEF AgentInv, OneProposer, Proposer
<1>3. CASE req[d].kind = "decide"
  <2>1. req[d].about = a
    BY <1>1, <1>3, DeciderStands DEF Given, Proposer, AgentInv, OneProposer
  <2> QED
    BY <1>3, <2>1, DeciderStands DEF Given, Answered
<1> QED
  BY <1>1, <1>2, <1>3

-----------------------------------------------------------------------------
(***************************************************************************)
(* What a move of c leaves the other calls                                 *)
(***************************************************************************)

\* The checkpoint that a failed approval_node leaves.
LEMMA KeptChanges ==
    ASSUME TypeOK, NEW c \in Call, StoreRaisesInApproval(c), NEW t \in Thread
    PROVE  \/ checkpoint'[t] = checkpoint[t]
           \/ t = req[c].thread /\ checkpoint'[t] = [checkpoint[t] EXCEPT !.kept = work[c].decision]
BY DEF StoreRaisesInApproval, TypeOK

LEMMA OthersKeepFits ==
    ASSUME IInv, AgentInv, NEW c \in Call, Move(c), NEW d \in Call, d # c
    PROVE  CallFits(d)'
<1>1. Step(c) /\ Lasts /\ TypeOK
  BY MoveIsStep, MoveLasts DEF IInv
<1>2. /\ phase'[d] = phase[d] /\ req'[d] = req[d] /\ work'[d] = work[d]
      /\ reply'[d] = reply[d]
      /\ unsaved'[d] = unsaved[d]
             \/ (unsaved[d] /\ SaveCheckpoint(c) /\ req[c].thread = req[d].thread)
  BY <1>1, OthersUntouched, StepFrame DEF Others, Overlapping
<1>3. CallFits(d)
  BY DEF AgentInv
<1>4. CASE phase[d] = "idle"
  <2>1. req[d].kind \notin {"propose", "decide"}
    BY <1>4, RequestedIsBusy
  <2> QED
    BY <1>2, <1>3, <1>4, <2>1 DEF CallFits, ToolDeclines
<1>5. CASE phase[d] # "idle"
  <2>1. PICK t \in Thread, w \in Checkpoint : t = req[d].thread /\ w = work[d] /\ Fits(w, t)
    BY <1>3, <1>5, WorkFacts DEF CallFits
  <2>2. Fits(w, t)'
    BY <1>1, <2>1, FitsStays
  <2>3. req[d].kind = "propose" => Pauses(d)'
    <3>1. ASSUME req[d].kind = "propose", phase[d] \in {"approval", "exit"}
          PROVE  ~ (SaveCheckpoint(c) /\ t = req[c].thread)
      <4>1. SaveCheckpoint(c) => phase[c] # "idle"
        BY DEF SaveCheckpoint, InFlight
      <4> QED
        BY <2>1, <3>1, <4>1, ProposerIsAlone
    <3>2. ASSUME req[d].kind = "propose", phase[d] \in {"approval", "exit"},
                 checkpoint[t].next = "approval"
          PROVE  checkpoint'[t].next = "approval"
      BY <1>1, <3>1, <3>2, CheckpointChanges
    <3> QED
      BY <1>2, <1>3, <2>1, <3>1, <3>2 DEF CallFits, Pauses
  <2>4. ToolDeclines(d)'
    <3>1. phase[d] \in {"acting", "acted", "refused"} =>
              w.proposal \in Call /\ phase[w.proposal] # "idle"
      <4>1. phase[d] \in {"acting", "acted", "refused"} => w.next = "execute"
        BY <2>1 DEF IInv, NodeOfPhase
      <4> QED
        BY <2>1, <4>1, RequestedIsBusy DEF Fits, Proposer
    <3> QED
      BY <1>1, <1>2, <1>3, <2>1, <3>1 DEF CallFits, ToolDeclines, Lasts
  <2> QED
    BY <1>2, <1>3, <2>1, <2>2, <2>3, <2>4 DEF CallFits, Resumes
<1> QED
  BY <1>4, <1>5

-----------------------------------------------------------------------------
(***************************************************************************)
(* What a move of c leaves c itself                                        *)
(***************************************************************************)

LEMMA ArriveFits ==
    ASSUME IInv, ReportsInv, AgentInv, NEW c \in Call, Move(c), Arrive(c)
    PROVE  CallFits(c)'
<1>1. /\ phase[c] = "idle" /\ phase'[c] = "received"
      /\ UNCHANGED <<work, unsaved, reply, checkpoint>>
  BY ArrivalIs DEF IInv, TypeOK
<1>2. work[c] = NoCheckpoint /\ ~unsaved[c] /\ reply[c] = "none"
  <2>1. NoCheckpoint.next = "none" /\ work[c] = NoCheckpoint
    BY <1>1 DEF IInv, FreshCalls, NoCheckpoint
  <2> QED
    BY <1>1, <2>1 DEF ReportsInv, AnsweredLast, AgentInv, CallFits
<1>3. PICK v : v = work[c]
  OBVIOUS
<1>4. v.next = "none" /\ v.decision = "none" /\ v.kept = "none" /\ v = NoCheckpoint
  BY <1>2, <1>3 DEF NoCheckpoint
<1>5. \A t : Fits(v, t)'
  BY <1>4 DEF Fits
<1> QED
  BY <1>1, <1>2, <1>3, <1>4, <1>5 DEF CallFits, Pauses, Resumes, ToolDeclines

LEMMA InvokeFits ==
    ASSUME IInv, ReportsInv, AgentInv, NEW c \in Call, Serve(c), Invoke(c)
    PROVE  CallFits(c)'
<1>1. phase[c] = "received" /\ UNCHANGED <<req, checkpoint, placeholder>>
  BY DEF Invoke, InvokeStart, ResumeUnknown, ResumePaused, ResumeUnfinished, ResumeFinished, Serve
<1>2. Lasts /\ TypeOK
  BY MoveLasts DEF Move, IInv
<1>3. PICK t \in Thread, k \in Checkpoint : t = req[c].thread /\ k = checkpoint[t] /\ Fits(k, t)
  BY <1>1, WorkFacts DEF AgentInv
<1>4. reply[c] = "none"
  BY <1>1 DEF ReportsInv, AnsweredLast
<1>5. CASE InvokeStart(c)
  <2>1. /\ phase'[c] = "propose" /\ reply' = reply /\ req[c].kind = "propose"
        /\ work'[c] = [k EXCEPT !.next = "propose", !.proposal = c, !.kept = "none"]
    BY <1>2, <1>3, <1>5 DEF InvokeStart, NodeReturns, Goto, TypeOK
  <2>2. k.next = "none"
    BY <1>1, <1>3, <2>1, ThisProposal DEF Proposer, Fits
  <2>3. k.decision = "none"
    BY <1>3, <2>2 DEF Fits, NoCheckpoint
  <2>4. PICK v : v = work'[c]
    OBVIOUS
  <2>5. v.next = "propose" /\ v.proposal = c /\ v.decision = "none" /\ v.kept = "none"
    BY <2>1, <2>3, <2>4, Fields
  <2>6. Fits(v, t)'
    BY <1>1, <1>3, <2>1, <2>5 DEF Fits, Proposer
  <2> QED
    BY <1>1, <1>3, <1>4, <2>1, <2>4, <2>5, <2>6 DEF CallFits, Pauses, ToolDeclines
<1>6. ASSUME req[c].kind = "decide"
      PROVE  k.next \in {"approval", "execute", "end"} /\ Said(req[c].vote, t)
  BY <1>3, <1>6, DeciderStands DEF Said, Decider
<1>7. ~ResumeUnknown(c)
  BY <1>3, <1>6 DEF ResumeUnknown
<1>8. CASE ResumePaused(c)
  <2>1. PICK x : x = IF k.kept = "none" THEN req[c].vote ELSE k.kept
    OBVIOUS
  <2>2. /\ phase'[c] = "resolve" /\ reply' = reply /\ req[c].kind = "decide"
        /\ k.next = "approval" /\ work'[c] = [k EXCEPT !.decision = x]
    BY <1>2, <1>3, <1>8, <2>1 DEF ResumePaused, Goto, TypeOK
  <2>3. Said(x, t)
    BY <1>3, <1>6, <2>1, <2>2 DEF Fits
  <2>4. PICK v : v = work'[c]
    OBVIOUS
  <2>5. /\ v.next = "approval" /\ v.proposal = k.proposal /\ v.action = k.action
        /\ v.decision = x /\ v.kept = k.kept
    BY <2>2, <2>4, Fields
  <2>6. Fits(v, t)
    BY <1>3, <2>2, <2>3, <2>5 DEF Fits
  <2>7. Fits(v, t)'
    BY <1>2, <2>6, FitsStays
  <2> QED
    BY <1>1, <1>3, <2>2, <2>4, <2>5, <2>7 DEF CallFits, Resumes, ToolDeclines
<1>9. CASE ResumeUnfinished(c)
  <2>1. req[c].kind = "decide" /\ k.next = "execute" /\ work'[c] = k /\ phase'[c] = "execute"
    BY <1>2, <1>3, <1>6, <1>9 DEF ResumeUnfinished, Goto, TypeOK
  <2>2. Fits(k, t)'
    BY <1>2, <1>3, FitsStays
  <2> QED
    BY <1>1, <1>3, <2>1, <2>2 DEF CallFits, Resumes, ToolDeclines
<1>10. CASE ResumeFinished(c)
  <2>1. /\ req[c].kind = "decide" /\ k.next = "end" /\ work'[c] = k
        /\ phase'[c] = "exit" /\ reply'[c] = k.result
    BY <1>2, <1>3, <1>10 DEF ResumeFinished, Exit, Goto, TypeOK
  <2>2. Fits(k, t)'
    BY <1>2, <1>3, FitsStays
  <2> QED
    BY <1>1, <1>3, <2>1, <2>2 DEF CallFits, Resumes, ToolDeclines
<1> QED
  BY <1>5, <1>7, <1>8, <1>9, <1>10 DEF Invoke

LEMMA ProposeFits ==
    ASSUME IInv, ReportsInv, AgentInv, NEW c \in Call, Serve(c),
           ProposeKeyError(c) \/ InsertRecord(c) \/ LogProposed(c) \/ Interrupt(c)
    PROVE  CallFits(c)'
<1>1. /\ phase[c] \in {"propose", "logProposed", "approval"}
      /\ UNCHANGED <<req, checkpoint, placeholder>>
  BY DEF ProposeKeyError, InsertRecord, LogProposed, Interrupt, Serve
<1>2. Lasts /\ TypeOK /\ CallFits(c)
  BY MoveLasts DEF Move, IInv, AgentInv
<1>3. PICK t \in Thread, w \in Checkpoint : t = req[c].thread /\ w = work[c] /\ Fits(w, t)
  BY <1>1, <1>2, WorkFacts DEF CallFits
<1>4. reply[c] = "none"
  BY <1>1 DEF ReportsInv, AnsweredLast
<1>5. req[c].kind = "propose"
  BY <1>1, <1>2, RequestThread DEF CallFits, Resumes
<1>6. w.proposal = c /\ w.next \in {"propose", "approval"}
  <2>1. w.next \in {"propose", "approval"}
    BY <1>1, <1>3 DEF IInv, NodeOfPhase
  <2> QED
    BY <1>3, <1>5, <2>1, ThisProposal DEF Proposer
<1>7. Fits(w, t)'
  BY <1>2, <1>3, FitsStays
<1>8. ~ProposeKeyError(c)
  BY <1>3, <1>6, NoCallAssumption DEF ProposeKeyError
<1>9. CASE InsertRecord(c)
  <2>1. phase'[c] = "logProposed" /\ UNCHANGED <<work, unsaved, reply>>
    BY <1>2, <1>9 DEF InsertRecord, Goto, TypeOK
  <2> QED
    BY <1>1, <1>2, <1>3, <1>4, <1>5, <1>7, <2>1 DEF CallFits, Pauses, ToolDeclines
<1>10. CASE LogProposed(c)
  <2>1. /\ phase'[c] = "approval" /\ unsaved'[c] = TRUE /\ reply' = reply
        /\ work'[c] = [w EXCEPT !.next = "approval", !.action = c]
    BY <1>2, <1>3, <1>10 DEF LogProposed, NodeReturns, Goto, TypeOK
  <2>2. PICK v : v = work'[c]
    OBVIOUS
  <2>3. /\ v.next = "approval" /\ v.action = c /\ v.proposal = w.proposal
        /\ v.decision = w.decision /\ v.kept = w.kept
    BY <2>1, <2>2, Fields
  <2>4. Fits(v, t)
    BY <1>3, <1>6, <2>3 DEF Fits
  <2>5. Fits(v, t)'
    BY <1>2, <2>4, FitsStays
  <2> QED
    BY <1>1, <1>3, <1>4, <1>5, <2>1, <2>2, <2>3, <2>5 DEF CallFits, Pauses, ToolDeclines
<1>11. CASE Interrupt(c)
  <2>1. /\ phase[c] = "approval" /\ phase'[c] = "exit" /\ reply'[c] = "paused"
        /\ UNCHANGED <<work, unsaved>>
    BY <1>2, <1>11 DEF Interrupt, Exit, Goto, TypeOK
  <2>2. w.next = "approval"
    BY <1>3, <2>1 DEF IInv, NodeOfPhase
  <2> QED
    BY <1>1, <1>2, <1>3, <1>5, <1>7, <2>1, <2>2 DEF CallFits, Pauses, ToolDeclines
<1> QED
  BY <1>8, <1>9, <1>10, <1>11

LEMMA ApprovalFits ==
    ASSUME IInv, ReportsInv, AgentInv, NEW c \in Call, Serve(c),
           ResolveRecord(c) \/ ResolveNothing(c) \/ LogDecision(c)
    PROVE  CallFits(c)'
<1>1. /\ phase[c] \in {"resolve", "logDecision"}
      /\ UNCHANGED <<req, placeholder, reply>>
  BY DEF ResolveRecord, ResolveNothing, LogDecision, Serve
<1>2. Lasts /\ TypeOK /\ CallFits(c)
  BY MoveLasts DEF Move, IInv, AgentInv
<1>3. PICK t \in Thread, w \in Checkpoint : t = req[c].thread /\ w = work[c] /\ Fits(w, t)
  BY <1>1, <1>2, WorkFacts DEF CallFits
<1>4. req[c].kind = "decide" /\ w.next = "approval" /\ w.decision \in Vote
  BY <1>1, <1>3 DEF IInv, NodeOfPhase, DecisionAtHand
<1>5. CASE ResolveRecord(c)
  <2>1. phase'[c] = "logDecision" /\ UNCHANGED <<work, unsaved>>
    BY <1>2, <1>5 DEF ResolveRecord, Goto, TypeOK
  <2>2. Fits(w, t)'
    BY <1>2, <1>3, FitsStays
  <2> QED
    BY <1>1, <1>2, <1>3, <1>4, <2>1, <2>2 DEF CallFits, Resumes, ToolDeclines
<1>6. CASE ResolveNothing(c) \/ LogDecision(c)
  <2>1. phase'[c] = "execute" /\ work'[c] = [w EXCEPT !.next = "execute", !.kept = "none"]
    BY <1>2, <1>3, <1>6 DEF ResolveNothing, LogDecision, NodeReturns, Goto, TypeOK
  <2>2. PICK v : v = work'[c]
    OBVIOUS
  <2>3. /\ v.next = "execute" /\ v.action = w.action /\ v.proposal = w.proposal
        /\ v.decision = w.decision /\ v.kept = "none"
    BY <2>1, <2>2, Fields
  <2>4. Fits(v, t)
    BY <1>3, <1>4, <2>3 DEF Fits
  <2>5. Fits(v, t)'
    BY <1>2, <2>4, FitsStays
  <2> QED
    BY <1>1, <1>3, <1>4, <2>1, <2>2, <2>3, <2>5 DEF CallFits, Resumes, ToolDeclines
<1> QED
  BY <1>5, <1>6

\* Inside execute_node the tool is told apart by what it does of the proposal.
LEMMA ToolFits ==
    ASSUME IInv, AgentInv, NEW c \in Call, Serve(c),
           AuditExecution(c) \/ CallTool(c) \/ ToolRefuses(c) \/ StoreRaisesInGuard(c) \/ ToolRaises(c)
    PROVE  CallFits(c)'
<1>1. phase[c] \in {"execute", "acting"} /\ UNCHANGED <<req, work, unsaved, reply, placeholder>>
  BY DEF AuditExecution, CallTool, ToolRefuses, StoreRaisesInGuard, ToolRaises, Serve
<1>2. Lasts /\ TypeOK /\ CallFits(c)
  BY MoveLasts DEF Move, IInv, AgentInv
<1>3. PICK t \in Thread, w \in Checkpoint : t = req[c].thread /\ w = work[c] /\ Fits(w, t)
  BY <1>1, <1>2, WorkFacts DEF CallFits
<1>4. req[c].kind = "decide" /\ Fits(w, t)'
  BY <1>1, <1>2, <1>3, FitsStays DEF IInv, NodeOfPhase
<1>5. /\ phase'[c] \in {"acting", "acted", "refused", "failing"}
      /\ phase'[c] = "acted" => phase[c] = "acting"
      /\ phase'[c] = "refused" => work[c].decision = "approved"
  BY <1>2 DEF AuditExecution, CallTool, ToolRefuses, StoreRaisesInGuard, ToolRaises, Goto, TypeOK
<1>6. ToolDeclines(c)'
  BY <1>1, <1>2, <1>5 DEF ToolDeclines, CallFits, Serve
<1> QED
  BY <1>1, <1>2, <1>3, <1>4, <1>5, <1>6 DEF CallFits, Resumes

LEMMA FinishFits ==
    ASSUME IInv, AgentInv, NEW c \in Call, Serve(c),
           FinishRejected(c) \/ FinishExecuted(c) \/ FinishRefused(c)
    PROVE  CallFits(c)'
<1>1. PICK r \in {"executed", "rejected", "refused"} :
          /\ phase[c] \in {"execute", "acted", "refused"} /\ phase'[c] = "exit"
          /\ reply'[c] = r /\ UNCHANGED <<req, placeholder>>
          /\ work'[c] = [work[c] EXCEPT !.next = "end", !.result = r]
          /\ r = "rejected" => work[c].decision # "approved"
          /\ r = "refused" => phase[c] = "refused"
  <2> TypeOK
    BY DEF IInv
  <2> USE DEF Finish, NodeReturns, Exit, Goto, TypeOK, Serve
  <2>1. CASE FinishRejected(c)
    BY <2>1 DEF FinishRejected
  <2>2. CASE FinishExecuted(c)
    BY <2>2 DEF FinishExecuted
  <2>3. CASE FinishRefused(c)
    BY <2>3 DEF FinishRefused
  <2> QED
    BY <2>1, <2>2, <2>3
<1>2. Lasts /\ CallFits(c)
  BY MoveLasts DEF Move, AgentInv
<1>3. PICK t \in Thread, w \in Checkpoint : t = req[c].thread /\ w = work[c] /\ Fits(w, t)
  BY <1>1, <1>2, WorkFacts DEF CallFits
<1>4. req[c].kind = "decide" /\ w.next = "execute"
  <2>1. w.next = "execute" /\ (phase[c] \in {"execute", "acted", "refused"} => req[c].kind = "decide")
    BY <1>1, <1>3 DEF IInv, NodeOfPhase
  <2> QED
    BY <1>1, <2>1
<1>5. PICK v : v = work'[c]
  OBVIOUS
<1>6. /\ v.next = "end" /\ v.action = w.action /\ v.proposal = w.proposal
      /\ v.decision = w.decision /\ v.kept = w.kept /\ v.result = r
  BY <1>1, <1>3, <1>5, Fields
<1>7. r = "rejected" => w.decision = "rejected"
  BY <1>1, <1>3, <1>4 DEF Fits, Vote
<1>8. r = "refused" => w.decision = "approved" /\ w.proposal \in placeholder
  BY <1>1, <1>2, <1>3 DEF CallFits, ToolDeclines
<1>9. Fits(v, t)
  BY <1>3, <1>4, <1>6, <1>7, <1>8 DEF Fits
<1>10. Fits(v, t)'
  BY <1>2, <1>9, FitsStays
<1> QED
  BY <1>1, <1>3, <1>4, <1>5, <1>6, <1>10 DEF CallFits, Resumes, ToolDeclines

\* An exception answers "error", from wherever it comes.
LEMMA ErrorFits ==
    ASSUME IInv, AgentInv, NEW c \in Call, Serve(c),
           RecordFailure(c) \/ StoreRaises(c) \/ StoreRaisesInApproval(c) \/ ToolNotConfigured(c)
    PROVE  CallFits(c)'
<1>1. /\ phase[c] \in {"received", "propose", "logProposed", "resolve", "logDecision",
                       "execute", "acted", "refused", "failing"}
      /\ UNCHANGED <<req, work, unsaved, placeholder>>
  BY DEF RecordFailure, StoreRaises, StoreRaisesInApproval, ToolNotConfigured, Serve
<1>2. Lasts /\ TypeOK /\ CallFits(c)
  BY MoveLasts DEF Move, IInv, AgentInv
<1>3. phase'[c] = "exit" /\ reply'[c] = "error"
  BY <1>2 DEF RecordFailure, StoreRaises, StoreRaisesInApproval, ToolNotConfigured, Exit, Goto, TypeOK
<1>4. PICK t \in Thread, w \in Checkpoint : t = req[c].thread /\ w = work[c] /\ Fits(w, t)
  BY <1>1, <1>2, WorkFacts DEF CallFits
<1>5. Fits(w, t)'
  BY <1>2, <1>4, FitsStays
<1>6. req[c].kind = "propose" => w.next # "approval"
  <2>1. NoCheckpoint.next = "none"
    BY DEF NoCheckpoint
  <2> QED
    BY <1>1, <1>4, <2>1 DEF IInv, NodeOfPhase, FreshCalls
<1> QED
  BY <1>1, <1>2, <1>3, <1>4, <1>5, <1>6 DEF CallFits, Pauses, Resumes, ToolDeclines

\* The writer's turn, the answer, and a death leave the state in memory alone.
LEMMA LeaveFits ==
    ASSUME IInv, AgentInv, NEW c \in Call, Serve(c),
           SaveCheckpoint(c) \/ Respond(c) \/ CheckpointRaises(c) \/ Crash(c)
    PROVE  CallFits(c)'
<1>1. InFlight(c) /\ UNCHANGED <<req, work, placeholder>>
  BY DEF SaveCheckpoint, Respond, CheckpointRaises, Crash, InFlight, Serve
<1>2. Lasts /\ TypeOK /\ CallFits(c)
  BY MoveLasts DEF Move, IInv, AgentInv
<1>3. PICK t \in Thread, w \in Checkpoint : t = req[c].thread /\ w = work[c] /\ Fits(w, t)
  BY <1>1, <1>2, WorkFacts DEF CallFits, InFlight
<1>4. Fits(w, t)'
  BY <1>2, <1>3, FitsStays
<1>5. CASE SaveCheckpoint(c)
  <2>1. /\ phase' = phase /\ reply' = reply /\ ~unsaved'[c] /\ checkpoint'[t] = w
        /\ unsaved[c] /\ phase[c] # "idle"
    BY <1>2, <1>3, <1>5 DEF SaveCheckpoint, TypeOK, InFlight
  <2>2. /\ phase[c] = "approval" => w.next = "approval"
        /\ reply[c] = "paused" /\ req[c].kind = "propose" => w.next = "approval"
    BY <1>2, <1>3 DEF IInv, NodeOfPhase, CallFits, Pauses
  <2> QED
    BY <1>1, <1>2, <1>3, <1>4, <2>1, <2>2 DEF CallFits, Pauses, Resumes, ToolDeclines
<1>6. CASE Respond(c)
  <2>1. phase[c] = "exit" /\ phase'[c] = "done" /\ UNCHANGED <<reply, unsaved, checkpoint>>
    BY <1>2, <1>6 DEF Respond, Goto, TypeOK
  <2> QED
    BY <1>1, <1>2, <1>3, <1>4, <2>1 DEF CallFits, Pauses, Resumes, ToolDeclines
<1>7. CASE Crash(c)
  <2>1. phase'[c] = "dead" /\ reply' = reply /\ ~unsaved'[c]
    BY <1>2, <1>7 DEF Crash, Goto, TypeOK
  <2> QED
    BY <1>1, <1>2, <1>3, <1>4, <2>1 DEF CallFits, Pauses, Resumes, ToolDeclines
<1>8. CASE CheckpointRaises(c)
  <2>1. /\ phase[c] = "exit" /\ phase'[c] = "exit" /\ reply'[c] = "error"
        /\ ~unsaved'[c] /\ checkpoint' = checkpoint
    BY <1>2, <1>8 DEF CheckpointRaises, Exit, Goto, TypeOK
  <2> QED
    BY <1>1, <1>2, <1>3, <1>4, <2>1 DEF CallFits, Pauses, Resumes, ToolDeclines
<1> QED
  BY <1>5, <1>6, <1>7, <1>8

LEMMA MoveFits ==
    ASSUME IInv, ReportsInv, AgentInv, NEW c \in Call, Move(c)
    PROVE  CallFits(c)'
<1>1. Serve(c) \/ Arrive(c)
  <2>1. Serve(c) \/ (Step(c) /\ phase[c] = "idle")
    BY MoveIsStep DEF Move, Propose, Decide, ReceivePropose, ReceiveDecision, MayArrive
  <2> QED
    BY <2>1, StepperIsBusy DEF InFlight
<1>2. Serve(c) => Invoke(c) \/ RunNode(c) \/ SaveCheckpoint(c) \/ Respond(c) \/ Fault(c)
  BY DEF Serve, Progress
<1>3. Serve(c) /\ RunNode(c) => CallFits(c)'
  BY ProposeFits, ApprovalFits, ToolFits, FinishFits, ErrorFits DEF RunNode
<1>4. Serve(c) /\ Fault(c) => CallFits(c)'
  BY ToolFits, ErrorFits, LeaveFits DEF Fault
<1> QED
  BY <1>1, <1>2, <1>3, <1>4, ArriveFits, InvokeFits, LeaveFits

-----------------------------------------------------------------------------
(***************************************************************************)
(* The invariant                                                           *)
(***************************************************************************)

LEMMA CheckpointsFit ==
    ASSUME IInv, AgentInv, NEW c \in Call, Move(c), NEW t \in Thread
    PROVE  Fits(checkpoint[t], t)'
<1>1. Step(c) /\ Lasts /\ TypeOK
  BY MoveIsStep, MoveLasts DEF IInv
<1>2. PICK k \in Checkpoint : k = checkpoint[t] /\ Fits(k, t)
  BY <1>1 DEF AgentInv, TypeOK
<1>3. CASE checkpoint'[t] = k
  <2>1. Fits(k, t)'
    BY <1>1, <1>2, FitsStays
  <2> QED
    BY <1>3, <2>1
<1>4. CASE SaveCheckpoint(c) /\ t = req[c].thread /\ checkpoint'[t] = work[c]
  <2>1. PICK w : w = work[c] /\ Fits(w, t)
    BY <1>4 DEF SaveCheckpoint, InFlight, AgentInv, CallFits
  <2>2. Fits(w, t)'
    BY <1>1, <2>1, FitsStays
  <2> QED
    BY <1>4, <2>1, <2>2
<1>5. CASE StoreRaisesInApproval(c) /\ t = req[c].thread
           /\ checkpoint'[t] = [k EXCEPT !.kept = work[c].decision]
  <2>1. PICK w : w = work[c] /\ Fits(w, t)
    BY <1>5 DEF StoreRaisesInApproval, AgentInv, CallFits
  <2>2. Said(w.decision, t)
    <3>1. w.decision # "none"
      BY <1>5, <2>1 DEF StoreRaisesInApproval, IInv, DecisionAtHand, Vote
    <3> QED
      BY <2>1, <3>1 DEF Fits
  <2>3. PICK v : v = checkpoint'[t]
    OBVIOUS
  <2>4. /\ v.next = k.next /\ v.action = k.action /\ v.proposal = k.proposal
        /\ v.decision = k.decision /\ v.result = k.result /\ v.kept = w.decision
    BY <1>2, <1>5, <2>1, <2>3, Fields
  <2>5. k.next # "none"
    <3>1. PICK d \in {c} : req[d].kind = "decide" /\ req[d].thread = t
      BY <1>5 DEF StoreRaisesInApproval, IInv, NodeOfPhase
    <3> QED
      BY <1>2, <3>1, DeciderStands
  <2>6. Fits(v, t)
    BY <1>2, <2>2, <2>4, <2>5 DEF Fits
  <2>7. Fits(v, t)'
    BY <1>1, <2>6, FitsStays
  <2> QED
    BY <2>3, <2>7
<1>6. StoreRaisesInApproval(c) =>
          \/ checkpoint'[t] = k
          \/ t = req[c].thread /\ checkpoint'[t] = [k EXCEPT !.kept = work[c].decision]
  BY <1>1, <1>2, KeptChanges
<1> QED
  BY <1>1, <1>2, <1>3, <1>4, <1>5, <1>6, CheckpointChanges

LEMMA GivenStandsStays ==
    ASSUME IInv, AgentInv, NEW c \in Call, Move(c)
    PROVE  GivenStands'
<1> SUFFICES ASSUME NEW a \in Call, NEW t \in Thread, Given(a, t)'
             PROVE  checkpoint'[t].next \in {"approval", "execute", "end"}
  BY DEF GivenStands
<1>1. Step(c) /\ gaveUp' = gaveUp /\ TypeOK
  BY MoveIsStep DEF IInv
<1>2. CASE Given(a, t)
  <2>1. checkpoint[t].next \in {"approval", "execute", "end"}
    BY <1>2 DEF AgentInv, GivenStands
  <2>2. ASSUME SaveCheckpoint(c), t = req[c].thread
        PROVE  work[c].next \in {"approval", "execute", "end"}
    <3>1. InFlight(c) /\ CallFits(c) /\ work[c].next # "none"
      BY <2>2 DEF SaveCheckpoint, AgentInv, CallFits
    <3>2. req[c].kind # "propose"
      BY <1>2, <2>2, <3>1 DEF Given, Answered, Proposer, InFlight, AgentInv, OneProposer
    <3>3. req[c].kind = "decide"
      BY <3>1, <3>2, RequestThread DEF InFlight, IInv
    <3> QED
      BY <3>1, <3>3 DEF CallFits, Resumes
  <2> QED
    BY <1>1, <2>1, <2>2, CheckpointChanges
<1>3. CASE ~Given(a, t)
  <2>1. a = c
    BY <1>1, <1>3, OthersUntouched, StepFrame DEF Others, Given, Proposer, Answered
  <2>2. phase[c] # "idle" /\ phase[c] # "done"
    BY <1>1, <2>1, StepperIsBusy, ArrivalIs DEF Given, Answered, InFlight, TypeOK
  <2>3. req'[c] = req[c]
    BY <1>1, <2>2, StepFrame
  <2>4. Respond(c)
    <3> USE <2>1, <2>2 DEF Given, Answered, TypeOK, Goto, Exit, NodeReturns
    <3>1. ~Arrive(c)
      BY DEF Arrive, ReceivePropose, ReceiveDecision, MayArrive
    <3>2. ~Invoke(c)
      <4>1. Invoke(c) => phase'[c] \in {"propose", "resolve", "execute", "exit"}
        BY <1>1 DEF Invoke, InvokeStart, ResumeUnknown, ResumePaused, ResumeUnfinished, ResumeFinished
      <4> QED
        BY <4>1
    <3>3. ~RunNode(c)
      BY <1>1 DEF RunNode, ProposeKeyError, InsertRecord, LogProposed, Interrupt, ResolveRecord,
         ResolveNothing, LogDecision, FinishRejected, AuditExecution, CallTool,
         FinishExecuted, FinishRefused, RecordFailure, Finish
    <3>4. ~Fault(c)
      BY <1>1 DEF Fault, ToolRaises, StoreRaises, StoreRaisesInApproval, StoreRaisesInGuard,
         ToolRefuses, ToolNotConfigured, CheckpointRaises, Crash
    <3>5. ~SaveCheckpoint(c)
      BY DEF SaveCheckpoint
    <3> QED
      BY <1>1, <3>1, <3>2, <3>3, <3>4, <3>5 DEF Step, Progress
  <2>5. phase[c] = "exit" /\ ~unsaved[c] /\ UNCHANGED <<work, reply, checkpoint>>
    BY <2>4 DEF Respond
  <2>6. req[c].kind = "propose" /\ req[c].thread = t /\ reply[c] = "paused"
    BY <2>1, <2>3, <2>5 DEF Given, Proposer
  <2>7. checkpoint[t].next = "approval"
    BY <2>5, <2>6 DEF AgentInv, CallFits, Pauses
  <2> QED
    BY <2>5, <2>7
<1> QED
  BY <1>2, <1>3

\* The action_id in the reply is the proposal's own.
LEMMA GivenAction ==
    ASSUME AgentInv, NEW a \in Call, NEW t \in Thread, Given(a, t)
    PROVE  work[a].action = a
<1>1. phase[a] # "idle" /\ req[a].kind = "propose" /\ req[a].thread = t /\ reply[a] = "paused"
  BY DEF Given, Answered, Proposer
<1>2. PICK w : w = work[a] /\ Fits(w, t) /\ w.next = "approval"
  BY <1>1 DEF AgentInv, CallFits, Pauses
<1>3. w.proposal = a
  BY <1>2, ThisProposal DEF Given
<1> QED
  BY <1>2, <1>3 DEF Fits

LEMMA DecidersStayGiven ==
    ASSUME IInv, AgentInv, NEW c \in Call, Move(c)
    PROVE  DecidersWereGiven'
<1>1. Lasts /\ Step(c) /\ TypeOK
  BY MoveLasts, MoveIsStep DEF IInv
<1>2. ASSUME NEW d \in Call, req[d].kind = "decide"
      PROVE  (req[d].about \in Call /\ Given(req[d].about, req[d].thread))'
  <2>1. PICK a \in Call, t \in Thread :
            a = req[d].about /\ t = req[d].thread /\ Given(a, t)
    BY <1>1, <1>2, RequestThread, DeciderStands
  <2>2. req'[d] = req[d]
    BY <1>1, <1>2, RequestedIsBusy DEF Lasts
  <2>3. Given(a, t)'
    BY <1>1, <2>1 DEF Lasts
  <2> QED
    BY <2>1, <2>2, <2>3
<1>3. ASSUME NEW d \in Call, req[d].kind # "decide", req'[d].kind = "decide"
      PROVE  (req[d].about \in Call /\ Given(req[d].about, req[d].thread))'
  <2>1. d = c /\ phase[c] = "idle"
    BY <1>1, <1>3, OthersUntouched, StepFrame DEF Others
  <2>2. PICK t \in Thread, vote \in Vote : Decide(c, t, vote)
    <3>1. ~Serve(c)
      BY <2>1, StepperIsBusy, RequestsStay, <1>1, <1>3 DEF Serve
    <3>2. \A t \in Thread : ~Propose(c, t)
      BY <1>1, <1>3, <2>1 DEF Propose, ReceivePropose, TypeOK
    <3> QED
      BY <3>1, <3>2 DEF Move
  <2>3. PICK a \in Call : Given(a, t) /\ ReceiveDecision(c, t, vote, work[a].action)
    BY <2>2 DEF Decide
  <2>4. work[a].action = a
    BY <2>3, GivenAction
  <2>5. req'[c].about = a /\ req'[c].thread = t
    BY <1>1, <2>3, <2>4 DEF ReceiveDecision, TypeOK
  <2>6. Given(a, t)'
    BY <1>1, <2>3 DEF Lasts
  <2> QED
    BY <2>1, <2>5, <2>6
<1> QED
  BY <1>2, <1>3 DEF DecidersWereGiven

LEMMA OneProposerStays ==
    ASSUME IInv, AgentInv, NEW c \in Call, Move(c)
    PROVE  OneProposer'
<1>1. Lasts /\ Step(c) /\ TypeOK
  BY MoveLasts, MoveIsStep DEF IInv
<1>2. ASSUME NEW d \in Call, NEW t \in Thread, Proposer(d, t)', ~Proposer(d, t)
      PROVE  d = c /\ \A b \in Call : ~Proposer(b, t)
  <2>1. d = c /\ phase[c] = "idle"
    BY <1>1, <1>2, OthersUntouched, StepFrame DEF Others, Proposer
  <2>2. PICK s \in Thread : Propose(c, s)
    <3>1. ~Serve(c)
      BY <1>1, <1>2, <2>1, RequestsStay DEF Serve, Proposer
    <3>2. \A s \in Thread, vote \in Vote : ~Decide(c, s, vote)
      BY <1>1, <1>2, <2>1 DEF Decide, ReceiveDecision, Proposer, TypeOK
    <3> QED
      BY <3>1, <3>2 DEF Move
  <2>3. s = t
    BY <1>1, <1>2, <2>1, <2>2 DEF Propose, ReceivePropose, Proposer, TypeOK
  <2> QED
    BY <2>1, <2>2, <2>3 DEF Propose, Proposer, NoRequest
<1>3. ASSUME NEW d \in Call, NEW e \in Call, NEW t \in Thread,
             Proposer(d, t)', Proposer(e, t)'
      PROVE  d = e
  <2>1. CASE Proposer(d, t) /\ Proposer(e, t)
    BY <2>1 DEF AgentInv, OneProposer
  <2>2. CASE ~Proposer(d, t)
    <3>1. d = c /\ ~Proposer(e, t)
      BY <1>2, <1>3, <2>2
    <3>2. e = c
      BY <1>2, <1>3, <3>1
    <3> QED
      BY <3>1, <3>2
  <2>3. CASE ~Proposer(e, t)
    <3>1. e = c /\ ~Proposer(d, t)
      BY <1>2, <1>3, <2>3
    <3>2. d = c
      BY <1>2, <1>3, <3>1
    <3> QED
      BY <3>1, <3>2
  <2> QED
    BY <2>1, <2>2, <2>3
<1> QED
  BY <1>3 DEF OneProposer

LEMMA StoredVotesStay ==
    ASSUME IInv, AgentInv, NEW c \in Call, Move(c)
    PROVE  StoredVotes'
<1>1. Lasts /\ Step(c) /\ TypeOK
  BY MoveLasts, MoveIsStep DEF IInv
<1> SUFFICES ASSUME NEW a \in Call, pending'[a].status \in Vote
             PROVE  Said(pending[a].status, pending[a].thread)'
  BY DEF StoredVotes
<1>2. CASE pending'[a] = pending[a]
  <2>1. Said(pending[a].status, pending[a].thread)
    BY <1>2 DEF AgentInv, StoredVotes
  <2>2. PICK v, t : v = pending[a].status /\ t = pending[a].thread
    OBVIOUS
  <2>3. Said(v, t)
    BY <2>1, <2>2
  <2>4. Said(v, t)'
    BY <1>1, <2>3, SaidStays
  <2> QED
    BY <1>2, <2>2, <2>4 DEF Said, Decider
<1>3. CASE pending'[a] # pending[a]
  <2>1. ~InsertRecord(c)
    BY <1>1, <1>3 DEF InsertRecord, TypeOK, Vote
  <2>2. ResolveRecord(c)
    BY <1>1, <1>3, <2>1, RecordsChange
  <2>3. PICK t \in Thread, w \in Checkpoint :
            t = req[c].thread /\ w = work[c] /\ Fits(w, t) /\ Sound(w, t)
    BY <2>2, WorkFacts DEF ResolveRecord, AgentInv, CallFits
  <2>4. w.next = "approval" /\ w.decision \in Vote
    BY <2>2, <2>3 DEF ResolveRecord, IInv, NodeOfPhase, DecisionAtHand
  <2>5. w.action = a /\ pending[a] \in Record /\ pending[a].thread = t
    BY <1>1, <1>3, <2>2, <2>3, <2>4 DEF ResolveRecord, Sound, TypeOK
  <2>6. PICK v : v = w.decision /\ Said(v, t)
    BY <2>3, <2>4 DEF Fits, Vote
  <2>7. pending'[a] = [pending[a] EXCEPT !.status = v]
    BY <1>1, <2>2, <2>3, <2>5, <2>6 DEF ResolveRecord, TypeOK
  <2>8. pending'[a].status = v /\ pending'[a].thread = t
    BY <2>5, <2>7 DEF Record
  <2>9. Said(v, t)'
    BY <1>1, <2>6, SaidStays
  <2> QED
    BY <2>8, <2>9 DEF Said, Decider
<1> QED
  BY <1>2, <1>3

LEMMA OwnEffectsStay ==
    ASSUME IInv, AgentInv, NEW c \in Call, Move(c)
    PROVE  OwnEffects'
<1>1. Lasts /\ Step(c) /\ TypeOK
  BY MoveLasts, MoveIsStep DEF IInv
<1> SUFFICES ASSUME NEW e \in effects'
             PROVE  /\ e.action = req'[e.call].about
                    /\ e.proposal = req'[e.call].about
                    /\ e.proposal \notin placeholder'
  BY DEF OwnEffects
<1>2. ASSUME NEW d \in Call, d = e.call, req[d].kind = "decide",
             e.action = req[d].about, e.proposal = req[d].about, e.proposal \notin placeholder
      PROVE  /\ e.action = req'[d].about
             /\ e.proposal = req'[d].about
             /\ e.proposal \notin placeholder'
  <2>1. req'[d] = req[d]
    BY <1>1, <1>2, RequestedIsBusy DEF Lasts
  <2>2. phase[e.proposal] = "done"
    BY <1>2, DeciderStands DEF Given, Answered
  <2> QED
    BY <1>1, <1>2, <2>1, <2>2 DEF Lasts
<1>3. CASE e \in effects
  <2>1. e.call \in Call /\ req[e.call].kind = "decide"
    BY <1>1, <1>3 DEF TypeOK, Effect, IInv, NoEffectWithoutApproval
  <2> QED
    BY <1>2, <1>3, <2>1 DEF AgentInv, OwnEffects
<1>4. CASE e \notin effects
  <2>1. phase[c] = "acting" /\ e = EffectOf(c)
    BY <1>1, <1>4, NewEffects
  <2>2. e.call = c /\ e.action = work[c].action /\ e.proposal = work[c].proposal
    BY <2>1 DEF EffectOf
  <2>3. work[c].next = "execute" /\ req[c].kind = "decide"
    BY <2>1 DEF IInv, NodeOfPhase
  <2>4. PICK w \in Checkpoint, t \in Thread : w = work[c] /\ t = req[c].thread /\ Fits(w, t)
    BY <2>1, <2>3, WorkFacts, RequestThread DEF AgentInv, CallFits
  <2>5. w.proposal = req[c].about /\ w.action = w.proposal
    BY <2>3, <2>4, DeciderStands, ThisProposal DEF Given, Fits
  <2>6. w.proposal \notin placeholder
    BY <2>1, <2>4 DEF AgentInv, CallFits, ToolDeclines
  <2> QED
    BY <1>2, <2>2, <2>3, <2>4, <2>5, <2>6
<1> QED
  BY <1>3, <1>4

\* A client that gives up leaves everything as it is.
LEMMA GiveUpKeeps ==
    ASSUME IInv, AgentInv, NEW c \in Call, GiveUp(c)
    PROVE  AgentInv'
<1>1. InFlight(c) /\ gaveUp' = gaveUp \cup {c} /\ UNCHANGED <<vars, placeholder>>
  BY DEF GiveUp, Waiting
<1>2. UNCHANGED <<phase, req, work, unsaved, reply, checkpoint, pending, effects>>
  BY <1>1 DEF vars, callVars, storeVars
<1>3. \A a, t : Given(a, t)' <=> Given(a, t)
  BY <1>1, <1>2 DEF Given, Answered, Proposer, InFlight
<1> USE <1>1, <1>2 DEF AgentInv
<1>4. OneOpinion' /\ OneProposer' /\ OwnEffects'
  BY DEF OneOpinion, OneProposer, OwnEffects, Proposer
<1>5. DecidersWereGiven' /\ GivenStands'
  BY <1>3 DEF DecidersWereGiven, GivenStands
<1>6. \A v, t : Said(v, t)' <=> Said(v, t)
  BY DEF Said, Decider
<1>7. StoredVotes'
  BY <1>6 DEF StoredVotes
<1>8. \A k, t : Fits(k, t)' <=> Fits(k, t)
  BY <1>6 DEF Fits, Proposer
<1>9. \A t \in Thread : Fits(checkpoint[t], t)'
  BY <1>8
<1>10. \A d \in Call : CallFits(d)'
  BY <1>8 DEF CallFits, Pauses, Resumes, ToolDeclines
<1> QED
  BY <1>4, <1>5, <1>7, <1>9, <1>10

LEMMA StepKeepsAgentInv ==
    ASSUME IInv, ReportsInv, AgentInv, [AgentNext]_agentVars
    PROVE  AgentInv'
<1>1. CASE UNCHANGED agentVars
  BY <1>1 DEF agentVars, vars, callVars, storeVars, AgentInv, OneOpinion, OneProposer,
     DecidersWereGiven, GivenStands, StoredVotes, OwnEffects, CallFits, Fits, Pauses, Resumes,
     ToolDeclines, Said, Decider, Proposer, Given, Answered
<1>2. ASSUME NEW c \in Call, Move(c), AgentNext
      PROVE  AgentInv'
  <2>1. \A d \in Call : CallFits(d)'
    BY <1>2, OthersKeepFits, MoveFits
  <2>2. \A t \in Thread : Fits(checkpoint[t], t)'
    BY <1>2, CheckpointsFit
  <2>3. OneOpinion'
    BY <1>2, StepKeepsOneOpinion DEF IInv, AgentInv
  <2> QED
    BY <1>2, <2>1, <2>2, <2>3, GivenStandsStays, DecidersStayGiven, OneProposerStays,
       StoredVotesStay, OwnEffectsStay DEF AgentInv
<1>3. AgentNext => \E c \in Call : Move(c) \/ GiveUp(c)
  BY DEF AgentNext, Move
<1> QED
  BY <1>1, <1>2, <1>3, GiveUpKeeps

LEMMA InitAgentInv == AgentInit => AgentInv
<1> SUFFICES ASSUME AgentInit PROVE AgentInv
  OBVIOUS
<1>1. \A c \in Call : /\ phase[c] = "idle" /\ req[c].kind = "none" /\ reply[c] = "none"
                      /\ pending[c].status = "absent" /\ ~unsaved[c]
  BY DEF AgentInit, Init, NoRequest, NoRecord
<1>2. effects = {} /\ \A t \in Thread : checkpoint[t] = NoCheckpoint
  BY DEF AgentInit, Init
<1>3. \A t : Fits(NoCheckpoint, t)
  BY DEF Fits, NoCheckpoint
<1> QED
  BY <1>1, <1>2, <1>3 DEF AgentInv, OneOpinion, OneProposer, DecidersWereGiven, GivenStands,
     StoredVotes, OwnEffects, CallFits, ToolDeclines, Given, Answered, Proposer, Vote

LEMMA AgentInvHolds == AgentSpec => [](IInv /\ ReportsInv /\ AgentInv)
<1>1. AgentSpec => []IInv
  BY AgentUsesGate, InvariantHolds, PTL
<1>2. AgentSpec => []ReportsInv
  BY AgentUsesGate, ReportsHold, PTL
<1>3. AgentSpec => []AgentInv
  BY <1>1, <1>2, InitAgentInv, StepKeepsAgentInv, PTL DEF AgentSpec
<1> QED
  BY <1>1, <1>2, <1>3, PTL

-----------------------------------------------------------------------------
(***************************************************************************)
(* What the agent may rely on                                              *)
(***************************************************************************)

\* An effect on a thread is that of the thread's proposal.
LEMMA EffectOfProposer ==
    ASSUME IInv, AgentInv, NEW e \in effects
    PROVE  /\ e.call \in Call /\ req[e.call].thread \in Thread /\ e.proposal \in Call
           /\ Proposer(e.proposal, req[e.call].thread)
           /\ e.proposal = req[e.call].about /\ e.action = req[e.call].about
           /\ e.proposal \notin placeholder
<1>1. e.call \in Call /\ req[e.call].kind = "decide"
  BY DEF IInv, TypeOK, Effect, NoEffectWithoutApproval
<1>2. PICK a \in Call, t \in Thread :
          a = req[e.call].about /\ t = req[e.call].thread /\ Given(a, t)
  BY <1>1, DeciderStands
<1>3. e.action = a /\ e.proposal = a /\ e.proposal \notin placeholder
  BY <1>2 DEF AgentInv, OwnEffects
<1> QED
  BY <1>1, <1>2, <1>3 DEF Given

\* What is executed under an action_id is the write that was proposed when
\* the id was given out.
THEOREM WriteIsTheProposed == AgentSpec => []ExecutesWhatWasProposed
<1>1. IInv /\ AgentInv => ExecutesWhatWasProposed
  BY EffectOfProposer DEF ExecutesWhatWasProposed, AgentInv, OneProposer
<1> QED
  BY <1>1, AgentInvHolds, PTL

LEMMA AnswersFit ==
    ASSUME IInv, ReportsInv, AgentInv, NEW c \in Call, Answered(c), req[c].kind = "decide",
           reply[c] # "error"
    PROVE  /\ reply[c] \in {"executed", "rejected", "refused"}
           /\ reply[c] = "executed" => req[c].vote = "approved" /\ EffectsOn(req[c].thread) # {}
           /\ reply[c] = "refused" => req[c].vote = "approved" /\ EffectsOn(req[c].thread) = {}
           /\ reply[c] = "rejected" => req[c].vote = "rejected" /\ EffectsOn(req[c].thread) = {}
<1>1. phase[c] = "done" /\ req[c] \in Request
  BY DEF Answered, IInv, TypeOK
<1>2. req[c].vote \in Vote
  BY <1>1 DEF Request
<1>3. PICK t \in Thread, w \in Checkpoint :
          t = req[c].thread /\ w = work[c] /\ Fits(w, t) /\ w.next = "end" /\ reply[c] = w.result
  BY <1>1, WorkFacts DEF AgentInv, CallFits, Resumes
<1>4. w.proposal \in Call /\ Proposer(w.proposal, t) /\ w.result # "none"
  BY <1>3 DEF Fits
<1>5. VoteIsHonoured /\ OneOpinion
  BY HonouredIfOneOpinion DEF AgentInv
<1>6. CASE w.result = "executed"
  <2>1. PICK e \in effects : e.proposal = w.proposal
    BY <1>3, <1>6 DEF ReportsInv, ReplyClaims, Made
  <2>2. req[e.call].thread = t
    BY <1>4, <2>1, EffectOfProposer DEF Proposer
  <2>3. EffectsOn(t) # {}
    BY <2>2 DEF EffectsOn
  <2> QED
    BY <1>2, <1>3, <1>5, <1>6, <2>3 DEF VoteIsHonoured, Vote
<1>7. CASE w.result = "rejected"
  <2>1. PICK d \in Call : Decider(d, t) /\ req[d].vote = "rejected"
    BY <1>3, <1>7 DEF Fits, Said
  <2>2. req[c].vote = "rejected"
    BY <1>3, <1>5, <2>1 DEF OneOpinion, Decider
  <2> QED
    BY <1>3, <1>5, <1>7, <2>2 DEF VoteIsHonoured
<1>8. CASE w.result = "refused"
  <2>1. w.proposal \in placeholder
    BY <1>3, <1>8 DEF Fits
  <2>2. PICK d \in Call : Decider(d, t) /\ req[d].vote = "approved"
    BY <1>3, <1>8 DEF Fits, Said
  <2>3. req[c].vote = "approved"
    BY <1>3, <1>5, <2>2 DEF OneOpinion, Decider
  <2>4. ASSUME NEW e \in effects, req[e.call].thread = t
        PROVE  FALSE
    BY <1>4, <2>1, <2>4, EffectOfProposer DEF AgentInv, OneProposer
  <2> QED
    BY <1>3, <1>8, <2>3, <2>4 DEF EffectsOn
<1> QED
  BY <1>3, <1>4, <1>6, <1>7, <1>8 DEF Checkpoint

\* An answer fits the vote and is what became of the action, whatever failed
\* and whoever decided it first.
THEOREM AnswersAreTrue == AgentSpec => []AnswerIsTheOutcome
<1>1. IInv /\ ReportsInv /\ AgentInv => AnswerIsTheOutcome
  BY AnswersFit DEF AnswerIsTheOutcome
<1> QED
  BY <1>1, AgentInvHolds, PTL

\* The thread of an action whose decision was not carried out stays where
\* asking again carries it out.
THEOREM AskingAgainCanHelp == AgentSpec => []AskingAgainHelps
<1>1. IInv /\ AgentInv => AskingAgainHelps
  <2> SUFFICES ASSUME IInv, AgentInv, NEW t \in Thread, NEW a \in Call, Given(a, t),
                      checkpoint[t].next # "end"
               PROVE  /\ checkpoint[t].next \in {"approval", "execute"}
                      /\ checkpoint[t].proposal = a
                      /\ checkpoint[t].action = work[a].action
                      /\ pending[work[a].action].status \in Vote =>
                             \E c \in Call : /\ Decider(c, t)
                                            /\ req[c].vote = pending[work[a].action].status
    BY DEF AskingAgainHelps
  <2>1. PICK k \in Checkpoint : k = checkpoint[t] /\ Fits(k, t) /\ Sound(k, t)
    BY DEF IInv, TypeOK, SoundCheckpoints, AgentInv
  <2>2. k.next \in {"approval", "execute"}
    BY <2>1 DEF AgentInv, GivenStands
  <2>3. k.proposal = a /\ k.action = a
    BY <2>1, <2>2, ThisProposal DEF Given, Fits
  <2>4. work[a].action = a
    BY GivenAction
  <2>5. pending[a].thread = t
    BY <2>1, <2>2, <2>3 DEF Sound
  <2>6. pending[a].status \in Vote => Said(pending[a].status, t)
    BY <2>5 DEF AgentInv, StoredVotes
  <2> QED
    BY <2>1, <2>2, <2>3, <2>4, <2>6 DEF Said
<1> QED
  BY <1>1, AgentInvHolds, PTL

-----------------------------------------------------------------------------
(***************************************************************************)
(* execute_node calls the tool as ToolWrite says                           *)
(***************************************************************************)

\* What was written was written by a call that has called its tool.
MadeByCallers ==
    \A e \in effects : phase[e.call] \in {"acted", "failing", "exit", "done", "dead"}

Writes(c) == {e \in effects : e.call = c}
ToolStages == [c \in Call |-> CallStage(c)]
TimesMade == [c \in Call |-> Cardinality(Writes(c))]

\* A call that has its answer, or died, takes no step that leads back.
LEMMA OverIsOver ==
    ASSUME TypeOK, NEW c \in Call, Step(c), phase[c] \in {"exit", "done", "dead"}
    PROVE  phase'[c] \in {"exit", "done", "dead"}
<1> USE DEF TypeOK, Goto, Exit, NodeReturns
<1>1. ~Arrive(c)
  BY DEF Arrive, ReceivePropose, ReceiveDecision, MayArrive
<1>2. ~Invoke(c)
  BY DEF Invoke, InvokeStart, ResumeUnknown, ResumePaused, ResumeUnfinished, ResumeFinished
<1>3. ~RunNode(c)
  BY DEF RunNode, ProposeKeyError, InsertRecord, LogProposed, Interrupt, ResolveRecord,
         ResolveNothing, LogDecision, FinishRejected, AuditExecution, CallTool,
         FinishExecuted, FinishRefused, RecordFailure
<1>4. CASE Fault(c)
  BY <1>4 DEF Fault, ToolRaises, StoreRaises, StoreRaisesInApproval, StoreRaisesInGuard,
         ToolRefuses, ToolNotConfigured, CheckpointRaises, Crash
<1>5. CASE SaveCheckpoint(c) \/ Respond(c)
  BY <1>5 DEF SaveCheckpoint, Respond
<1> QED
  BY <1>1, <1>2, <1>3, <1>4, <1>5 DEF Step, Progress

\* How a step changes the place of its call.
LEMMA PhaseChanges ==
    ASSUME TypeOK, NEW c \in Call, Step(c)
    PROVE  \/ phase'[c] = phase[c] /\ effects' = effects
           \/ phase'[c] \in {"exit", "done", "dead"} /\ effects' = effects
           \/ /\ phase[c] \notin {"acting", "acted", "refused", "failing", "exit", "done", "dead"}
              /\ phase'[c] \notin {"acted", "done", "dead"} /\ effects' = effects
           \/ phase[c] = "acting" /\ phase'[c] = "acted" /\ effects' = effects \cup {EffectOf(c)}
           \/ /\ phase[c] = "acting" /\ phase'[c] = "failing"
              /\ effects' = effects \/ effects' = effects \cup {EffectOf(c)}
<1> USE DEF TypeOK, Goto, Exit, NodeReturns, storeVars
<1>1. CASE Arrive(c)
  BY <1>1, ArrivalIs
<1>2. CASE Invoke(c)
  <2>1. phase[c] = "received" /\ effects' = effects
    BY <1>2 DEF Invoke, InvokeStart, ResumeUnknown, ResumePaused, ResumeUnfinished, ResumeFinished
  <2>2. phase'[c] \in {"propose", "resolve", "execute", "exit"}
    BY <1>2 DEF Invoke, InvokeStart, ResumeUnknown, ResumePaused, ResumeUnfinished, ResumeFinished
  <2> QED
    BY <2>1, <2>2
<1>3. CASE RunNode(c)
  BY <1>3 DEF RunNode, ProposeKeyError, InsertRecord, LogProposed, Interrupt, ResolveRecord,
         ResolveNothing, LogDecision, FinishRejected, AuditExecution, CallTool,
         FinishExecuted, FinishRefused, RecordFailure, Finish
<1>4. CASE Fault(c)
  BY <1>4 DEF Fault, ToolRaises, StoreRaises, StoreRaisesInApproval, StoreRaisesInGuard,
         ToolRefuses, ToolNotConfigured, CheckpointRaises, Crash
<1>5. CASE SaveCheckpoint(c) \/ Respond(c)
  BY <1>5 DEF SaveCheckpoint, Respond
<1> QED
  BY <1>1, <1>2, <1>3, <1>4, <1>5 DEF Step, Progress

LEMMA MadeByCallersStays ==
    ASSUME IInv, MadeByCallers, [AgentNext]_agentVars
    PROVE  MadeByCallers'
<1>1. CASE UNCHANGED vars
  BY <1>1 DEF vars, callVars, MadeByCallers
<1>2. ASSUME NEW c \in Call, Step(c)
      PROVE  MadeByCallers'
  <2>1. TypeOK
    BY DEF IInv
  <2> SUFFICES ASSUME NEW e \in effects'
               PROVE  phase'[e.call] \in {"acted", "failing", "exit", "done", "dead"}
    BY DEF MadeByCallers
  <2>2. CASE e \in effects
    <3>1. e.call \in Call /\ phase[e.call] \in {"acted", "failing", "exit", "done", "dead"}
      BY <2>1, <2>2 DEF TypeOK, Effect, MadeByCallers
    <3>2. CASE e.call = c
      BY <1>2, <2>1, <3>1, <3>2, PhaseChanges, OverIsOver
    <3>3. CASE e.call # c
      BY <1>2, <2>1, <3>1, <3>3, OthersUntouched DEF Others
    <3> QED
      BY <3>2, <3>3
  <2>3. CASE e \notin effects
    <3>1. phase[c] = "acting" /\ e = EffectOf(c)
      BY <1>2, <2>3, NewEffects
    <3>2. e.call = c
      BY <3>1 DEF EffectOf
    <3> QED
      BY <1>2, <2>1, <2>3, <3>1, <3>2, PhaseChanges
  <2> QED
    BY <2>2, <2>3
<1>3. Next => \E c \in Call : Step(c)
  BY DEF Next, Step
<1> QED
  BY <1>1, <1>2, <1>3, AgentStep

\* The write of another call is where it was.
LEMMA OtherWrites ==
    ASSUME IInv, MadeByCallers, NEW c \in Call, Step(c)
    PROVE  /\ ToolStages \in [Call -> {"execute", "acting", "acted", "refused", "failing", "over"}]
           /\ ToolStages' = [ToolStages EXCEPT ![c] = CallStage(c)']
           /\ ToolStages[c] = CallStage(c)
           /\ effects' = effects => TimesMade' = TimesMade
           /\ effects' = effects \cup {EffectOf(c)} /\ phase[c] = "acting" =>
                  TimesMade' = [TimesMade EXCEPT ![c] = 1]
<1>1. \A d \in Call : d # c => phase'[d] = phase[d]
  BY OthersUntouched DEF Others, IInv
<1>2. ToolStages' = [ToolStages EXCEPT ![c] = CallStage(c)']
  BY <1>1 DEF ToolStages, CallStage
<1>3. effects' = effects => TimesMade' = TimesMade
  BY DEF TimesMade, Writes
<1>4. ASSUME effects' = effects \cup {EffectOf(c)}, phase[c] = "acting"
      PROVE  TimesMade' = [TimesMade EXCEPT ![c] = 1]
  <2>1. EffectOf(c).call = c
    BY DEF EffectOf
  <2>2. Writes(c)' = {EffectOf(c)}
    BY <1>4, <2>1 DEF Writes, MadeByCallers
  <2>3. \A d \in Call : d # c => Writes(d)' = Writes(d)
    BY <1>4, <2>1 DEF Writes
  <2>4. Cardinality(Writes(c)') = 1
    BY <2>2, FS_Singleton
  <2>5. \A d \in Call : Cardinality(Writes(d)') = IF d = c THEN 1 ELSE Cardinality(Writes(d))
    BY <2>3, <2>4
  <2> QED
    BY <2>5 DEF TimesMade
<1> QED
  BY <1>2, <1>3, <1>4 DEF ToolStages, CallStage

LEMMA StepIsToolStep ==
    ASSUME IInv, MadeByCallers, NEW c \in Call, Step(c)
    PROVE  Tool!Next \/ UNCHANGED <<ToolStages, TimesMade>>
<1> TypeOK
  BY DEF IInv
<1> DEFINE s == CallStage(c)
           s1 == CallStage(c)'
<1>1. /\ ToolStages \in [Call -> {"execute", "acting", "acted", "refused", "failing", "over"}]
      /\ ToolStages' = [ToolStages EXCEPT ![c] = s1]
      /\ ToolStages[c] = s
      /\ effects' = effects => TimesMade' = TimesMade
      /\ effects' = effects \cup {EffectOf(c)} /\ phase[c] = "acting" =>
             TimesMade' = [TimesMade EXCEPT ![c] = 1]
  BY OtherWrites
<1>2. CASE s1 = s /\ effects' = effects
  BY <1>1, <1>2
<1>3. CASE s1 = "over" /\ effects' = effects
  <2>1. \A d \in Call : ToolStages'[d] = IF ToolStages'[d] = "over" THEN "over" ELSE ToolStages[d]
    BY <1>1, <1>3
  <2>2. ToolStages' = [d \in Call |-> IF ToolStages'[d] = "over" THEN "over" ELSE ToolStages[d]]
    BY <1>1, <2>1
  <2> QED
    BY <1>1, <1>3, <2>2 DEF Tool!Next, Tool!End, ToolStages, TimesMade
<1>4. CASE s = "execute" /\ s1 \in {"acting", "refused", "failing"} /\ effects' = effects
  <2>1. Tool!Goto(c, "execute", s1) /\ TimesMade' = TimesMade
    BY <1>1, <1>4 DEF Tool!Goto, ToolStages
  <2> QED
    BY <1>4, <2>1 DEF Tool!Next, Tool!Audit, Tool!Refuse, Tool!AuditRaises, TimesMade
<1>5. ASSUME s = "acting", s1 \in {"acted", "failing"}, phase[c] = "acting",
             effects' = effects \cup {EffectOf(c)}
      PROVE  Tool!Next
  <2>1. Tool!Goto(c, "acting", s1)
    BY <1>1, <1>5 DEF Tool!Goto, ToolStages
  <2>2. Tool!Make(c)
    BY <1>1, <1>5 DEF Tool!Make, TimesMade, Writes
  <2> QED
    BY <1>5, <2>1, <2>2 DEF Tool!Next, Tool!Write, Tool!Raise
<1>6. CASE s = "acting" /\ s1 = "failing" /\ effects' = effects
  <2>1. Tool!Goto(c, "acting", s1) /\ TimesMade' = TimesMade
    BY <1>1, <1>6 DEF Tool!Goto, ToolStages
  <2> QED
    BY <1>6, <2>1 DEF Tool!Next, Tool!Raise, TimesMade
<1>7. \/ s1 = s /\ effects' = effects
      \/ s1 = "over" /\ effects' = effects
      \/ s = "execute" /\ s1 \in {"acting", "refused", "failing"} /\ effects' = effects
      \/ /\ s = "acting" /\ s1 \in {"acted", "failing"} /\ phase[c] = "acting"
         /\ effects' = effects \cup {EffectOf(c)}
      \/ s = "acting" /\ s1 = "failing" /\ effects' = effects
  BY PhaseChanges DEF CallStage
<1> QED
  BY <1>2, <1>3, <1>4, <1>5, <1>6, <1>7

\* In every behaviour of the agent and the gate, under every fault, each call
\* uses its tool as ToolWrite describes it, which is what WritesAreToolWrites
\* proves of the connectors.
THEOREM ToolCallsAreToolWrites == AgentSpec => ToolWriteSpec
<1>1. AgentInit => Tool!Init /\ MadeByCallers
  <2> SUFFICES ASSUME AgentInit PROVE Tool!Init /\ MadeByCallers
    OBVIOUS
  <2>1. \A c \in Call : CallStage(c) = "execute"
    BY DEF AgentInit, Init, CallStage
  <2>2. effects = {}
    BY DEF AgentInit, Init
  <2>3. \A c \in Call : Cardinality({e \in effects : e.call = c}) = 0
    BY <2>2, FS_EmptySet
  <2> QED
    BY <2>1, <2>2, <2>3 DEF Tool!Init, MadeByCallers
<1>2. IInv /\ MadeByCallers /\ [AgentNext]_agentVars => [Tool!Next]_(Tool!vars)
  <2> SUFFICES ASSUME IInv, MadeByCallers, [AgentNext]_agentVars
               PROVE  Tool!Next \/ UNCHANGED <<ToolStages, TimesMade>>
    BY DEF Tool!vars, ToolStages, TimesMade, Writes
  <2>1. CASE UNCHANGED vars
    BY <2>1 DEF vars, callVars, ToolStages, TimesMade, Writes, CallStage
  <2>2. CASE Next
    BY <2>2, StepIsToolStep DEF Next, Step
  <2> QED
    BY <2>1, <2>2, AgentStep
<1>3. AgentSpec => []IInv
  BY AgentUsesGate, InvariantHolds, PTL
<1>4. AgentSpec => []MadeByCallers
  BY <1>1, <1>3, MadeByCallersStays, PTL DEF AgentSpec
<1> QED
  BY <1>1, <1>2, <1>3, <1>4, PTL DEF AgentSpec, ToolWriteSpec, Tool!Spec
=============================================================================
