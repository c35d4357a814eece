-------------------------- MODULE ActionGraphTurns --------------------------
(***************************************************************************)
(* Theorems about the gate when its clients take turns on a process id and *)
(* nothing fails but the tools: for any number of calls and threads.       *)
(***************************************************************************)
EXTENDS ActionGraphReports, ActionGraphTurnsInv

\* The faults there are.
LEMMA FaultIsTools ==
    ASSUME TakingTurns, NEW c \in Call, Fault(c)
    PROVE  ToolRefuses(c) \/ (~ToolsHold /\ (ToolRaises(c) \/ ToolNotConfigured(c)))
BY DEF TakingTurns, ToolsHold, Fault, ToolRaises, StoreRaises, StoreRaisesInApproval,
       StoreRaisesInGuard, ToolNotConfigured, CheckpointRaises, Crash

\* Only the tool call of a call that holds the record makes an effect on it.
LEMMA UntouchedStays ==
    ASSUME NEW c \in Call, Step(c), NEW a, Untouched(a),
           phase[c] = "acting" => work[c].action # a
    PROVE  Untouched(a)'
<1> SUFFICES ASSUME NEW e \in effects', e.action = a
             PROVE  FALSE
  BY DEF Untouched
<1>1. e \notin effects
  BY DEF Untouched
<1>2. phase[c] = "acting" /\ e = EffectOf(c)
  BY <1>1, NewEffects
<1> QED
  BY <1>2 DEF EffectOf

\* What is pending was neither executed nor answered.
LEMMA PendingIsUntouched ==
    ASSUME IInv, TurnsInv, NEW a, pending[a].status = "pending"
    PROVE  Untouched(a) /\ Unanswered(a)
<1>1. pending[a].status \notin Vote
  BY DEF Vote
<1> QED
  BY <1>1 DEF Untouched, Unanswered, IInv, NoEffectWithoutApproval, TurnsInv, Answers, Decided

\* The record of a call at its tool call is one of its thread.
LEMMA ActingRecord ==
    ASSUME IInv, NEW c \in Call, phase[c] = "acting"
    PROVE  work[c].action \in RecordsOf(req[c].thread)
<1>1. work[c].next = "execute"
  BY DEF IInv, NodeOfPhase
<1> QED
  BY <1>1, WorkFacts, SoundRecord

\* A decided record stays one.
LEMMA DecidedStays ==
    ASSUME IInv, NEW c \in Call, Step(c), NEW a, NEW t, Decided(a, t)
    PROVE  Decided(a, t)'
<1>1. a \in Call /\ pending[a] \in Record /\ pending[a].thread = t /\ pending[a].status \in Vote
  BY RecordsOfIs DEF Decided
<1>2. pending'[a] = pending[a]
  BY <1>1, RecordsMonotone
<1>3. NoRecord \notin Record
  BY DEF NoRecord, Record, Vote
<1> QED
  BY <1>1, <1>2, <1>3 DEF Decided, RecordsOf

\* A step on one thread leaves another as it is; an arrival leaves them all.
LEMMA Apart ==
    ASSUME IInv, TurnsInv, NEW c \in Call, Step(c), NEW s \in Thread,
           phase[c] = "idle" \/ req[c].thread # s
    PROVE  /\ checkpoint'[s] = checkpoint[s]
           /\ RecordsOf(s)' = RecordsOf(s)
           /\ \A a \in RecordsOf(s) :
                  pending'[a] = pending[a] /\ (Untouched(a) => Untouched(a)')
<1> TypeOK
  BY DEF IInv
<1>1. checkpoint'[s] = checkpoint[s]
  BY StepFrame
<1>2. CASE phase[c] = "idle"
  <2>1. Arrive(c)
    BY <1>2, StepperIsBusy DEF InFlight
  <2>2. UNCHANGED <<pending, effects>>
    BY <2>1, ArrivalIs
  <2> QED
    BY <1>1, <2>2 DEF RecordsOf, Untouched
<1>3. CASE phase[c] # "idle" /\ req[c].thread # s
  <2>1. ASSUME NEW a \in RecordsOf(s)
        PROVE  pending'[a] = pending[a] /\ (Untouched(a) => Untouched(a)')
    <3>1. a \in Call /\ pending[a] # NoRecord /\ pending[a].thread = s
      BY DEF RecordsOf
    <3>2. CASE InsertRecord(c)
      <4>1. pending[c] = NoRecord
        BY <3>2 DEF InsertRecord, IInv, FreshCalls
      <4> QED
        BY <3>1, <3>2, <4>1 DEF InsertRecord, Untouched
    <3>3. CASE ResolveRecord(c)
      <4>1. work[c].action \in RecordsOf(req[c].thread)
        <5>1. work[c].next = "approval"
          BY <3>3 DEF ResolveRecord, IInv, NodeOfPhase
        <5> QED
          BY <1>3, <5>1, WorkFacts, SoundRecord
      <4>2. work[c].action # a
        BY <1>3, <3>1, <4>1 DEF RecordsOf
      <4> QED
        BY <3>1, <3>3, <4>2 DEF ResolveRecord, Untouched
    <3>4. Untouched(a) => Untouched(a)'
      <4>1. phase[c] = "acting" => work[c].action # a
        BY <1>3, <3>1, ActingRecord DEF RecordsOf
      <4> QED
        BY <4>1, UntouchedStays
    <3> QED
      BY <3>2, <3>3, <3>4, RecordsChange
  <2>2. ASSUME NEW a \in Call, a \notin RecordsOf(s)
        PROVE  pending'[a] = NoRecord \/ pending'[a].thread # s
    <3>1. CASE pending[a] \in Record
      <4>1. pending[a].thread # s
        BY <2>2, <3>1, RecordsOfIs
      <4> QED
        BY <3>1, <4>1, RecordsMonotone
    <3>2. CASE pending[a] \notin Record /\ a # c
      BY <3>2, RecordIsThere, OtherRecordsAbsent
    <3>3. CASE pending[a] \notin Record /\ a = c
      <4>1. pending[c] = NoRecord
        BY <3>3, RecordIsThere
      <4>2. CASE InsertRecord(c)
        BY <1>3, <3>3, <4>2 DEF InsertRecord, TypeOK
      <4>3. CASE ResolveRecord(c)
        <5>1. work[c].action # c
          BY <4>1, <4>3 DEF ResolveRecord, NoRecord
        <5> QED
          BY <3>3, <4>1, <4>3, <5>1 DEF ResolveRecord, TypeOK
      <4> QED
        BY <3>3, <4>1, <4>2, <4>3, RecordsChange
    <3> QED
      BY <3>1, <3>2, <3>3
  <2>3. RecordsOf(s)' = RecordsOf(s)
    BY <2>1, <2>2 DEF RecordsOf
  <2> QED
    BY <1>1, <2>1, <2>3
<1> QED
  BY <1>2, <1>3

LEMMA SettledStays ==
    ASSUME IInv, TurnsInv, NEW c \in Call, Step(c), NEW s \in Thread,
           phase[c] = "idle" \/ req[c].thread # s,
           NEW k, Settled(k, s), Sound(k, s)
    PROVE  Settled(k, s)'
<1>1. k.next \in {"approval", "execute"} => k.action \in RecordsOf(s)
  BY SoundRecord
<1> QED
  BY <1>1, Apart DEF Settled, Decided

\* Who answers on another thread answers about another record.
LEMMA UnansweredStays ==
    ASSUME IInv, NEW c \in Call, Step(c), Answers(c)', NEW s \in Thread,
           phase[c] = "idle" \/ req[c].thread # s, NEW a \in RecordsOf(s), Unanswered(a),
           phase[c] = "idle" => reply'[c] \notin Outcome
    PROVE  Unanswered(a)'
<1> SUFFICES ASSUME NEW d \in Call, reply'[d] \in Outcome
             PROVE  work'[d].action # a
  BY DEF Unanswered
<1>1. CASE d # c
  BY <1>1, OthersUntouched, StepFrame DEF Others, IInv, Unanswered
<1>2. CASE d = c
  <2>1. phase[c] # "idle" /\ req'[c].thread # s
    BY <1>2, StepFrame DEF IInv
  <2>2. work'[c].action \in Call /\ pending'[work'[c].action].thread # s
    BY <1>2, <2>1 DEF Answers, Decided, RecordsOf
  <2>3. a \in Call /\ pending[a] \in Record /\ pending[a].thread = s
    BY RecordsOfIs
  <2>4. pending'[a].thread = s
    BY <2>3, RecordsMonotone
  <2> QED
    BY <1>2, <2>2, <2>4
<1> QED
  BY <1>1, <1>2

-----------------------------------------------------------------------------
(***************************************************************************)
(* What a step of c leaves the other calls                                 *)
(***************************************************************************)

\* An answer stays true, whatever step is taken.
LEMMA AnsweredStays ==
    ASSUME IInv, TurnsInv, NEW c \in Call, Step(c), NEW d \in Call, reply[d] \in Outcome
    PROVE  /\ work'[d] = work[d] /\ req'[d] = req[d]
           /\ Decided(work[d].action, req[d].thread)'
           /\ reply[d] \in {"rejected", "refused"} /\ ToolsHold => Untouched(work[d].action)'
<1>1. Answers(d) /\ phase[d] \in {"exit", "done"} /\ reply[d] # "none"
  BY DEF TurnsInv, Answers, Outcome
<1>2. PICK a, t : a = work[d].action /\ t = req[d].thread /\ Decided(a, t)
  BY <1>1 DEF Answers
<1>3. work'[d] = work[d] /\ req'[d] = req[d]
  <2>1. CASE d # c
    BY <2>1, OthersUntouched DEF Others, IInv
  <2>2. CASE d = c
    BY <1>1, <2>2, WorkChanges, StepFrame DEF IInv
  <2> QED
    BY <2>1, <2>2
<1>4. Decided(a, t)'
  BY <1>2, DecidedStays
<1>5. ASSUME reply[d] \in {"rejected", "refused"}, ToolsHold
      PROVE  Untouched(a)'
  <2>1. phase[c] = "acting" => work[c].action # a
    BY <1>2, <1>5 DEF TurnsInv, AtWork, Unanswered
  <2>2. Untouched(a)
    BY <1>1, <1>2, <1>5 DEF Answers
  <2> QED
    BY <2>1, <2>2, UntouchedStays
<1> QED
  BY <1>2, <1>3, <1>4, <1>5 DEF Decided, Untouched, RecordsOf

\* A call on another thread than that of the step.
LEMMA ApartKeeps ==
    ASSUME IInv, TurnsInv, NEW c \in Call, Step(c), Answers(c)',
           NEW d \in Call, d # c, phase[d] # "idle",
           phase[c] = "idle" \/ req[c].thread # req[d].thread
    PROVE  AtWork(d)' /\ Synced(d)'
<1>1. /\ phase'[d] = phase[d] /\ req'[d] = req[d] /\ work'[d] = work[d] /\ unsaved'[d] = unsaved[d]
  BY OthersUntouched, StepFrame DEF Others, IInv, SaveCheckpoint, InFlight, Overlapping
<1>2. PICK s \in Thread, w \in Checkpoint, k \in Checkpoint :
          s = req[d].thread /\ w = work[d] /\ k = checkpoint[s]
  BY WorkFacts
<1>3. AtWork(d) /\ Synced(d)
  BY DEF TurnsInv
<1>4. /\ checkpoint'[s] = k
      /\ RecordsOf(s)' = RecordsOf(s)
      /\ \A a \in RecordsOf(s) : pending'[a] = pending[a] /\ (Untouched(a) => Untouched(a)')
  BY <1>2, Apart
<1>5. Sound(w, s) /\ Sound(k, s)
  BY <1>2, WorkFacts
<1>6. Settled(w, s) => Settled(w, s)'
  BY <1>2, <1>5, SettledStays
<1>7. Settled(k, s) => Settled(k, s)'
  BY <1>2, <1>5, SettledStays
<1>8. phase[d] = "logProposed" => d \in RecordsOf(s)
  BY <1>2, RecordsOfIs DEF IInv, MidNode
<1>9. phase[d] \in {"resolve", "logDecision", "execute", "acting", "refused", "failing"} =>
          w.action \in RecordsOf(s)
  BY <1>2, <1>5, SoundRecord DEF IInv, NodeOfPhase
<1>10. phase[c] = "idle" => reply'[c] \notin Outcome
  <2>1. phase[c] = "idle" => Arrive(c)
    BY StepperIsBusy DEF InFlight
  <2>2. phase[c] = "idle" => reply' = reply /\ reply[c] = "none"
    BY <2>1, ArrivalIs DEF IInv, TurnsInv, Answers
  <2> QED
    BY <2>2 DEF Outcome
<1>11. ASSUME w.action \in RecordsOf(s), Unanswered(w.action)
       PROVE  Unanswered(w.action)'
  BY <1>2, <1>10, <1>11, UnansweredStays
<1>12. Synced(d)'
  BY <1>1, <1>2, <1>3, <1>4 DEF Synced
<1>13. AtWork(d)'
  <2>1. /\ phase[d] = "received" => Settled(k, s)'
        /\ phase[d] \in {"approval", "exit"} => Settled(w, s)'
    BY <1>2, <1>3, <1>6, <1>7 DEF AtWork
  <2>2. phase[d] = "propose" =>
           \/ req[d].kind = "propose" /\ w.proposal # NoCall
           \/ w.proposal = NoCall /\ RecordsOf(s)' = {}
    BY <1>2, <1>3, <1>4 DEF AtWork
  <2>3. phase[d] = "logProposed" => pending'[d].status = "pending" /\ req[d].kind = "propose"
    BY <1>2, <1>3, <1>4, <1>8 DEF AtWork
  <2>4. /\ phase[d] = "resolve" => pending'[w.action].status = "pending"
        /\ phase[d] \in {"execute", "acting", "failing"} =>
               pending'[w.action].status = w.decision
    BY <1>2, <1>3, <1>4, <1>9 DEF AtWork
  <2>5. phase[d] \in {"logDecision", "execute", "acting", "refused"} /\ ToolsHold =>
           Untouched(w.action)' /\ Unanswered(w.action)'
    BY <1>2, <1>3, <1>4, <1>9, <1>11 DEF AtWork
  <2> QED
    BY <1>1, <1>2, <1>4, <2>1, <2>2, <2>3, <2>4, <2>5 DEF AtWork, Untouched, Unanswered
<1> QED
  BY <1>12, <1>13

LEMMA OthersKeepTurns ==
    ASSUME IInv, TurnsInv, NEW c \in Call, Step(c), Answers(c)', NEW d \in Call, d # c
    PROVE  AtWork(d)' /\ Synced(d)' /\ Answers(d)'
<1>1. phase'[d] = phase[d] /\ reply'[d] = reply[d] /\ (unsaved'[d] = unsaved[d] \/ unsaved[d])
  BY OthersUntouched, StepFrame DEF Others, IInv, Overlapping
<1>2. Answers(d)'
  <2>1. reply[d] # "none" => phase[d] \in {"exit", "done"}
    BY DEF TurnsInv, Answers
  <2>2. CASE reply[d] \in Outcome
    BY <1>1, <2>1, <2>2, AnsweredStays DEF Answers, Decided, Untouched, RecordsOf
  <2>3. CASE reply[d] \notin Outcome
    BY <1>1, <2>1, <2>3 DEF Answers, Outcome
  <2> QED
    BY <2>2, <2>3
<1>3. CASE phase[d] \in {"idle", "done"}
  BY <1>1, <1>2, <1>3 DEF TurnsInv, AtWork, Synced
<1>4. CASE phase[d] \notin {"idle", "done"}
  <2>1. InFlight(d)
    BY <1>4 DEF TurnsInv, NoOtherFailures, InFlight
  <2>2. phase[c] = "idle" \/ req[c].thread # req[d].thread
    BY <2>1, StepperIsBusy DEF TurnsInv, OneAtATime
  <2> QED
    BY <1>2, <1>4, <2>2, ApartKeeps
<1> QED
  BY <1>3, <1>4

-----------------------------------------------------------------------------
(***************************************************************************)
(* What a step of c leaves the threads                                     *)
(***************************************************************************)

\* Only Respond ends a call.
LEMMA CallEnds ==
    ASSUME TakingTurns, TypeOK, NEW c \in Call, Step(c), ~InFlight(c)'
    PROVE  Respond(c)
<1> USE DEF TypeOK, Goto, Exit, InFlight, NodeReturns
<1>1. ~Arrive(c)
  BY ArrivalIs
<1>2. ~Invoke(c)
  <2>1. Invoke(c) => phase'[c] \in {"propose", "resolve", "execute", "exit"}
    BY DEF Invoke, InvokeStart, ResumeUnknown, ResumePaused, ResumeUnfinished, ResumeFinished
  <2> QED
    BY <2>1
<1>3. ~RunNode(c)
  BY DEF RunNode, ProposeKeyError, InsertRecord, LogProposed, Interrupt, ResolveRecord,
     ResolveNothing, LogDecision, FinishRejected, AuditExecution, CallTool,
     FinishExecuted, FinishRefused, RecordFailure, Finish
<1>4. ~Fault(c)
  <2>1. ~ToolRefuses(c) /\ ~ToolRaises(c) /\ ~ToolNotConfigured(c)
    BY DEF ToolRefuses, ToolRaises, ToolNotConfigured
  <2> QED
    BY <2>1, FaultIsTools
<1>5. ~SaveCheckpoint(c)
  BY DEF SaveCheckpoint
<1> QED
  BY <1>1, <1>2, <1>3, <1>4, <1>5 DEF Step, Progress

LEMMA AtRestStays ==
    ASSUME TakingTurns, IInv, TurnsInv, NEW c \in Call, Step(c)
    PROVE  AtRest'
<1> SUFFICES ASSUME NEW s \in Thread, \A d \in Call : InFlight(d)' => req'[d].thread # s
             PROVE  Settled(checkpoint[s], s)'
  BY DEF AtRest
<1>1. \A d \in Call : d # c => phase'[d] = phase[d] /\ req'[d] = req[d]
  BY OthersUntouched DEF Others, IInv
<1>2. PICK k : k = checkpoint[s] /\ Sound(k, s)
  BY DEF IInv, SoundCheckpoints
<1>3. CASE phase[c] = "idle" \/ req[c].thread # s
  <2>1. \A d \in Call : InFlight(d) => req[d].thread # s
    BY <1>1, <1>3 DEF InFlight
  <2>2. Settled(k, s)
    BY <1>2, <2>1 DEF TurnsInv, AtRest
  <2>3. Settled(k, s)' /\ checkpoint'[s] = k
    BY <1>2, <1>3, <2>2, SettledStays, Apart
  <2> QED
    BY <2>3
<1>4. CASE phase[c] # "idle" /\ req[c].thread = s
  <2>1. req' = req
    BY <1>4, StepFrame DEF IInv
  <2>2. ~InFlight(c)'
    BY <1>4, <2>1
  <2>3. Respond(c)
    BY <2>2, CallEnds DEF IInv
  <2>4. phase[c] = "exit" /\ ~unsaved[c] /\ phase' = [phase EXCEPT ![c] = "done"]
        /\ UNCHANGED <<req, reply, checkpoint, pending, effects>>
    BY <2>3 DEF Respond, Goto, storeVars
  <2>5. checkpoint[s] = work[c]
    BY <1>4, <2>4 DEF TurnsInv, Synced
  <2>6. Settled(k, s)
    BY <1>2, <1>4, <2>4, <2>5 DEF TurnsInv, AtWork
  <2>7. Settled(k, s)'
    BY <2>4, <2>6 DEF Settled, Decided, RecordsOf, Untouched
  <2> QED
    BY <1>2, <2>4, <2>7
<1> QED
  BY <1>3, <1>4

-----------------------------------------------------------------------------
(***************************************************************************)
(* What a step of c leaves c itself                                        *)
(***************************************************************************)

Own(c) == AtWork(c) /\ Synced(c) /\ Answers(c)

\* Until a call answers, what nobody was told stays so.
LEMMA StillUnanswered ==
    ASSUME IInv, NEW c \in Call, Step(c), NEW a, Unanswered(a), reply'[c] \notin Outcome
    PROVE  Unanswered(a)'
<1>1. \A d \in Call : d # c => work'[d] = work[d] /\ reply'[d] = reply[d]
  BY OthersUntouched, StepFrame DEF Others, IInv
<1> QED
  BY <1>1 DEF Unanswered

LEMMA ArriveKeepsOwn ==
    ASSUME TakingTurns, IInv, TurnsInv, NEW c \in Call, Arrive(c)
    PROVE  Own(c)'
<1>1. /\ phase[c] = "idle" /\ phase'[c] = "received" /\ UNCHANGED <<reply, unsaved, checkpoint>>
  BY ArrivalIs DEF IInv, TypeOK
<1>2. PICK t \in Thread : req'[c].thread = t /\ MayArrive(c, t)
  BY DEF Arrive, ReceivePropose, ReceiveDecision, IInv, TypeOK
<1>3. \A d \in Call : InFlight(d) => req[d].thread # t
  BY <1>2 DEF MayArrive, TakingTurns
<1>4. PICK k : k = checkpoint[t] /\ Sound(k, t) /\ Settled(k, t)
  BY <1>3 DEF IInv, SoundCheckpoints, TurnsInv, AtRest
<1>5. Settled(k, t)'
  BY <1>1, <1>4, SettledStays DEF Step
<1>6. reply[c] = "none" /\ ~unsaved[c]
  BY <1>1 DEF TurnsInv, Answers, Synced
<1> QED
  BY <1>1, <1>2, <1>4, <1>5, <1>6 DEF Own, AtWork, Synced, Answers, Outcome

LEMMA InvokeKeepsOwn ==
    ASSUME IInv, TurnsInv, NEW c \in Call, Invoke(c)
    PROVE  Own(c)'
<1>1. phase[c] = "received" /\ UNCHANGED <<req, checkpoint, pending, effects>>
  BY DEF Invoke, InvokeStart, ResumeUnknown, ResumePaused, ResumeUnfinished, ResumeFinished,
     storeVars
<1>2. PICK t \in Thread, k \in Checkpoint :
          t = req[c].thread /\ k = checkpoint[t] /\ Sound(k, t) /\ Settled(k, t)
  BY <1>1, WorkFacts DEF TurnsInv, AtWork
<1>3. reply[c] = "none" /\ TypeOK
  BY <1>1 DEF TurnsInv, Answers, IInv
<1>4. RecordsOf(t)' = RecordsOf(t) /\ \A a : Untouched(a) => Untouched(a)'
  BY <1>1 DEF RecordsOf, Untouched
<1>5. CASE InvokeStart(c)
  <2>1. /\ phase'[c] = "propose" /\ reply'[c] = "none" /\ unsaved'[c] = TRUE
        /\ req'[c].kind = "propose"
        /\ work'[c] = [k EXCEPT !.next = "propose", !.proposal = c, !.kept = "none"]
    BY <1>1, <1>2, <1>3, <1>5 DEF InvokeStart, NodeReturns, Goto, TypeOK
  <2>2. work'[c].proposal # NoCall
    BY <2>1, Fields, NoCallAssumption
  <2> QED
    BY <1>1, <1>2, <2>1, <2>2 DEF Own, AtWork, Synced, Answers, Outcome
<1>6. CASE ResumeUnknown(c)
  <2>1. /\ phase'[c] = "propose" /\ reply'[c] = "none" /\ unsaved'[c] = TRUE
        /\ work'[c].proposal = NoCall /\ k.next = "none"
    BY <1>2, <1>3, <1>6 DEF ResumeUnknown, NodeReturns, Goto, TypeOK, NoCheckpoint
  <2>2. RecordsOf(t) = {}
    BY <1>2, <2>1 DEF Settled
  <2> QED
    BY <1>1, <1>2, <1>4, <2>1, <2>2 DEF Own, AtWork, Synced, Answers, Outcome
<1>7. CASE ResumePaused(c)
  <2>1. PICK v : work'[c] = [k EXCEPT !.decision = v]
    BY <1>2, <1>3, <1>7 DEF ResumePaused, TypeOK
  <2>2. phase'[c] = "resolve" /\ reply'[c] = "none" /\ k.next = "approval"
    BY <1>2, <1>3, <1>7 DEF ResumePaused, Goto, TypeOK
  <2>3. work'[c].action = k.action
    BY <2>1, Fields
  <2>4. pending[k.action].status = "pending"
    BY <1>2, <2>2 DEF Settled
  <2> QED
    BY <1>1, <1>2, <2>2, <2>3, <2>4 DEF Own, AtWork, Synced, Answers, Outcome
<1>8. CASE ResumeUnfinished(c)
  <2>1. /\ k.next \in {"propose", "execute"} /\ phase'[c] = k.next /\ reply'[c] = "none"
        /\ work'[c] = k
    BY <1>2, <1>3, <1>8 DEF ResumeUnfinished, Goto, TypeOK
  <2>2. Synced(c)' /\ Answers(c)'
    BY <1>1, <1>2, <2>1 DEF Synced, Answers, Outcome
  <2>3. CASE k.next = "propose"
    <3>1. RecordsOf(t) = {} /\ k.proposal = NoCall
      BY <1>2, <2>3 DEF Settled
    <3> QED
      BY <1>1, <1>2, <1>4, <2>1, <2>2, <2>3, <3>1 DEF Own, AtWork
  <2>4. CASE k.next = "execute"
    <3>1. ~ToolsHold /\ pending[k.action].status = k.decision
      BY <1>2, <2>4 DEF Settled
    <3> QED
      BY <1>1, <2>1, <2>2, <2>4, <3>1 DEF Own, AtWork
  <2> QED
    BY <2>1, <2>3, <2>4
<1>9. CASE ResumeFinished(c)
  <2>1. /\ k.next = "end" /\ phase'[c] = "exit" /\ reply'[c] = k.result /\ work'[c] = k
    BY <1>2, <1>3, <1>9 DEF ResumeFinished, Goto, Exit, TypeOK
  <2>2. Settled(k, t)'
    BY <1>1, <1>2, <1>4, <2>1 DEF Settled, Decided
  <2>3. Decided(k.action, t) /\ (ToolsHold /\ k.result # "executed" => Untouched(k.action))
    BY <1>2, <2>1 DEF Settled
  <2>4. Answers(c)'
    BY <1>1, <1>2, <1>4, <2>1, <2>3 DEF Answers, Decided
  <2> QED
    BY <1>1, <1>2, <2>1, <2>2, <2>4 DEF Own, AtWork, Synced
<1> QED
  BY <1>5, <1>6, <1>7, <1>8, <1>9 DEF Invoke

\* A record is inserted by the call that proposes it.
LEMMA InsertedIsProposed ==
    ASSUME TurnsInv, NEW c \in Call, InsertRecord(c)
    PROVE  req[c].kind = "propose"
BY DEF InsertRecord, TurnsInv, AtWork

LEMMA ProposeKeepsOwn ==
    ASSUME IInv, TurnsInv, NEW c \in Call,
           ProposeKeyError(c) \/ InsertRecord(c) \/ LogProposed(c) \/ Interrupt(c)
    PROVE  Own(c)'
<1>1. phase[c] \in {"propose", "logProposed", "approval"} /\ UNCHANGED <<req, checkpoint, effects>>
  BY DEF ProposeKeyError, InsertRecord, LogProposed, Interrupt, storeVars
<1>2. PICK t \in Thread, w \in Checkpoint : t = req[c].thread /\ w = work[c] /\ Sound(w, t)
  BY <1>1, WorkFacts
<1>3. reply[c] = "none" /\ TypeOK
  BY <1>1 DEF TurnsInv, Answers, IInv
<1>4. Synced(c)
  BY DEF TurnsInv
<1>5. CASE ProposeKeyError(c)
  <2>1. /\ phase[c] = "propose" /\ phase'[c] = "exit" /\ reply'[c] = "error"
        /\ UNCHANGED <<work, unsaved, pending>> /\ w.proposal = NoCall
    BY <1>2, <1>3, <1>5 DEF ProposeKeyError, Goto, Exit, TypeOK, storeVars
  <2>2. w.next = "propose" /\ RecordsOf(t) = {}
    BY <1>2, <2>1 DEF IInv, NodeOfPhase, TurnsInv, AtWork
  <2>3. RecordsOf(t)' = RecordsOf(t)
    BY <2>1 DEF RecordsOf
  <2>4. Settled(w, t)'
    BY <2>1, <2>2, <2>3 DEF Settled
  <2> QED
    BY <1>1, <1>2, <1>4, <2>1, <2>4 DEF Own, AtWork, Synced, Answers, Outcome
<1>6. CASE InsertRecord(c)
  <2>1. /\ phase'[c] = "logProposed" /\ reply'[c] = "none"
        /\ pending'[c].status = "pending"
    BY <1>3, <1>6 DEF InsertRecord, Goto, TypeOK
  <2> QED
    BY <1>1, <1>6, <2>1, InsertedIsProposed DEF Own, AtWork, Synced, Answers, Outcome
<1>7. CASE LogProposed(c)
  <2>1. /\ phase[c] = "logProposed" /\ phase'[c] = "approval" /\ reply'[c] = "none"
        /\ unsaved'[c] = TRUE /\ pending' = pending
        /\ work'[c] = [w EXCEPT !.next = "approval", !.action = c]
    BY <1>2, <1>3, <1>7 DEF LogProposed, NodeReturns, Goto, TypeOK
  <2>2. PICK v : v = work'[c]
    OBVIOUS
  <2>3. v.next = "approval" /\ v.action = c
    BY <2>1, <2>2, Fields
  <2>4. pending[c].status = "pending"
    BY <2>1 DEF TurnsInv, AtWork
  <2>5. Settled(v, t)'
    BY <2>1, <2>3, <2>4 DEF Settled
  <2> QED
    BY <1>1, <1>2, <2>1, <2>2, <2>5 DEF Own, AtWork, Synced, Answers, Outcome
<1>8. CASE Interrupt(c)
  <2>1. /\ phase[c] = "approval" /\ phase'[c] = "exit" /\ reply'[c] = "paused"
        /\ UNCHANGED <<work, unsaved, pending>>
    BY <1>3, <1>8 DEF Interrupt, Goto, Exit, TypeOK, storeVars
  <2>2. w.next = "approval" /\ Settled(w, t)
    BY <1>2, <2>1 DEF IInv, NodeOfPhase, TurnsInv, AtWork
  <2>3. Settled(w, t)'
    BY <2>1, <2>2 DEF Settled
  <2> QED
    BY <1>1, <1>2, <1>4, <2>1, <2>3 DEF Own, AtWork, Synced, Answers, Outcome
<1> QED
  BY <1>5, <1>6, <1>7, <1>8

LEMMA ApprovalKeepsOwn ==
    ASSUME IInv, TurnsInv, NEW c \in Call, ResolveRecord(c) \/ ResolveNothing(c) \/ LogDecision(c)
    PROVE  Own(c)'
<1>1. phase[c] \in {"resolve", "logDecision"} /\ UNCHANGED <<req, effects, reply>>
  BY DEF ResolveRecord, ResolveNothing, LogDecision, storeVars
<1>2. PICK t \in Thread, w \in Checkpoint : t = req[c].thread /\ w = work[c] /\ Sound(w, t)
  BY <1>1, WorkFacts
<1>3. reply[c] = "none" /\ TypeOK
  BY <1>1 DEF TurnsInv, Answers, IInv
<1>4. ToolsHold => Untouched(w.action) /\ Unanswered(w.action)
  <2>1. pending[w.action].status = "pending" \/ phase[c] = "logDecision"
    BY <1>1, <1>2 DEF TurnsInv, AtWork
  <2> QED
    BY <1>2, <2>1, PendingIsUntouched DEF TurnsInv, AtWork
<1>5. ToolsHold => Untouched(w.action)' /\ Unanswered(w.action)'
  BY <1>1, <1>3, <1>4, StillUnanswered DEF Step, Progress, RunNode, Untouched, Outcome
<1>6. ~ResolveNothing(c)
  BY DEF ResolveNothing, TurnsInv, AtWork
<1>7. CASE ResolveRecord(c)
  <2>1. phase'[c] = "logDecision" /\ work' = work
    BY <1>3, <1>7 DEF ResolveRecord, Goto, TypeOK
  <2> QED
    BY <1>1, <1>2, <1>3, <1>5, <2>1 DEF Own, AtWork, Synced, Answers, Outcome, Unanswered, Untouched
<1>8. CASE LogDecision(c)
  <2>1. /\ phase'[c] = "execute" /\ pending' = pending /\ phase[c] = "logDecision"
        /\ unsaved'[c] = TRUE
        /\ work'[c] = [w EXCEPT !.next = "execute", !.kept = "none"]
    BY <1>2, <1>3, <1>8 DEF LogDecision, NodeReturns, Goto, TypeOK
  <2>2. work'[c].action = w.action /\ work'[c].decision = w.decision
    BY <2>1, Fields
  <2>3. pending[w.action].status = w.decision
    BY <1>2, <2>1 DEF IInv, MidNode
  <2>4. PICK a : a = w.action
    OBVIOUS
  <2>5. AtWork(c)'
    BY <1>5, <2>1, <2>2, <2>3, <2>4 DEF AtWork, Unanswered, Untouched
  <2> QED
    BY <1>1, <1>3, <2>1, <2>5 DEF Own, Synced, Answers, Outcome
<1> QED
  BY <1>6, <1>7, <1>8

LEMMA ExecuteKeepsOwn ==
    ASSUME TakingTurns, IInv, TurnsInv, NEW c \in Call,
           AuditExecution(c) \/ CallTool(c) \/ RecordFailure(c) \/ Fault(c)
    PROVE  Own(c)'
<1>1. /\ phase[c] \in {"execute", "acting", "failing"}
      /\ UNCHANGED <<req, work, unsaved, checkpoint, pending>>
      /\ pending[work[c].action].status = work[c].decision
  BY FaultIsTools DEF AuditExecution, CallTool, RecordFailure, ToolRefuses, ToolRaises,
     ToolNotConfigured, storeVars, TurnsInv, AtWork
<1>2. reply[c] = "none" /\ TypeOK /\ Own(c)
  BY <1>1 DEF TurnsInv, Answers, IInv, Own
<1>3. CASE AuditExecution(c) \/ ToolRefuses(c)
  <2>1. phase[c] = "execute" /\ phase'[c] \in {"acting", "refused"} /\ UNCHANGED <<effects, reply>>
    BY <1>2, <1>3 DEF AuditExecution, ToolRefuses, Goto, TypeOK
  <2>2. ToolsHold => Untouched(work[c].action) /\ Unanswered(work[c].action)
    BY <1>2, <2>1 DEF Own, AtWork
  <2>3. UNCHANGED work /\ \A a : /\ Untouched(a) => Untouched(a)'
                                 /\ Unanswered(a) => Unanswered(a)'
    BY <1>1, <2>1 DEF Untouched, Unanswered
  <2> QED
    BY <1>1, <1>2, <2>1, <2>2, <2>3 DEF Own, AtWork, Synced, Answers, Outcome, Untouched, Unanswered
<1>4. CASE CallTool(c)
  <2>1. phase'[c] = "acted" /\ reply' = reply
    BY <1>2, <1>4 DEF CallTool, Goto, TypeOK
  <2> QED
    BY <1>2, <2>1 DEF Own, AtWork, Synced, Answers, Outcome
<1>5. CASE ~ToolsHold /\ ToolRaises(c)
  <2>1. phase[c] = "acting" /\ phase'[c] = "failing" /\ reply' = reply
    BY <1>2, <1>5 DEF ToolRaises, Goto, TypeOK
  <2> QED
    BY <1>1, <1>2, <2>1 DEF Own, AtWork, Synced, Answers, Outcome
<1>6. CASE ~ToolsHold /\ (ToolNotConfigured(c) \/ RecordFailure(c))
  <2>1. phase'[c] = "exit" /\ reply'[c] = "error"
    BY <1>2, <1>6 DEF ToolNotConfigured, RecordFailure, Goto, Exit, TypeOK
  <2>2. work[c].next = "execute"
    BY <1>1 DEF IInv, NodeOfPhase
  <2>3. PICK w, t : w = work[c] /\ t = req[c].thread
    OBVIOUS
  <2>4. Settled(w, t)'
    BY <1>1, <1>6, <2>2, <2>3 DEF Settled
  <2> QED
    BY <1>1, <1>2, <2>1, <2>3, <2>4 DEF Own, AtWork, Synced, Answers, Outcome
<1>7. RecordFailure(c) => ~ToolsHold
  BY DEF RecordFailure, TurnsInv, NoOtherFailures
<1> QED
  BY <1>3, <1>4, <1>5, <1>6, <1>7, FaultIsTools

LEMMA FinishKeepsOwn ==
    ASSUME IInv, TurnsInv, NEW c \in Call, FinishRejected(c) \/ FinishExecuted(c) \/ FinishRefused(c)
    PROVE  Own(c)'
<1>1. PICK r \in Outcome :
          /\ phase[c] \in {"execute", "acted", "refused"} /\ phase'[c] = "exit"
          /\ reply'[c] = r /\ unsaved'[c] = TRUE
          /\ work'[c] = [work[c] EXCEPT !.next = "end", !.result = r]
          /\ UNCHANGED <<req, pending, effects>>
          /\ r # "executed" => phase[c] \in {"execute", "refused"}
  <2> TypeOK
    BY DEF IInv
  <2> USE DEF Finish, NodeReturns, Exit, Goto, TypeOK, Outcome
  <2>1. CASE FinishRejected(c)
    BY <2>1 DEF FinishRejected
  <2>2. CASE FinishExecuted(c)
    BY <2>2 DEF FinishExecuted
  <2>3. CASE FinishRefused(c)
    BY <2>3 DEF FinishRefused
  <2> QED
    BY <2>1, <2>2, <2>3
<1>2. PICK t \in Thread, w \in Checkpoint : t = req[c].thread /\ w = work[c] /\ Sound(w, t)
  BY <1>1, WorkFacts
<1>3. PICK v : v = work'[c]
  OBVIOUS
<1>4. v.next = "end" /\ v.action = w.action /\ v.result = r
  BY <1>1, <1>2, <1>3, Fields
<1>5. w.next = "execute"
  BY <1>1, <1>2 DEF IInv, NodeOfPhase
<1>6. Decided(w.action, t)
  BY <1>2, <1>5, SoundRecord DEF Sound, Decided
<1>7. r # "executed" /\ ToolsHold => Untouched(w.action)
  BY <1>1, <1>2 DEF TurnsInv, AtWork
<1>8. /\ \A a : Decided(a, t) => Decided(a, t)'
      /\ \A a : Untouched(a) => Untouched(a)'
  BY <1>1 DEF Decided, RecordsOf, Untouched
<1>9. Settled(v, t)'
  BY <1>4, <1>6, <1>7, <1>8 DEF Settled, Decided, Untouched, RecordsOf
<1>10. Answers(c)'
  BY <1>1, <1>2, <1>3, <1>4, <1>6, <1>7, <1>8 DEF Answers, Decided, Untouched, RecordsOf
<1> QED
  BY <1>1, <1>2, <1>3, <1>9, <1>10 DEF Own, AtWork, Synced

LEMMA SaveKeepsOwn ==
    ASSUME IInv, TurnsInv, NEW c \in Call, SaveCheckpoint(c)
    PROVE  Own(c)'
<1>1. /\ InFlight(c) /\ unsaved[c]
      /\ checkpoint' = [checkpoint EXCEPT ![req[c].thread] = work[c]]
      /\ UNCHANGED <<phase, req, work, reply, pending, effects>>
  BY DEF SaveCheckpoint, storeVars
<1>2. PICK t \in Thread : t = req[c].thread /\ TypeOK
  BY <1>1, WorkFacts DEF InFlight, IInv
<1>3. phase[c] # "received" /\ Own(c)
  BY <1>1 DEF TurnsInv, Synced, Own
<1>4. checkpoint'[t] = work[c]
  BY <1>1, <1>2 DEF TypeOK
<1>5. Synced(c)'
  BY <1>1, <1>2, <1>3, <1>4 DEF Synced, InFlight
<1>6. Answers(c)'
  BY <1>1, <1>3 DEF Answers, Own, Decided, RecordsOf, Untouched
<1>7. AtWork(c)'
  BY <1>1, <1>3 DEF AtWork, Own, Settled, Decided, RecordsOf, Untouched, Unanswered
<1> QED
  BY <1>5, <1>6, <1>7 DEF Own

LEMMA RespondKeepsOwn ==
    ASSUME IInv, TurnsInv, NEW c \in Call, Respond(c)
    PROVE  Own(c)'
<1>1. /\ phase[c] = "exit" /\ phase'[c] = "done"
      /\ UNCHANGED <<req, work, reply, pending, effects>>
  BY DEF Respond, Goto, storeVars, IInv, TypeOK
<1>2. Answers(c)
  BY DEF TurnsInv
<1> QED
  BY <1>1, <1>2 DEF Own, AtWork, Synced, Answers, Decided, RecordsOf, Untouched

LEMMA StepKeepsOwn ==
    ASSUME TakingTurns, IInv, TurnsInv, NEW c \in Call, Step(c)
    PROVE  Own(c)'
<1>1. RunNode(c) => Own(c)'
  BY ProposeKeepsOwn, ApprovalKeepsOwn, ExecuteKeepsOwn, FinishKeepsOwn DEF RunNode
<1> QED
  BY <1>1, ArriveKeepsOwn, InvokeKeepsOwn, ExecuteKeepsOwn, SaveKeepsOwn, RespondKeepsOwn
     DEF Step, Progress

-----------------------------------------------------------------------------
(***************************************************************************)
(* The invariant                                                           *)
(***************************************************************************)

LEMMA NoOtherFailuresStay ==
    ASSUME TakingTurns, IInv, TurnsInv, NEW c \in Call, Step(c)
    PROVE  NoOtherFailures'
<1> TypeOK /\ NoOtherFailures
  BY DEF IInv, TurnsInv
<1>1. ASSUME NEW d \in Call, d # c
      PROVE  phase'[d] # "dead" /\ (phase'[d] = "failing" => ~ToolsHold)
  BY <1>1, OthersUntouched DEF Others, NoOtherFailures
<1>2. phase'[c] # "dead" /\ (phase'[c] = "failing" => ~ToolsHold)
  <2> USE DEF TypeOK, Goto, Exit, NodeReturns, NoOtherFailures
  <2>1. CASE Arrive(c)
    BY <2>1, ArrivalIs
  <2>2. CASE Invoke(c)
    <3>1. phase'[c] \in {"propose", "resolve", "execute", "exit"}
      BY <2>2 DEF Invoke, InvokeStart, ResumeUnknown, ResumePaused, ResumeUnfinished, ResumeFinished
    <3> QED
      BY <3>1
  <2>3. CASE RunNode(c)
    BY <2>3 DEF RunNode, ProposeKeyError, InsertRecord, LogProposed, Interrupt, ResolveRecord,
       ResolveNothing, LogDecision, FinishRejected, AuditExecution, CallTool,
       FinishExecuted, FinishRefused, RecordFailure, Finish
  <2>4. CASE Fault(c)
    BY <2>4, FaultIsTools DEF ToolRefuses, ToolRaises, ToolNotConfigured
  <2>5. CASE SaveCheckpoint(c) \/ Respond(c)
    BY <2>5 DEF SaveCheckpoint, Respond
  <2> QED
    BY <2>1, <2>2, <2>3, <2>4, <2>5 DEF Step, Progress
<1> QED
  BY <1>1, <1>2 DEF NoOtherFailures

LEMMA OneAtATimeStays ==
    ASSUME TakingTurns, IInv, TurnsInv, NEW c \in Call, Step(c)
    PROVE  OneAtATime'
<1>1. \A d \in Call : d # c => phase'[d] = phase[d] /\ req'[d] = req[d]
  BY OthersUntouched DEF Others, IInv
<1>2. CASE phase[c] = "idle"
  <2>1. PICK t \in Thread : req'[c].thread = t /\ MayArrive(c, t)
    BY <1>2, StepperIsBusy DEF InFlight, Arrive, ReceivePropose, ReceiveDecision, IInv, TypeOK
  <2>2. \A d \in Call : InFlight(d) => req[d].thread # t
    BY <2>1 DEF MayArrive, TakingTurns
  <2> QED
    BY <1>1, <2>1, <2>2 DEF TurnsInv, OneAtATime, InFlight
<1>3. CASE phase[c] # "idle"
  <2>1. InFlight(c) /\ req' = req
    BY <1>3, StepperIsBusy, StepFrame DEF IInv
  <2> QED
    BY <1>1, <2>1 DEF TurnsInv, OneAtATime, InFlight
<1> QED
  BY <1>2, <1>3

LEMMA OneProposalStays ==
    ASSUME IInv, TurnsInv, NEW c \in Call, Step(c)
    PROVE  OneProposal'
<1> SUFFICES ASSUME ~ReuseThreads
             PROVE  OneProposal'
  BY DEF OneProposal
<1>1. \A d \in Call : d # c => req'[d] = req[d]
  BY OthersUntouched DEF Others, IInv
<1>2. CASE phase[c] = "idle"
  <2>1. Arrive(c)
    BY <1>2, StepperIsBusy DEF InFlight
  <2>2. CASE \E t \in Thread : ReceivePropose(c, t)
    <3>1. PICK t \in Thread : ~Proposed(t) /\ req'[c] = [kind |-> "propose", thread |-> t]
      BY <2>2 DEF ReceivePropose, IInv, TypeOK
    <3> QED
      BY <1>1, <3>1 DEF TurnsInv, OneProposal, Proposed
  <2>3. CASE req'[c].kind = "decide"
    BY <1>1, <2>3 DEF TurnsInv, OneProposal
  <2>4. ASSUME NEW t \in Thread, NEW vote, NEW about, ReceiveDecision(c, t, vote, about)
        PROVE  req'[c].kind = "decide"
    BY <2>4 DEF ReceiveDecision, IInv, TypeOK
  <2> QED
    BY <2>1, <2>2, <2>3, <2>4 DEF Arrive
<1>3. CASE phase[c] # "idle"
  <2>1. req' = req
    BY <1>3, StepFrame DEF IInv
  <2> QED
    BY <2>1 DEF TurnsInv, OneProposal
<1> QED
  BY <1>2, <1>3

LEMMA OwnRecordsStay ==
    ASSUME IInv, TurnsInv, NEW c \in Call, Step(c)
    PROVE  OwnRecords'
<1> SUFFICES ASSUME NEW a \in Call, pending'[a] # NoRecord
             PROVE  req'[a].kind = "propose" /\ req'[a].thread = pending'[a].thread
  BY DEF OwnRecords
<1>1. CASE pending[a] # NoRecord
  <2>1. req[a].kind = "propose" /\ req[a].thread = pending[a].thread /\ pending[a] \in Record
    BY <1>1, RecordIsThere DEF TurnsInv, OwnRecords
  <2>2. phase[a] # "idle"
    BY <2>1 DEF IInv, FreshCalls, NoRequest
  <2>3. req'[a] = req[a]
    BY <2>2, OthersUntouched, StepFrame DEF Others, IInv
  <2> QED
    BY <2>1, <2>3, RecordsMonotone
<1>2. CASE pending[a] = NoRecord
  <2>1. a = c
    BY <1>2, OtherRecordsAbsent
  <2>2. InsertRecord(c)
    <3>1. ~(pending' = pending)
      BY <1>2
    <3>2. CASE ResolveRecord(c)
      <4>1. work[c].action # c
        BY <1>2, <2>1, <3>2 DEF ResolveRecord, NoRecord
      <4> QED
        BY <1>2, <2>1, <3>2, <4>1 DEF ResolveRecord, IInv, TypeOK
    <3> QED
      BY <3>1, <3>2, RecordsChange
  <2>3. req[c].kind = "propose" /\ req' = req
    BY <2>2, InsertedIsProposed DEF InsertRecord
  <2>4. pending'[c].thread = req[c].thread
    BY <2>2 DEF InsertRecord, IInv, TypeOK
  <2> QED
    BY <2>1, <2>3, <2>4
<1> QED
  BY <1>1, <1>2

LEMMA StepKeepsTurns ==
    ASSUME TakingTurns, IInv, TurnsInv, [Next]_vars
    PROVE  TurnsInv'
<1>1. CASE UNCHANGED vars
  BY <1>1 DEF vars, callVars, storeVars, TurnsInv, NoOtherFailures, OneAtATime, OneProposal, OwnRecords,
     AtRest, AtWork, Synced, Answers, Settled, Decided, Untouched, Unanswered, RecordsOf, InFlight
<1>2. ASSUME NEW c \in Call, Step(c)
      PROVE  TurnsInv'
  <2>1. AtWork(c)' /\ Synced(c)' /\ Answers(c)'
    BY <1>2, StepKeepsOwn DEF Own
  <2>2. \A d \in Call : AtWork(d)' /\ Synced(d)' /\ Answers(d)'
    BY <1>2, <2>1, OthersKeepTurns
  <2> QED
    BY <1>2, <2>2, NoOtherFailuresStay, OneAtATimeStays, OneProposalStays, OwnRecordsStay, AtRestStays
       DEF TurnsInv
<1> QED
  BY <1>1, <1>2 DEF Next, Step

LEMMA InitTurns == Init => TurnsInv
<1> SUFFICES ASSUME Init PROVE TurnsInv
  OBVIOUS
<1>1. \A c \in Call : /\ phase[c] = "idle" /\ req[c].kind = "none" /\ reply[c] = "none"
                      /\ pending[c] = NoRecord /\ ~unsaved[c]
  BY DEF Init, NoRequest
<1>2. \A t \in Thread : checkpoint[t] = NoCheckpoint /\ RecordsOf(t) = {}
  BY <1>1 DEF Init, RecordsOf
<1>3. \A t \in Thread : Settled(NoCheckpoint, t)
  BY <1>2 DEF Settled, NoCheckpoint
<1>4. AtRest
  BY <1>2, <1>3 DEF AtRest
<1>5. \A c \in Call : AtWork(c) /\ Synced(c) /\ Answers(c)
  BY <1>1 DEF AtWork, Synced, Answers, Outcome
<1> QED
  BY <1>1, <1>4, <1>5 DEF TurnsInv, NoOtherFailures, OneAtATime, OneProposal, OwnRecords, InFlight

LEMMA TurnsHold == ASSUME TakingTurns PROVE Spec => []TurnsInv
BY InitTurns, StepKeepsTurns, InvariantHolds, PTL DEF Spec

-----------------------------------------------------------------------------
(***************************************************************************)
(* The theorems                                                            *)
(***************************************************************************)

\* A record that is listed as pending can be decided: its thread is paused
\* for it, or a call is at work there (add_pending_action, interrupt() and
\* the checkpoint come in an order that leaves no gap once invoke() returns).
\* A tool may refuse or raise; a process id is used for one write.
THEOREM PendingIsAlive ==
    ASSUME TakingTurns, ~ReuseThreads
    PROVE  Spec => []PendingIsDecidable
<1>1. IInv /\ TurnsInv => PendingIsDecidable
  <2> SUFFICES ASSUME IInv, TurnsInv, NEW a \in Call, pending[a].status = "pending",
                      ~ \E c \in Call : InFlight(c) /\ req[c].thread = pending[a].thread
               PROVE  /\ checkpoint[pending[a].thread].next = "approval"
                      /\ checkpoint[pending[a].thread].action = a
    BY DEF PendingIsDecidable
  <2>1. pending[a] # NoRecord
    BY DEF NoRecord
  <2>2. PICK t \in Thread : t = pending[a].thread /\ a \in RecordsOf(t)
    BY <2>1, RecordIsThere DEF RecordsOf, Record
  <2>3. PICK k \in Checkpoint : k = checkpoint[t] /\ Sound(k, t) /\ Settled(k, t)
    BY <2>2 DEF TurnsInv, AtRest, IInv, TypeOK, SoundCheckpoints
  <2>4. \A b \in RecordsOf(t) : b = a
    BY <2>2 DEF RecordsOf, TurnsInv, OwnRecords, OneProposal
  <2>5. k.next \in {"none", "propose", "approval", "execute", "end"}
    BY CheckpointFields
  <2>6. pending[a].status \notin Vote /\ Sound(k, t)
    BY <2>3 DEF Vote
  <2>7. k.next \notin {"none", "propose"}
    BY <2>2, <2>3 DEF Settled
  <2>8. k.next # "execute"
    BY <2>4, <2>6, SoundRecord DEF Sound
  <2>9. k.next # "end"
    BY <2>3, <2>4, <2>6 DEF Settled, Decided
  <2>10. k.next = "approval"
    BY <2>5, <2>7, <2>8, <2>9
  <2> QED
    BY <2>2, <2>3, <2>4, <2>10, SoundRecord
<1> QED
  BY <1>1, TurnsHold, InvariantHolds, PTL

\* A caller that was told "not executed", having rejected the action or had
\* the tool refuse it, was told the truth, then and for good.  A process id
\* may be used for many writes; no tool call raises.
THEOREM RejectionIsTrue ==
    ASSUME TakingTurns, ToolsHold
    PROVE  Spec => []RejectionSendsNothing
<1>1. TurnsInv => RejectionSendsNothing
  BY DEF TurnsInv, Answers, Untouched, RejectionSendsNothing
<1> QED
  BY <1>1, TurnsHold, PTL

-----------------------------------------------------------------------------
(***************************************************************************)
(* The gate implements ApprovalGate                                        *)
(***************************************************************************)

Stage == [a \in Call |-> pending[a].status]
ExecutedBy == [a \in Call |-> {e.call : e \in {f \in effects : f.action = a}}]

LEMMA GateStutters ==
    ASSUME UNCHANGED <<pending, effects>>
    PROVE  UNCHANGED <<Stage, ExecutedBy>>
BY DEF Stage, ExecutedBy

LEMMA InsertProposes ==
    ASSUME IInv, NEW c \in Call, InsertRecord(c)
    PROVE  Gate!Propose(c)
<1>1. pending[c] = NoRecord
  BY DEF InsertRecord, IInv, FreshCalls
<1>2. PICK r : r.status = "pending" /\ pending' = [pending EXCEPT ![c] = r] /\ effects' = effects
  BY DEF InsertRecord
<1>3. Stage[c] = "absent"
  BY <1>1 DEF Stage, NoRecord
<1>4. Stage' = [Stage EXCEPT ![c] = "pending"]
  BY <1>2 DEF Stage, IInv, TypeOK
<1>5. ExecutedBy' = ExecutedBy
  BY <1>2 DEF ExecutedBy
<1> QED
  BY <1>3, <1>4, <1>5 DEF Gate!Propose, Stage, ExecutedBy

LEMMA ResolveDecides ==
    ASSUME IInv, NEW c \in Call, ResolveRecord(c)
    PROVE  \E a \in Call : \E vote \in Vote : Gate!Decide(a, vote)
<1>1. work[c].action \in Call /\ work[c].decision \in Vote
  <2>1. phase[c] = "resolve" /\ work[c].next = "approval"
    BY DEF ResolveRecord, IInv, NodeOfPhase
  <2> QED
    BY <2>1, WorkFacts DEF Sound, IInv, DecisionAtHand
<1>2. PICK a \in Call, v \in Vote : a = work[c].action /\ v = work[c].decision
  BY <1>1
<1>3. /\ pending[a].status = "pending" /\ effects' = effects
      /\ pending' = [pending EXCEPT ![a].status = v]
  BY <1>2 DEF ResolveRecord
<1>4. pending'[a].status = v
  <2>1. pending[a] \in Record /\ pending'[a] = [pending[a] EXCEPT !.status = v]
    BY <1>3, RecordIsThere DEF NoRecord, IInv, TypeOK
  <2> QED
    BY <2>1 DEF Record
<1>5. Stage' = [Stage EXCEPT ![a] = v]
  <2>1. \A b \in Call : pending'[b].status = IF b = a THEN v ELSE pending[b].status
    BY <1>3, <1>4 DEF IInv, TypeOK
  <2> QED
    BY <2>1 DEF Stage
<1>6. Stage[a] = "pending" /\ ExecutedBy' = ExecutedBy
  BY <1>3 DEF Stage, ExecutedBy
<1>7. Gate!Decide(a, v)
  BY <1>5, <1>6 DEF Gate!Decide, Stage, ExecutedBy
<1> QED
  BY <1>7

LEMMA CallToolExecutes ==
    ASSUME ToolsHold, IInv, TurnsInv, NEW c \in Call, CallTool(c)
    PROVE  \E a \in Call : Gate!Execute(a, c)
<1>1. phase[c] = "acting" /\ pending' = pending /\ effects' = effects \cup {EffectOf(c)}
  BY DEF CallTool, storeVars
<1>2. PICK a \in Call : a = work[c].action /\ Untouched(a)
  BY <1>1, ActingRecord DEF RecordsOf, TurnsInv, AtWork
<1>3. Stage[a] = "approved" /\ Stage' = Stage
  BY <1>1, <1>2 DEF Stage, TurnsInv, AtWork, IInv, MidNode
<1>4. ExecutedBy[a] = {}
  BY <1>2 DEF ExecutedBy, Untouched
<1>5. PICK e : e = EffectOf(c)
  OBVIOUS
<1>6. e.call = c /\ e.action = a
  BY <1>2, <1>5 DEF EffectOf
<1>7. \A b \in Call : ExecutedBy'[b] = IF b = a THEN {c} ELSE ExecutedBy[b]
  <2>1. ASSUME NEW b \in Call, b # a
        PROVE  {f \in effects' : f.action = b} = {f \in effects : f.action = b}
    BY <1>1, <1>5, <1>6, <2>1
  <2>2. {f \in effects' : f.action = a} = {e}
    BY <1>1, <1>2, <1>5, <1>6 DEF Untouched
  <2> QED
    BY <1>6, <2>1, <2>2 DEF ExecutedBy
<1>8. ExecutedBy' = [ExecutedBy EXCEPT ![a] = {c}]
  BY <1>7 DEF ExecutedBy
<1>9. Gate!Execute(a, c)
  BY <1>3, <1>4, <1>8 DEF Gate!Execute, Stage, ExecutedBy
<1> QED
  BY <1>9

LEMMA StepIsGateStep ==
    ASSUME TakingTurns, ToolsHold, IInv, TurnsInv, [Next]_vars
    PROVE  Gate!Next \/ UNCHANGED <<Stage, ExecutedBy>>
<1>1. CASE UNCHANGED vars
  BY <1>1, GateStutters DEF vars, storeVars
<1>2. ASSUME NEW c \in Call, Step(c)
      PROVE  Gate!Next \/ UNCHANGED <<Stage, ExecutedBy>>
  <2>1. CASE InsertRecord(c)
    BY <2>1, InsertProposes DEF Gate!Next
  <2>2. CASE ResolveRecord(c)
    BY <2>2, ResolveDecides DEF Gate!Next, Vote
  <2>3. CASE CallTool(c)
    BY <2>3, CallToolExecutes DEF Gate!Next
  <2>4. CASE UNCHANGED <<pending, effects>>
    BY <2>4, GateStutters
  <2>5. \/ InsertRecord(c) \/ ResolveRecord(c) \/ CallTool(c) \/ Fault(c)
        \/ UNCHANGED <<pending, effects>>
    BY <1>2 DEF Step, Arrive, ReceivePropose, ReceiveDecision, Progress, SaveCheckpoint, Respond,
       Invoke, InvokeStart, ResumeUnknown, ResumePaused, ResumeUnfinished, ResumeFinished,
       RunNode, ProposeKeyError, LogProposed, Interrupt, ResolveNothing, LogDecision,
       FinishRejected, AuditExecution, FinishExecuted, FinishRefused, RecordFailure, storeVars
  <2>6. Fault(c) => UNCHANGED <<pending, effects>>
    BY FaultIsTools DEF ToolRefuses
  <2> QED
    BY <2>1, <2>2, <2>3, <2>4, <2>5, <2>6
<1> QED
  BY <1>1, <1>2 DEF Next, Step

\* The gate implements ApprovalGate: an action is decided once, and executed
\* at most once, by one call, after it was approved.  A process id may be used
\* for many writes; no tool call raises.
THEOREM GateImplemented ==
    ASSUME TakingTurns, ToolsHold
    PROVE  Spec => GateSpec
<1>1. Init => Gate!Init
  BY DEF Init, Gate!Init, NoRecord
<1>2. IInv /\ TurnsInv /\ [Next]_vars => [Gate!Next]_<<Stage, ExecutedBy>>
  BY StepIsGateStep
<1> QED
  BY <1>1, <1>2, TurnsHold, InvariantHolds, PTL DEF Spec, GateSpec, Gate!Spec, Stage, ExecutedBy
=============================================================================
