----------------------------- MODULE ActionGraph -----------------------------
(***************************************************************************)
(* The write gate: the propose -> approval -> execute graph of graph.py,   *)
(* run by concurrent HTTP calls over PostgresStateStore and a LangGraph    *)
(* Postgres checkpointer.                                                  *)
(*                                                                         *)
(* A call is one HTTP request: a write route (kind "propose") or           *)
(* POST /tools/actions/{id}/decision (kind "decide").  The process_id of   *)
(* the code is the LangGraph thread.  A call runs add_pending_action at    *)
(* most once, so the record it inserts, whose id is a fresh uuid in the    *)
(* code, is named by the call itself; and so is the proposal (tool, method *)
(* and payload) a propose call carries.                                    *)
(*                                                                         *)
(* One action is one statement against a shared store, or one step of the  *)
(* graph between two of them; each store statement commits on its own      *)
(* (autocommit), so a call may stop, fail or be overtaken between any two. *)
(***************************************************************************)

CONSTANTS
    Call,           \* the HTTP requests that may be made
    Thread,         \* the process ids they name
    NoCall,         \* stands for an absent proposal or record id
    Faults,         \* which occur: "crash", "store", "tool", "refusal"
    Serial,         \* the clients have one call in flight per process id
    ReuseThreads    \* a process id may be given to more than one write

ASSUME NoCallAssumption == NoCall \notin Call

ASSUME EnvironmentAssumption ==
    /\ Faults \subseteq {"crash", "store", "tool", "refusal"}
    /\ Serial \in BOOLEAN
    /\ ReuseThreads \in BOOLEAN

VARIABLES
    phase,          \* where each call is in its handler
    req,            \* the request of each call
    work,           \* the graph state a call's invocation holds in memory
    unsaved,        \* the invocation's newest checkpoint is not yet written
    reply,          \* the outcome a call returns
    checkpoint,     \* the newest durable checkpoint of each thread
    pending,        \* table apm_pending_actions
    events,         \* table apm_events
    status,         \* table apm_processes: the "result" of a thread
    effects         \* writes that took place in the external systems

callVars == <<phase, req, work, unsaved, reply>>
storeVars == <<pending, events, status>>
vars == <<callVars, checkpoint, storeVars, effects>>

-----------------------------------------------------------------------------
(***************************************************************************)
(* Types                                                                   *)
(***************************************************************************)

Vote == {"approved", "rejected"}
MaybeCall == Call \cup {NoCall}
MaybeVote == Vote \cup {"none"}

\* The state of one thread: the node to run next, the channels of GraphState
\* the control depends on, and the resume value LangGraph keeps for an
\* approval task that failed after interrupt() had returned.
Checkpoint ==
    [next     : {"none", "propose", "approval", "execute", "end"},
     proposal : MaybeCall,
     action   : MaybeCall,
     decision : MaybeVote,
     kept     : MaybeVote,
     result   : {"none", "executed", "rejected", "refused"}]

NoCheckpoint ==
    [next |-> "none", proposal |-> NoCall, action |-> NoCall,
     decision |-> "none", kept |-> "none", result |-> "none"]

Request ==
    [kind : {"propose"}, thread : Thread]
        \cup
    [kind : {"decide"}, thread : Thread, vote : Vote, about : MaybeCall]

NoRequest == [kind |-> "none"]

Record == [thread : Thread, proposal : Call, status : {"pending"} \cup Vote]
NoRecord == [status |-> "absent"]

Event ==
    [type : {"proposed", "executed", "failed"} \cup Vote,
     call : Call, action : MaybeCall]

Effect == [call : Call, action : MaybeCall, proposal : MaybeCall]

Phase ==
    {"idle", "received", "propose", "logProposed", "approval", "resolve",
     "logDecision", "execute", "acting", "acted", "refused", "failing",
     "exit", "done", "dead"}

InFlight(c) == phase[c] \notin {"idle", "done", "dead"}
Proposed(t) == \E c \in Call : req[c].kind = "propose" /\ req[c].thread = t
RecordsOf(t) == {a \in Call : pending[a] # NoRecord /\ pending[a].thread = t}

Init ==
    /\ phase = [c \in Call |-> "idle"]
    /\ req = [c \in Call |-> NoRequest]
    /\ work = [c \in Call |-> NoCheckpoint]
    /\ unsaved = [c \in Call |-> FALSE]
    /\ reply = [c \in Call |-> "none"]
    /\ checkpoint = [t \in Thread |-> NoCheckpoint]
    /\ pending = [a \in Call |-> NoRecord]
    /\ events = {}
    /\ status = [t \in Thread |-> "none"]
    /\ effects = {}

-----------------------------------------------------------------------------
(***************************************************************************)
(* Steps shared by the handlers                                            *)
(***************************************************************************)

Goto(c, p) == phase' = [phase EXCEPT ![c] = p]

Exit(c, r) ==
    /\ Goto(c, "exit")
    /\ reply' = [reply EXCEPT ![c] = r]

Log(c, type) ==
    events' = events \cup {[type |-> type, call |-> c, action |-> work[c].action]}

\* A node has returned: LangGraph folds its update into the state and hands
\* the new checkpoint to a background writer (durability "async").
NodeReturns(c, w) ==
    /\ work' = [work EXCEPT ![c] = w]
    /\ unsaved' = [unsaved EXCEPT ![c] = TRUE]

\* Other invocations on the thread of c have checkpoints still to be written.
\* Nothing locks a thread.
Overlapping(c) == {d \in Call \ {c} : unsaved[d] /\ req[d].thread = req[c].thread}

\* The background writer stores the newest checkpoint of c.  A thread's
\* checkpoint is the one with the highest id, and the ids follow the order in
\* which they were made: an overlapping one that is older will be a row that
\* nobody reads, whenever it is written.  Which ones are older is left open.
SaveCheckpoint(c) ==
    /\ InFlight(c) /\ unsaved[c]
    /\ checkpoint' = [checkpoint EXCEPT ![req[c].thread] = work[c]]
    /\ \E older \in SUBSET Overlapping(c) :
          unsaved' = [d \in Call |-> unsaved[d] /\ d # c /\ d \notin older]
    /\ UNCHANGED <<phase, req, work, reply, storeVars, effects>>

\* Variant: the route answers without waiting for the checkpoint writer.
RespondUnsaved(c) ==
    /\ phase[c] = "exit"
    /\ Goto(c, "done")
    /\ UNCHANGED <<req, work, unsaved, reply, checkpoint, storeVars, effects>>

\* invoke() returns, and the route answers, once the writer is idle.
Respond(c) ==
    /\ phase[c] = "exit" /\ ~unsaved[c]
    /\ Goto(c, "done")
    /\ UNCHANGED <<req, work, unsaved, reply, checkpoint, storeVars, effects>>

-----------------------------------------------------------------------------
(***************************************************************************)
(* Arrival of requests                                                     *)
(***************************************************************************)

MayArrive(c, t) ==
    /\ phase[c] = "idle"
    /\ Serial => \A d \in Call : InFlight(d) => req[d].thread # t

ReceivePropose(c, t) ==
    /\ MayArrive(c, t)
    /\ ReuseThreads \/ ~Proposed(t)
    /\ req' = [req EXCEPT ![c] = [kind |-> "propose", thread |-> t]]
    /\ Goto(c, "received")
    /\ UNCHANGED <<work, unsaved, reply, checkpoint, storeVars, effects>>

\* Whoever decides has been shown a record of the thread (by the propose
\* reply or by the list of pending actions, perhaps a while ago), if there
\* is one; the request itself names the thread only.
ReceiveDecision(c, t, vote, about) ==
    /\ MayArrive(c, t)
    /\ about \in (IF RecordsOf(t) = {} THEN {NoCall} ELSE RecordsOf(t))
    /\ req' = [req EXCEPT ![c] =
                  [kind |-> "decide", thread |-> t, vote |-> vote, about |-> about]]
    /\ Goto(c, "received")
    /\ UNCHANGED <<work, unsaved, reply, checkpoint, storeVars, effects>>

-----------------------------------------------------------------------------
(***************************************************************************)
(* graph.invoke: start_action and resume_process                           *)
(***************************************************************************)

\* start_action: a new input on the thread discards whatever task the
\* thread had left and starts the graph again; only the channels named by
\* the input are overwritten.
InvokeStart(c) ==
    /\ phase[c] = "received" /\ req[c].kind = "propose"
    /\ NodeReturns(c, [checkpoint[req[c].thread] EXCEPT
                          !.next = "propose", !.proposal = c, !.kept = "none"])
    /\ Goto(c, "propose")
    /\ UNCHANGED <<req, reply, checkpoint, storeVars, effects>>

\* resume_process on a thread that never saw an input: the graph starts
\* with empty channels.
ResumeUnknown(c) ==
    /\ phase[c] = "received" /\ req[c].kind = "decide"
    /\ checkpoint[req[c].thread].next = "none"
    /\ NodeReturns(c, [NoCheckpoint EXCEPT !.next = "propose"])
    /\ Goto(c, "propose")
    /\ UNCHANGED <<req, reply, checkpoint, storeVars, effects>>

\* Variant: the resume value does not reach the approval node.
ResumePausedWithoutVote(c) ==
    LET k == checkpoint[req[c].thread] IN
    /\ phase[c] = "received" /\ req[c].kind = "decide"
    /\ k.next = "approval"
    /\ work' = [work EXCEPT ![c] = k]
    /\ Goto(c, "resolve")
    /\ UNCHANGED <<req, unsaved, reply, checkpoint, storeVars, effects>>

\* resume_process on a thread that is paused: the approval node runs again
\* and interrupt() returns the resume value, the kept one if there is one.
ResumePaused(c) ==
    LET k == checkpoint[req[c].thread] IN
    /\ phase[c] = "received" /\ req[c].kind = "decide"
    /\ k.next = "approval"
    /\ work' = [work EXCEPT ![c] =
                   [k EXCEPT !.decision = IF k.kept = "none" THEN req[c].vote ELSE k.kept]]
    /\ Goto(c, "resolve")
    /\ UNCHANGED <<req, unsaved, reply, checkpoint, storeVars, effects>>

\* resume_process on a thread whose propose or execute node failed or was
\* cut off: that node runs again, and the resume value is not consumed.
ResumeUnfinished(c) ==
    LET k == checkpoint[req[c].thread] IN
    /\ phase[c] = "received" /\ req[c].kind = "decide"
    /\ k.next \in {"propose", "execute"}
    /\ work' = [work EXCEPT ![c] = k]
    /\ Goto(c, k.next)
    /\ UNCHANGED <<req, unsaved, reply, checkpoint, storeVars, effects>>

\* Variant: a decision on a finished thread is answered by its own vote.
ResumeFinishedByVote(c) ==
    LET k == checkpoint[req[c].thread] IN
    /\ phase[c] = "received" /\ req[c].kind = "decide"
    /\ k.next = "end"
    /\ work' = [work EXCEPT ![c] = k]
    /\ Exit(c, IF req[c].vote = "rejected" THEN "rejected" ELSE k.result)
    /\ UNCHANGED <<req, unsaved, checkpoint, storeVars, effects>>

\* resume_process on a finished thread: nothing runs, the old result is
\* returned.
ResumeFinished(c) ==
    LET k == checkpoint[req[c].thread] IN
    /\ phase[c] = "received" /\ req[c].kind = "decide"
    /\ k.next = "end"
    /\ work' = [work EXCEPT ![c] = k]
    /\ Exit(c, k.result)
    /\ UNCHANGED <<req, unsaved, checkpoint, storeVars, effects>>

-----------------------------------------------------------------------------
(***************************************************************************)
(* propose_node and add_pending_action                                     *)
(***************************************************************************)

\* propose_node on empty channels: state["process_id"] raises KeyError.
ProposeKeyError(c) ==
    /\ phase[c] = "propose" /\ work[c].proposal = NoCall
    /\ Exit(c, "error")
    /\ UNCHANGED <<req, work, unsaved, checkpoint, storeVars, effects>>

InsertRecord(c) ==
    /\ phase[c] = "propose" /\ work[c].proposal # NoCall
    /\ pending' = [pending EXCEPT ![c] =
                      [thread |-> req[c].thread, proposal |-> work[c].proposal,
                       status |-> "pending"]]
    /\ Goto(c, "logProposed")
    /\ UNCHANGED <<req, work, unsaved, reply, checkpoint, events, status, effects>>

\* Variant: a pending_action_id left by an earlier proposal is kept.
LogProposedKeepsId(c) ==
    /\ phase[c] = "logProposed"
    /\ events' = events \cup {[type |-> "proposed", call |-> c, action |-> c]}
    /\ NodeReturns(c, [work[c] EXCEPT !.next = "approval",
                          !.action = IF @ = NoCall THEN c ELSE @])
    /\ Goto(c, "approval")
    /\ UNCHANGED <<req, reply, checkpoint, pending, status, effects>>

LogProposed(c) ==
    /\ phase[c] = "logProposed"
    /\ events' = events \cup {[type |-> "proposed", call |-> c, action |-> c]}
    /\ NodeReturns(c, [work[c] EXCEPT !.next = "approval", !.action = c])
    /\ Goto(c, "approval")
    /\ UNCHANGED <<req, reply, checkpoint, pending, status, effects>>

-----------------------------------------------------------------------------
(***************************************************************************)
(* approval_node and resolve_pending_action                                *)
(***************************************************************************)

\* Reached from propose_node there is no resume value: interrupt() raises,
\* the thread pauses and the caller gets the pending action.
Interrupt(c) ==
    /\ phase[c] = "approval"
    /\ Exit(c, "paused")
    /\ UNCHANGED <<req, work, unsaved, checkpoint, storeVars, effects>>

\* Variant: the UPDATE lacks AND status = 'pending'.
ResolveAnyRecord(c) ==
    /\ phase[c] = "resolve"
    /\ pending' = [pending EXCEPT ![work[c].action].status = work[c].decision]
    /\ Goto(c, "logDecision")
    /\ UNCHANGED <<req, work, unsaved, reply, checkpoint, events, status, effects>>

\* UPDATE ... WHERE id = %s AND status = 'pending' RETURNING ...
ResolveRecord(c) ==
    LET a == work[c].action IN
    /\ phase[c] = "resolve"
    /\ pending[a].status = "pending"
    /\ pending' = [pending EXCEPT ![a].status = work[c].decision]
    /\ Goto(c, "logDecision")
    /\ UNCHANGED <<req, work, unsaved, reply, checkpoint, events, status, effects>>

\* The UPDATE matches no row: resolve_pending_action returns None, which
\* approval_node does not look at.
ResolveNothing(c) ==
    /\ phase[c] = "resolve"
    /\ pending[work[c].action].status # "pending"
    /\ NodeReturns(c, [work[c] EXCEPT !.next = "execute", !.kept = "none"])
    /\ Goto(c, "execute")
    /\ UNCHANGED <<req, reply, checkpoint, storeVars, effects>>

\* Variant: the graph has no edge from approval to execute.
LogDecisionAndStop(c) ==
    /\ phase[c] = "logDecision"
    /\ Log(c, work[c].decision)
    /\ NodeReturns(c, [work[c] EXCEPT !.next = "end"])
    /\ Exit(c, "none")
    /\ UNCHANGED <<req, checkpoint, pending, status, effects>>

LogDecision(c) ==
    /\ phase[c] = "logDecision"
    /\ Log(c, work[c].decision)
    /\ NodeReturns(c, [work[c] EXCEPT !.next = "execute", !.kept = "none"])
    /\ Goto(c, "execute")
    /\ UNCHANGED <<req, reply, checkpoint, pending, status, effects>>

-----------------------------------------------------------------------------
(***************************************************************************)
(* execute_node and a tool's write method                                  *)
(***************************************************************************)

Finish(c, outcome) ==
    /\ status' = [status EXCEPT ![req[c].thread] = outcome]
    /\ NodeReturns(c, [work[c] EXCEPT !.next = "end", !.result = outcome])
    /\ Exit(c, outcome)

FinishRejected(c) ==
    /\ phase[c] = "execute" /\ work[c].decision # "approved"
    /\ Finish(c, "rejected")
    /\ UNCHANGED <<req, checkpoint, pending, events, effects>>

\* Variant: execute_node does not look at the decision.
AuditExecutionUngated(c) ==
    /\ phase[c] = "execute"
    /\ Log(c, "executed")
    /\ Goto(c, "acting")
    /\ UNCHANGED <<req, work, unsaved, reply, checkpoint, pending, status, effects>>

\* Variant: the write method does not call the guard.
AuditExecutionSkipped(c) ==
    /\ phase[c] = "execute" /\ work[c].decision = "approved"
    /\ Goto(c, "acting")
    /\ UNCHANGED <<req, work, unsaved, reply, checkpoint, storeVars, effects>>

\* require_dry_run_guard(dry_run=False) logs before the write is made.
AuditExecution(c) ==
    /\ phase[c] = "execute" /\ work[c].decision = "approved"
    /\ Log(c, "executed")
    /\ Goto(c, "acting")
    /\ UNCHANGED <<req, work, unsaved, reply, checkpoint, pending, status, effects>>

EffectOf(c) == [call |-> c, action |-> work[c].action, proposal |-> work[c].proposal]

CallTool(c) ==
    /\ phase[c] = "acting"
    /\ effects' = effects \cup {EffectOf(c)}
    /\ Goto(c, "acted")
    /\ UNCHANGED <<req, work, unsaved, reply, checkpoint, storeVars>>

\* Variant: the graph's final state is not checkpointed.
FinishExecutedUnsaved(c) ==
    /\ phase[c] = "acted"
    /\ status' = [status EXCEPT ![req[c].thread] = "executed"]
    /\ Exit(c, "executed")
    /\ UNCHANGED <<req, work, unsaved, checkpoint, pending, events, effects>>

FinishExecuted(c) ==
    /\ phase[c] = "acted"
    /\ Finish(c, "executed")
    /\ UNCHANGED <<req, checkpoint, pending, events, effects>>

\* The write method declined and returned executed = False (ToolRefuses).
FinishRefused(c) ==
    /\ phase[c] = "refused"
    /\ Finish(c, "refused")
    /\ UNCHANGED <<req, checkpoint, pending, events, effects>>

RecordFailure(c) ==
    /\ phase[c] = "failing"
    /\ Log(c, "failed")
    /\ Exit(c, "error")
    /\ UNCHANGED <<req, work, unsaved, checkpoint, pending, status, effects>>

-----------------------------------------------------------------------------
(***************************************************************************)
(* Faults                                                                  *)
(***************************************************************************)

\* Variant: the tool swallows the exception of its external call.
ToolSwallowsException(c) ==
    /\ "tool" \in Faults
    /\ phase[c] = "acting"
    /\ Goto(c, "acted")
    /\ UNCHANGED <<req, work, unsaved, reply, checkpoint, storeVars, effects>>

\* The external call raises: it was refused, or it took place and the
\* answer was lost (a timeout).
ToolRaises(c) ==
    /\ "tool" \in Faults
    /\ phase[c] = "acting"
    /\ \/ effects' = effects
       \/ effects' = effects \cup {EffectOf(c)}
    /\ Goto(c, "failing")
    /\ UNCHANGED <<req, work, unsaved, reply, checkpoint, storeVars>>

\* A statement raises outside execute_node's try block (or in
\* record_failure): the exception leaves invoke() and the route answers 502.
StoreRaises(c) ==
    /\ "store" \in Faults
    /\ \/ phase[c] \in {"received", "propose", "logProposed", "acted", "refused", "failing"}
       \/ phase[c] = "execute" /\ work[c].decision # "approved"
    /\ Exit(c, "error")
    /\ UNCHANGED <<req, work, unsaved, checkpoint, storeVars, effects>>

\* approval_node raises after interrupt() returned: LangGraph keeps the
\* resume value with the failed task, if it can still be written.
StoreRaisesInApproval(c) ==
    LET t == req[c].thread IN
    /\ "store" \in Faults
    /\ phase[c] \in {"resolve", "logDecision"}
    /\ \/ /\ checkpoint[t].next = "approval" /\ checkpoint[t].action = work[c].action
          /\ checkpoint' = [checkpoint EXCEPT ![t].kept = work[c].decision]
       \/ UNCHANGED checkpoint
    /\ Exit(c, "error")
    /\ UNCHANGED <<req, work, unsaved, storeVars, effects>>

\* The guard's log_event raises inside the try block.
StoreRaisesInGuard(c) ==
    /\ "store" \in Faults
    /\ phase[c] = "execute" /\ work[c].decision = "approved"
    /\ Goto(c, "failing")
    /\ UNCHANGED <<req, work, unsaved, reply, checkpoint, storeVars, effects>>

\* send_email declines a placeholder recipient, approved or not: it logs
\* action_failed instead of calling the guard, and returns.
ToolRefuses(c) ==
    /\ "refusal" \in Faults
    /\ phase[c] = "execute" /\ work[c].decision = "approved"
    /\ Log(c, "failed")
    /\ Goto(c, "refused")
    /\ UNCHANGED <<req, work, unsaved, reply, checkpoint, pending, status, effects>>

\* The connector was there when the write was proposed and is not any more
\* (another configuration since): tools[...] raises outside the try block.
ToolNotConfigured(c) ==
    /\ "tool" \in Faults
    /\ phase[c] = "execute" /\ work[c].decision = "approved"
    /\ Exit(c, "error")
    /\ UNCHANGED <<req, work, unsaved, checkpoint, storeVars, effects>>

\* A checkpoint cannot be written.  The ones after it wait for it and fail with
\* it, the nodes run on, and invoke() raises the exception at its end: what was
\* done stays done, and the route answers 502.
CheckpointRaises(c) ==
    /\ "store" \in Faults
    /\ phase[c] = "exit" /\ unsaved[c]
    /\ unsaved' = [unsaved EXCEPT ![c] = FALSE]
    /\ Exit(c, "error")
    /\ UNCHANGED <<req, work, checkpoint, storeVars, effects>>

\* The process serving the call dies, with what its checkpoint writer had
\* not stored yet.
Crash(c) ==
    /\ "crash" \in Faults
    /\ InFlight(c)
    /\ Goto(c, "dead")
    /\ unsaved' = [unsaved EXCEPT ![c] = FALSE]
    /\ UNCHANGED <<req, work, reply, checkpoint, storeVars, effects>>

-----------------------------------------------------------------------------
Arrive(c) ==
    \E t \in Thread :
        \/ ReceivePropose(c, t)
        \/ \E vote \in Vote, about \in MaybeCall : ReceiveDecision(c, t, vote, about)

Invoke(c) ==
    \/ InvokeStart(c)
    \/ ResumeUnknown(c)
    \/ ResumePaused(c)
    \/ ResumeUnfinished(c)
    \/ ResumeFinished(c)

RunNode(c) ==
    \/ ProposeKeyError(c)
    \/ InsertRecord(c)
    \/ LogProposed(c)
    \/ Interrupt(c)
    \/ ResolveRecord(c)
    \/ ResolveNothing(c)
    \/ LogDecision(c)
    \/ FinishRejected(c)
    \/ AuditExecution(c)
    \/ CallTool(c)
    \/ FinishExecuted(c)
    \/ FinishRefused(c)
    \/ RecordFailure(c)

Fault(c) ==
    \/ ToolRaises(c)
    \/ StoreRaises(c)
    \/ StoreRaisesInApproval(c)
    \/ StoreRaisesInGuard(c)
    \/ ToolRefuses(c)
    \/ ToolNotConfigured(c)
    \/ CheckpointRaises(c)
    \/ Crash(c)

Progress(c) == Invoke(c) \/ RunNode(c) \/ SaveCheckpoint(c) \/ Respond(c)

Next == \E c \in Call : Arrive(c) \/ Progress(c) \/ Fault(c)

Spec == Init /\ [][Next]_vars

\* A worker thread that serves a call runs on; nobody has to send a request.
FairSpec == Spec /\ \A c \in Call : WF_vars(Progress(c))

-----------------------------------------------------------------------------
(***************************************************************************)
(* Properties                                                              *)
(***************************************************************************)

TypeOK ==
    /\ phase \in [Call -> Phase]
    /\ req \in [Call -> Request \cup {NoRequest}]
    /\ \A c \in Call : phase[c] # "idle" => req[c] \in Request
    /\ work \in [Call -> Checkpoint]
    /\ unsaved \in [Call -> BOOLEAN]
    /\ reply \in [Call -> {"none", "paused", "executed", "rejected", "refused", "error"}]
    /\ checkpoint \in [Thread -> Checkpoint]
    /\ pending \in [Call -> Record \cup {NoRecord}]
    /\ events \subseteq Event
    /\ status \in [Thread -> {"none", "executed", "rejected", "refused"}]
    /\ effects \subseteq Effect

\* The approving request d reached the graph when the thread was past
\* propose_node with record a.
Approver(d, a) ==
    /\ req[d].kind = "decide" /\ req[d].vote = "approved"
    /\ req[d].thread = pending[a].thread
    /\ work[d].action = a /\ work[d].next # "propose"

\* Each effect in an external system comes from a decision request, never
\* from the propose request itself, and only after somebody's approval was
\* delivered to that very record and a decision on it was stored: the gate
\* of approval_node, under every interleaving and fault.
NoEffectWithoutApproval ==
    \A e \in effects :
        /\ req[e.call].kind = "decide"
        /\ pending[e.action].status \in Vote
        /\ \E d \in Call : Approver(d, e.action)

\* The payload execute_node hands to the tool is the one stored in the
\* record that was decided on, on the thread that record belongs to,
\* whatever was proposed on the thread meanwhile.
ExecutesWhatWasRecorded ==
    \A e \in effects :
        /\ pending[e.action] # NoRecord
        /\ pending[e.action].proposal = e.proposal
        /\ pending[e.action].thread = req[e.call].thread

\* No write takes place without its action_executed event already in the
\* audit log, however the call ends (require_dry_run_guard comes first).
EffectIsAudited ==
    \A e \in effects :
        [type |-> "executed", call |-> e.call, action |-> e.action] \in events

\* resolve_pending_action never changes a record that was decided before:
\* the first decision stays, whoever decides again.
DecisionIsFinal ==
    [][\A a \in Call : pending[a].status \in Vote => pending'[a] = pending[a]]_pending

\* The audit log holds at most one decision per record, from one call, and
\* it is the decision the record shows.
OneDecisionEvent ==
    \A e \in events : e.type \in Vote =>
        /\ pending[e.action].status = e.type
        /\ \A f \in events : f.type \in Vote /\ f.action = e.action => f = e

\* "executed" is never claimed of a write that did not take place: not in
\* a reply, not in a process's stored status, not in a checkpoint.
ReportedWritesHappened ==
    /\ \A c \in Call : reply[c] = "executed" =>
           \E e \in effects : e.proposal = work[c].proposal
    /\ \A t \in Thread : checkpoint[t].next = "end" /\ checkpoint[t].result = "executed" =>
           \E e \in effects : e.proposal = checkpoint[t].proposal
    /\ \A t \in Thread : status[t] = "executed" =>
           \E e \in effects : req[e.call].thread = t

-----------------------------------------------------------------------------
(***************************************************************************)
(* What holds when clients take turns on a thread, give each write its own *)
(* process id, and nothing fails                                           *)
(***************************************************************************)

\* The gate as the abstract specification sees it: the stored decision of
\* each record, and the calls that made its write.
Gate == INSTANCE ApprovalGate WITH
    Action <- Call,
    Executor <- Call,
    stage <- [a \in Call |-> pending[a].status],
    executedBy <- [a \in Call |-> {e.call : e \in {f \in effects : f.action = a}}]

\* Each action is decided at most once and executed at most once, after its
\* record was approved: the system implements ApprovalGate.
GateSpec == Gate!Spec

\* A record listed as pending can be decided: when no call is at work on its
\* thread, the thread is paused at approval for that record and no other.
PendingIsDecidable ==
    \A a \in Call : pending[a].status = "pending" =>
        \/ \E c \in Call : InFlight(c) /\ req[c].thread = pending[a].thread
        \/ /\ checkpoint[pending[a].thread].next = "approval"
           /\ checkpoint[pending[a].thread].action = a

\* {"executed": false} tells a caller (that rejects, or whose write the tool
\* refused) that nothing was sent, created or written for the action, and it
\* was not, before or since.
RejectionSendsNothing ==
    \A c \in Call : reply[c] \in {"rejected", "refused"} =>
        ~ \E e \in effects : e.action = work[c].action

\* An approved action is executed in the end, or refused by the tool (the
\* worker thread that stored the approval goes on to the tool call).
ApprovedIsExecuted ==
    \A a \in Call :
        pending[a].status = "approved" ~>
            \/ \E e \in effects : e.action = a
            \/ \E c \in Call : reply[c] = "refused" /\ work[c].action = a

-----------------------------------------------------------------------------
(***************************************************************************)
(* What the documentation says and the code does not keep                  *)
(***************************************************************************)

\* The write that is executed is the one the approver was shown: a decision
\* names a process_id, and process_ids may be shared by several writes.
ExecutesWhatWasReviewed ==
    \A e \in effects : req[e.call].about = e.action

\* A decision request with approved=false sends nothing.
RejectVoteSendsNothing ==
    \A e \in effects : req[e.call].vote # "rejected"

\* A proposal is recorded as a pending action once.
OneRecordPerProposal ==
    \A a, b \in Call :
        pending[a] # NoRecord /\ pending[b] # NoRecord /\ a # b =>
            pending[a].proposal # pending[b].proposal
=============================================================================
