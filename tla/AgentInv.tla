------------------------------ MODULE AgentInv ------------------------------
(***************************************************************************)
(* The inductive invariant behind what an agent may rely on: every state   *)
(* of one of its threads, in a checkpoint or in a call at work, is that of *)
(* the thread's one proposal, and carries no decision but the agent's.     *)
(***************************************************************************)
EXTENDS Agent, ActionGraphInv

\* The agent has one opinion about an action, however often it says it.
OneOpinion ==
    \A c, d \in Call :
        req[c].kind = "decide" /\ req[d].kind = "decide" /\ req[c].thread = req[d].thread
            => req[c].vote = req[d].vote

\* A thread has one proposal.
OneProposer ==
    \A c, d \in Call : \A t \in Thread : Proposer(c, t) /\ Proposer(d, t) => c = d

\* A decision is about the proposal whose reply the agent was given.
DecidersWereGiven ==
    \A c \in Call : req[c].kind = "decide" =>
        req[c].about \in Call /\ Given(req[c].about, req[c].thread)

Said(v, t) == \E c \in Call : Decider(c, t) /\ req[c].vote = v

\* A state k that thread t may be in: of t's proposal and its own record,
\* with the agent's decision or none, and a result that agrees with it.
Fits(k, t) ==
    /\ k.next = "none" => k = NoCheckpoint
    /\ k.next # "none" =>
           k.proposal \in Call /\ Proposer(k.proposal, t) /\ phase[k.proposal] # "received"
    /\ k.next \in {"approval", "execute", "end"} => k.action = k.proposal
    /\ k.decision # "none" => Said(k.decision, t)
    /\ k.kept # "none" => Said(k.kept, t)
    /\ k.next = "execute" => k.decision \in Vote
    /\ k.next = "end" => k.result # "none"
    /\ k.next = "end" /\ k.result = "rejected" => Said("rejected", t)
    /\ k.next = "end" /\ k.result = "refused" => Said("approved", t) /\ k.proposal \in placeholder

\* The call of a proposal gets no further than the pause, and answers
\* "paused" only when that is saved.
Pauses(c) ==
    /\ work[c].next \in {"none", "propose", "approval"}
    /\ phase[c] = "approval" \/ (phase[c] = "exit" /\ reply[c] = "paused") =>
           unsaved[c] \/ checkpoint[req[c].thread].next = "approval"
    /\ reply[c] = "paused" => work[c].next = "approval"

\* A decision never proposes: it goes on from the pause, and answers with
\* the result of the thread, or an error.
Resumes(c) ==
    /\ phase[c] \notin {"propose", "logProposed", "approval"}
    /\ work[c].next \in {"none", "approval", "execute", "end"}
    /\ phase[c] \in {"exit", "done"} =>
           reply[c] = "error" \/ (work[c].next = "end" /\ reply[c] = work[c].result)

\* The tool declines the proposals of placeholder and no others.
ToolDeclines(c) ==
    /\ phase[c] \in {"acting", "acted"} => work[c].proposal \notin placeholder
    /\ phase[c] = "refused" => work[c].proposal \in placeholder /\ work[c].decision = "approved"

CallFits(c) ==
    /\ phase[c] # "idle" => Fits(work[c], req[c].thread)
    /\ work[c].next = "none" => ~unsaved[c]
    /\ req[c].kind = "propose" => Pauses(c)
    /\ req[c].kind = "decide" => Resumes(c)
    /\ ToolDeclines(c)

\* Once the proposal was answered its thread is past propose_node for good.
GivenStands ==
    \A a \in Call : \A t \in Thread :
        Given(a, t) => checkpoint[t].next \in {"approval", "execute", "end"}

\* A stored decision is one the agent gave.
StoredVotes ==
    \A a \in Call : pending[a].status \in Vote => Said(pending[a].status, pending[a].thread)

\* What was written is what the call's decision was about.
OwnEffects ==
    \A e \in effects :
        /\ e.action = req[e.call].about
        /\ e.proposal = req[e.call].about
        /\ e.proposal \notin placeholder

AgentInv ==
    /\ OneOpinion
    /\ OneProposer
    /\ DecidersWereGiven
    /\ \A t \in Thread : Fits(checkpoint[t], t)
    /\ \A c \in Call : CallFits(c)
    /\ GivenStands
    /\ StoredVotes
    /\ OwnEffects
=============================================================================
