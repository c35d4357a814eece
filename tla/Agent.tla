------------------------------- MODULE Agent --------------------------------
(***************************************************************************)
(* The gate as an agent uses it through the MCP server.  An MCP tool is    *)
(* one HTTP request of ConnectorClient, which gives up after 30 seconds    *)
(* and raises on every status from 400 on; nothing is retried there, so it *)
(* is the agent that repeats a call.                                       *)
(*                                                                         *)
(* This agent is a careful one: it lets the server make up the process id  *)
(* of each proposal, decides only on action_ids it was given, asks again   *)
(* only if it has had no answer or an error, and always gives an action    *)
(* the same vote.  The server, and what can fail there, is ActionGraph;    *)
(* requests the agent gave up on go on there.                              *)
(***************************************************************************)
EXTENDS ActionGraph, FiniteSets

VARIABLES
    gaveUp,         \* the calls whose client timed out before an answer
    placeholder     \* the proposals to a recipient that send_email declines

agentVars == <<vars, gaveUp, placeholder>>

Waiting(c) == InFlight(c) /\ c \notin gaveUp
Answered(c) == phase[c] = "done" /\ c \notin gaveUp

\* The client raised: ConnectorAPIError, a timeout or a lost connection.
Failed(c) == c \in gaveUp \/ phase[c] = "dead" \/ (phase[c] = "done" /\ reply[c] = "error")

Proposer(c, t) == req[c].kind = "propose" /\ req[c].thread = t
Decider(c, t) == req[c].kind = "decide" /\ req[c].thread = t

AgentInit == Init /\ gaveUp = {} /\ placeholder = {}

-----------------------------------------------------------------------------
\* Variant: every proposal of an agent is made under the same process id.
ProposeOnKnownThread(c, t) ==
    /\ ReceivePropose(c, t)
    /\ UNCHANGED <<gaveUp, placeholder>>

\* A write tool, without a process_id: the server makes up a new one.
Propose(c, t) ==
    /\ \A d \in Call : req[d] # NoRequest => req[d].thread # t
    /\ ReceivePropose(c, t)
    /\ \/ placeholder' = placeholder \cup {c}
       \/ UNCHANGED placeholder
    /\ UNCHANGED gaveUp

\* The action_id t was in the reply to the agent's proposal a.
Given(a, t) == Proposer(a, t) /\ Answered(a) /\ reply[a] = "paused"

\* decide_action, the first time or again.
Decide(c, t, vote) ==
    /\ \A d \in Call : Decider(d, t) => Failed(d) /\ req[d].vote = vote
    /\ \E a \in Call : Given(a, t) /\ ReceiveDecision(c, t, vote, work[a].action)
    /\ UNCHANGED <<gaveUp, placeholder>>

\* httpx raises after 30 seconds; the server does not notice.
GiveUp(c) ==
    /\ Waiting(c)
    /\ gaveUp' = gaveUp \cup {c}
    /\ UNCHANGED <<vars, placeholder>>

\* A call runs on; whether the tool declines depends on the payload.
Serve(c) ==
    /\ Progress(c) \/ Fault(c)
    /\ phase'[c] = "refused" => work[c].proposal \in placeholder
    /\ phase'[c] = "acting" => work[c].proposal \notin placeholder
    /\ UNCHANGED <<gaveUp, placeholder>>

AgentNext ==
    \E c \in Call :
        \/ \E t \in Thread : Propose(c, t) \/ \E vote \in Vote : Decide(c, t, vote)
        \/ GiveUp(c)
        \/ Serve(c)

AgentSpec == AgentInit /\ [][AgentNext]_agentVars

-----------------------------------------------------------------------------
(***************************************************************************)
(* Properties                                                              *)
(***************************************************************************)

EffectsOn(t) == {e \in effects : req[e.call].thread = t}

\* An action the agent rejects, however often it has to say so and whatever
\* fails, is never carried out, by no call on its thread.
VoteIsHonoured ==
    \A c \in Call :
        req[c].kind = "decide" /\ req[c].vote = "rejected" => EffectsOn(req[c].thread) = {}

\* What is executed under an action_id is the write that was proposed when
\* the id was given out, and the record the agent was shown.
ExecutesWhatWasProposed ==
    \A e \in effects : \A c \in Call :
        Proposer(c, req[e.call].thread) =>
            /\ e.proposal = c
            /\ e.action = req[e.call].about

\* An answer fits the vote and is what became of the action: "executed" was
\* executed, and "rejected" or "refused" is not, nor will be.
AnswerIsTheOutcome ==
    \A c \in Call : Answered(c) /\ req[c].kind = "decide" =>
        CASE reply[c] = "executed" -> req[c].vote = "approved" /\ EffectsOn(req[c].thread) # {}
          [] reply[c] = "refused" -> req[c].vote = "approved" /\ EffectsOn(req[c].thread) = {}
          [] reply[c] = "rejected" -> req[c].vote = "rejected" /\ EffectsOn(req[c].thread) = {}
          [] OTHER -> reply[c] = "error"

\* The thread of an action whose decision was not carried out stays where
\* asking again carries it out, whatever failed: at approval or at execute,
\* with the proposal and the decision on record.
AskingAgainHelps ==
    \A t \in Thread, a \in Call :
        /\ Given(a, t)
        /\ \A c \in Call : Decider(c, t) => ~InFlight(c) /\ Failed(c)
        => \/ checkpoint[t].next = "end"
           \/ /\ checkpoint[t].next \in {"approval", "execute"}
              /\ checkpoint[t].proposal = a
              /\ checkpoint[t].action = work[a].action
              /\ pending[work[a].action].status \in Vote =>
                     \E c \in Call : Decider(c, t) /\ req[c].vote = pending[work[a].action].status

\* A tool call as execute_node makes it.
CallStage(c) ==
    IF phase[c] \in {"acting", "acted", "refused", "failing"} THEN phase[c]
    ELSE IF phase[c] \in {"exit", "done", "dead"} THEN "over" ELSE "execute"

Tool == INSTANCE ToolWrite WITH
    stage <- [c \in Call |-> CallStage(c)],
    made <- [c \in Call |-> Cardinality({e \in effects : e.call = c})]

\* execute_node calls the tool as ToolWrite says, and relies on nothing else
\* of it: what the connectors do between is their own affair.
ToolWriteSpec == Tool!Spec
=============================================================================
