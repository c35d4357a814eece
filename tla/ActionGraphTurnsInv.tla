------------------------- MODULE ActionGraphTurnsInv -------------------------
(***************************************************************************)
(* The inductive invariant behind what the gate promises when its clients  *)
(* take turns on a process id and nothing fails but the tools: where a     *)
(* thread stands is what its records say, whether that is in a checkpoint  *)
(* or still in the call at work.                                           *)
(***************************************************************************)
EXTENDS ActionGraphInv

TakingTurns == Serial /\ Faults \subseteq {"refusal", "tool"}

\* No tool call raises: what was not reported as executed was not executed.
ToolsHold == "tool" \notin Faults

Outcome == {"executed", "rejected", "refused"}

Untouched(a) == ~ \E e \in effects : e.action = a

\* Nobody has been told what became of a.
Unanswered(a) == \A c \in Call : reply[c] \in Outcome => work[c].action # a

Decided(a, t) == a \in RecordsOf(t) /\ pending[a].status \in Vote

\* A thread nobody works on: nothing proposed, paused for a record that is
\* pending, left at execute by a tool that raised, or done.
Settled(k, t) ==
    /\ k.next \in {"none", "propose"} => k.proposal = NoCall /\ RecordsOf(t) = {}
    /\ k.next = "approval" => pending[k.action].status = "pending"
    /\ k.next = "execute" => ~ToolsHold /\ pending[k.action].status = k.decision
    /\ k.next = "end" =>
           /\ k.result \in Outcome
           /\ Decided(k.action, t)
           /\ ToolsHold /\ k.result # "executed" => Untouched(k.action)

-----------------------------------------------------------------------------
\* No call dies, and none fails but at its tool.
NoOtherFailures ==
    \A c \in Call : phase[c] # "dead" /\ (phase[c] = "failing" => ~ToolsHold)

OneAtATime ==
    \A c, d \in Call : InFlight(c) /\ InFlight(d) /\ req[c].thread = req[d].thread => c = d

\* A process id that is used for one write has one proposal.
OneProposal ==
    ~ReuseThreads =>
        \A c, d \in Call :
            req[c].kind = "propose" /\ req[d].kind = "propose" /\ req[c].thread = req[d].thread
                => c = d

\* A record is the one its proposal's call made.
OwnRecords ==
    \A a \in Call : pending[a] # NoRecord => req[a].kind = "propose" /\ req[a].thread = pending[a].thread

\* What the call at work on a thread knows at each node.
AtWork(c) ==
    /\ phase[c] = "received" => Settled(checkpoint[req[c].thread], req[c].thread)
    /\ phase[c] = "propose" =>
           \/ req[c].kind = "propose" /\ work[c].proposal # NoCall
           \/ work[c].proposal = NoCall /\ RecordsOf(req[c].thread) = {}
    /\ phase[c] = "logProposed" => pending[c].status = "pending" /\ req[c].kind = "propose"
    /\ phase[c] \in {"approval", "exit"} => Settled(work[c], req[c].thread)
    /\ phase[c] = "resolve" => pending[work[c].action].status = "pending"
    /\ phase[c] \in {"execute", "acting", "failing"} =>
           pending[work[c].action].status = work[c].decision
    /\ phase[c] \in {"logDecision", "execute", "acting", "refused"} /\ ToolsHold =>
           Untouched(work[c].action) /\ Unanswered(work[c].action)

\* Before a call pauses or answers, its state is saved or is going to be.
Synced(c) ==
    /\ phase[c] \in {"idle", "received"} => ~unsaved[c]
    /\ phase[c] \in {"propose", "approval", "execute", "acting", "failing", "exit"} =>
           unsaved[c] \/ checkpoint[req[c].thread] = work[c]

\* An outcome is of a decided record; who was told "not executed" was told
\* the truth, for good.
Answers(c) ==
    /\ reply[c] # "none" => phase[c] \in {"exit", "done"}
    /\ reply[c] \in Outcome => Decided(work[c].action, req[c].thread)
    /\ reply[c] \in {"rejected", "refused"} /\ ToolsHold => Untouched(work[c].action)

AtRest ==
    \A t \in Thread :
        (\A c \in Call : InFlight(c) => req[c].thread # t) => Settled(checkpoint[t], t)

TurnsInv ==
    /\ NoOtherFailures
    /\ OneAtATime
    /\ OneProposal
    /\ OwnRecords
    /\ AtRest
    /\ \A c \in Call : AtWork(c) /\ Synced(c) /\ Answers(c)
=============================================================================
