# A verification project for APM Connectors & Enterprise Systems

TLA+ models of the server under `src/src/apm_connectors`, TLC runs that check
them on small instances, and TLAPS proofs, for instances of any size, of every
safety property and refinement the passing runs check. Paths below are relative
to the repository root.

## 1. The system

The program is an HTTP API (FastAPI, synchronous handlers on a thread pool)
that lets an agent read from, and with human approval write to, Gmail, Google
Calendar, an Excel workbook, Google Drive, Salesforce and Jira.

| Component | State it keeps | Operations | Talks to |
|---|---|---|---|
| Write gate: `graph.py` | per process id, a LangGraph thread: next node, `GraphState` channels | `start_action`, `resume_process`; nodes `propose`, `approval`, `execute` | state store, checkpointer, connectors |
| Write and decision routes: `api/tools_routes.py`, `api/_responses.py` | none | nine write routes, `POST /tools/actions/{id}/decision` | write gate |
| Read routes: `api/tools_routes.py` | none | twelve routes | connectors, and the store on failure |
| Audit routes: `api/app.py` | none | `/processes`, `/processes/pending`, status, history | state store |
| Postgres store: `state/postgres_store.py` | tables `apm_processes`, `apm_events`, `apm_pending_actions` | `set_status`, `log_event`, `add_pending_action`, `resolve_pending_action`, queries; every statement commits by itself | Postgres |
| File store: `state/store.py` | JSON files, one lock | the same operations | test double |
| Connector base: `tools/base.py` | none | `_log`, `require_dry_run_guard`, `record_failure` | state store |
| Connectors: `tools/*_tool.py` | a client; the external system's data | reads, and writes guarded by `dry_run` | external systems |
| Retry helper: `tools/_retry.py` | attempts of one request | `with_retry` | - |
| Start-up: `api/dependencies.py`, `config.py` | caches of settings, pool, tools, graph, keys | `get_*`, `load_settings` | factories |
| Credentials: `tools/google_auth.py`, `tools/salesforce_auth.py` | token file; one Salesforce token for the life of the process | `load_credentials`, `acquire_access_token` | Google, Salesforce |
| MCP server: `apm_connectors_mcp` | an HTTP client with a 30 s timeout | one MCP tool per route | the API |
| LangGraph, `PostgresSaver` | newest checkpoint per thread, kept resume values | `invoke`, `interrupt`, `Command(resume=...)` | Postgres |

What is hard, and what must hold:

* **Write gate.** A write is spread over two or more HTTP requests, several
  database statements, a background checkpoint writer and an external call.
  Nothing locks a thread; requests overlap, the process can die and a statement
  can fail between any two steps; a failed node is run again by the next
  request. It is correct if nothing is written without approval, what is written
  is what was recorded, each write is on the audit trail before it happens, a
  decision is stored and logged once, a rejection is honoured, and an approved
  action is carried out.
* **Connectors.** A request may be processed although its answer is lost. Reads
  are retried; writes must never be. Reads are logged after, writes before they
  happen, failures whenever they happen. The workbook is read, changed and
  replaced as a whole; a Drive file is checked in one request and replaced in
  another.
* **Store.** Threads of several processes run statements that commit one by one,
  on a pool of connections that run out, die idle or are cut; a method that logs
  needs a second connection. Two implementations have one contract, and the order
  of events comes from the processes' clocks.
* **The agent.** Its client gives up after 30 seconds while the server goes on;
  repeating a call is its own affair. A vote must be honoured however often it
  has to be given, and asking again must be able to help.
* **Credentials.** Google's are renewed by the request that needs it, Salesforce's
  are fetched once for the life of the process. A token file is emptied before it
  is written.
* **Start-up.** A connector without credentials must not stop the others.

`PROJECT.json` lists the components with their status, and under `hazards` each
place in the code where something could go wrong that a test would hardly reach,
with the properties that watch it, or the reason why none does.

## 2. The modules

```
ApprovalGate            what the gate promises (abstract)
   ^ GateSpec (refinement, run taking_turns)
ActionGraph             the gate: routes, graph, store, checkpointer
   ^ EXTENDS                                    ^ EXTENDS
   |                                          Agent     the gate used through
   |                                            |         the MCP server
   |                                            | ToolWriteSpec (run agent)
   |                                            v
   |                                          ToolWrite what a tool call is to
   |                                            ^         the gate (abstract)
   |                                            | ToolWriteSpec (run connectors)
   |                    Connectors  one connector call, its requests, retries, tokens
   |
   |                    StoreContract  what a state store promises (abstract)
   |                       ^ ContractSpec (refinement, run store)
   |                    StateStore  PostgresStateStore and the file StateStore
   |
   |                    Startup  which connectors a server is built with
   |
the invariants and the theorems (arrows: EXTENDS)

ActionGraphInv <- ActionGraphProofs <- ActionGraphSafety <- ActionGraphReports <- AgentProofs
                  type correctness     the gate             true reports
ActionGraphTurnsInv <- ActionGraphTurns     clients that take turns (on ActionGraphSafety)
AgentInv <- AgentProofs                     the agent (on ActionGraphReports)
ConnectorsInv <- ConnectorsProofs
StateStoreInv <- StateStoreProofs
StartupInv <- StartupProofs
```

Each of ActionGraph, Agent, Connectors, StateStore and Startup has an `MC` module
that gives TLC its instances. The groups meet at these points, and are not
composed in one state space:

* `ToolWrite` stands between the gate and the connectors: run `connectors` shows
  that every write method does no more than ToolWrite allows, run `agent` that
  ActionGraph's `AuditExecution`, `CallTool`, `ToolRaises` and `ToolRefuses` take
  a tool call to be just that. Both are proved, too.
* ActionGraph uses the store one statement at a time, each committed or not;
  StateStore is why it may: the statements' sessions, the faults around them and
  the second implementation are there, and `StoreContract` is what both promise.
* The connectors that Connectors takes from its `Configurations` are what Startup
  builds.

### ActionGraph

A **call** is one HTTP request. The variables are what the code has:

| Variable | In the code |
|---|---|
| `phase[c]` | where call `c` is: the statement its thread executes next |
| `req[c]` | the route, the process id and the vote |
| `work[c]` | the graph state its `invoke()` holds in memory |
| `unsaved[c]` | LangGraph's background writer still has a checkpoint of `c` |
| `checkpoint[t]` | the newest row of the checkpoint tables for process id `t` |
| `pending[a]` | `apm_pending_actions` |
| `events` | `apm_events` |
| `status[t]` | the `result` in `apm_processes` |
| `effects` | what happened in the external systems |

One action is one store statement, or the piece of a node between two of them.
`propose_node` is `InsertRecord` and `LogProposed` (two commits in
`add_pending_action`); `approval_node` is `Interrupt` on the way in and, resumed,
`ResolveRecord`/`LogDecision` or `ResolveNothing`; `execute_node` is
`FinishRejected`, or `AuditExecution`, `CallTool`, `FinishExecuted`, or one of
the failing and refusing paths. `graph.invoke` is `InvokeStart` for a write
route, and for a decision one of `ResumeUnknown`, `ResumePaused`,
`ResumeUnfinished` and `ResumeFinished`, by the thread's newest checkpoint.

LangGraph is modelled from how `graph.py` uses it, and marked external:

* a node's update is checkpointed by a background thread while the next node
  already runs (durability "async"), and `invoke()` waits for that writer before
  it returns: `NodeReturns`, `SaveCheckpoint`, `Respond`;
* a thread's checkpoint is the row with the highest id, and ids follow the order
  in which checkpoints are made (on several tasks, as far as their clocks agree).
  Of two invocations that overlap, one may be written after the other and be
  older: nobody reads it. Which of the overlapping ones are older is left open
  (`Overlapping`);
* a checkpoint that cannot be written does not stop the nodes: those after it
  wait for it and fail too, and `invoke()` raises at its end, when everything is
  done (`CheckpointRaises`);
* a new input on a paused thread drops the pause and starts over, keeping the
  channels that the input does not name;
* a resume value goes to the interrupted node; if that node fails afterwards it
  is kept with the failed task (`kept`) and used again; on a thread whose next
  node is not interrupted it is not consumed, and that node runs.

Abstractions:

* The id of a pending action (a fresh uuid) is the call that inserts it, and a
  proposal (tool, method, payload, description) is the call that made it.
* The branches of the nodes for a missing proposal are left out: the routes
  always give one, except on a thread never started (`ResumeUnknown`), where
  `propose_node` raises `KeyError`.
* A retried request, by an agent or by the MCP client after its timeout, is
  another call with the same content.
* A crash stops one call; others may be served by another process, as on ECS.
  Losing a process with all its calls is a sequence of such steps.
* A statement that fails did not commit. One that commits and whose answer is
  lost looks like the failure of what follows it.
* A write that an external system performs after the client's timeout has ended
  is counted when the call fails, not later.
* Events are a set; their order is StateStore's.
* Whether `send_email` refuses a recipient is a free choice (fault "refusal"); in
  module Agent it depends on the proposal.

### Agent

Agent EXTENDS ActionGraph: the server side is unchanged, and in front of it is
the one client the repository has. `Propose` is a write tool of the MCP server
called without a `process_id` (the server makes one up), `Decide` is
`decide_action`, `GiveUp` the client's 30 seconds: the call goes on in the
server, and the agent does not see its answer (`Answered`). An agent is a program
outside the repository, so what it does is an assumption: it decides only on
action ids it was given, asks again only after a time-out or an error, and always
says the same of one action. Its own calls may so overlap in the server, which is
what makes the properties hard; the violated runs of ActionGraph show what
happens to clients that are less careful (two opinions on one action, one process
id for two writes). `placeholder` is the set of proposals whose recipient
`send_email` declines: a payload is declined always or never.

### Connectors

A method is the sequence of its steps: requests (retried or not, by which
library) and local work that may raise. `Request`, `RequestRaises` and `Backoff`
are `with_retry` with its three attempts; `Advance` goes on to the next step.
Writes pass `Guard` first; reads end in `LogRead`; what raises ends in
`RecordFailure`, and if that raises too, in `StoreRaisesAgain`. What
`execute_node` does with the result of a write is in ActionGraph.

* An error is "lost" (a connection error or timeout: the request may have been
  processed) or "status" (an HTTP error status, from a gateway perhaps, so that
  it may have been processed too). googleapiclient's `HttpError` is not an
  `OSError`; every exception of requests is.
* Drive replaces a file at once. `Path.write_bytes` truncates and then writes.
* `GoogleApiDriveClient.update_content` raises before it makes a request (step
  "media"): no `update_file` gets any further.
* Which cells are written is abstracted to which calls' cells the workbook
  holds. The Drive tool's own writes do not touch the workbook, and nobody edits
  it outside the server. `overlapped` is a history variable: another `write_range`
  was at work at the same time.
* The Salesforce token of a server expires at any time (`Expire`), and its
  requests use no other. Google's client renews its token within the request that
  needs it, if the consent stands, so that its expiry shows nowhere; Jira's API
  token does not expire (`Admitted`). A refused request (`Unauthorized`) raises
  HTTPError or RefreshError. `Restart` stops the server with all its calls; the
  next one fetches its tokens anew.
* Retries made inside the client libraries, and the delays, are not modelled.
* `dry_run=True` is left out: no route and no node asks for it.

`Stage` maps a write to ToolWrite's stages: it is at "acting" from its audit
event until it returns or raises, whatever requests and retries come before the
one that writes.

### StateStore

A call is one call of a method of `StateStoreProtocol`, by a thread of a server.
It reads the clock (`Begin`), waits for a session (a pooled connection, or the
file's lock), runs its statement and gives the session back; `add_pending_action`
and `resolve_pending_action` do the same again for `log_event` (`Release`). `db`
holds the rows of one process id. `TakeConnection` to `Select` are
PostgresStateStore, where the statement reads and changes the tables at once;
`TakeLock` to `FileRead` are StateStore, where a thread reads the file
(`call[c].read`), changes its copy and replaces the file. An outage cuts every
connection, an idle one may die alone, a server may crash.

* The uuid of an action is the call that added it. Actions are decided only by
  calls that were given the id, which is what graph.py does.
* The file store does not look at the status of the action it resolves. With
  callers that decide an action twice it does not keep the contract, and Postgres
  does; `redecided` says which callers there are; run `store` and the
  proofs assume that it is FALSE for the file (`FileActionsDecidedOnce`). (It is a test double
  today: no server is built with it.)
* A server's clock is ahead of another's by a constant (`ahead`), and no two time
  stamps of one clock are the same. `datetime.now` may in truth repeat a time or be
  set back, and then `ORDER BY created_at` orders nothing: a clock that only goes
  on is what HistoryInOrder rests on, as on clocks that agree.
* A call waits for a connection at most 30 seconds. It may time out whenever none
  is free, because all are in use or none can be made: `PoolTimeout`, which ends
  the call "timedOut", perhaps behind its first statement.
* The checkpointer shares the pool; its statements are not modelled. They take
  one connection at a time too.
* `limit` of `list_events`, which no route passes, is left out. So is the file
  store's order of pending actions and processes.

### Startup

The server walks through `get_action_graph` and `get_tools`, factory by factory
(`phase`), and is then up, or failed if an exception left `get_tools`. A token is
the scopes its access token was issued for, the scopes the owner consented to,
whether it is still fresh, whether it has a refresh token, and, of a token file,
whether it was torn; `LoadCredentials` is the set of outcomes `load_credentials`
may have, `Saved` its write to the token file. What cannot be parsed, or has no
refresh token, raises ValueError, fresh or not (`Unreadable`). Around the server,
tokens expire, consents are revoked, token files deleted, the demo scripts run and
the server is stopped and started again at any time, in the middle of a start too;
when that hits a write of a token file (`StopWhileSaving`, and the scripts
likewise), the file is left empty.

* A setting is set or unset (malformed for `GOOGLE_TOKEN_JSON` and
  `APM_API_KEYS`, which are parsed), and stays what it is over restarts.
* Google refreshes a token for scopes that were consented to, and refuses others
  (`RefreshError`); consent is for all scopes asked for or declined.
* A workbook named by its file name loads the credentials twice: for the search
  (`ResolveWorkbook`), which is a request that Google refuses without the drive
  scope, that the network may lose, and that finds no file or several (fault
  "name"); and again for the tool (`BuildNamedExcel`).
* Tokens held by running connectors are in Connectors.
* `cameUp` and `trouble` are history variables: the server was up before; the
  network, the owner or the operator did something that explains a failure.

## 3. The runs

| Run | Checks | Instance |
|---|---|---|
| `gate` | `TypeOK`, `IInv`, `NoEffectWithoutApproval`, `ExecutesWhatWasRecorded`, `EffectIsAudited`, `OneDecisionEvent`, `ReportedWritesHappened`, `DecisionIsFinal` | 3 calls, 1 process id, all interleavings, all faults; about 1.5 million states |
| `taking_turns` | `GateSpec`, `PendingIsDecidable`, `RejectionSendsNothing`, `ApprovedIsExecuted` | 3 calls, 2 process ids, one call in flight per process id, each id for one write, no fault but a tool's refusal; about 25 000 states |
| `connectors` | `TypeOK`, `WritesOnce`, `SuccessIsReal`, `FailureIsRecorded`, `AuditedBeforeWriting`, `FolderRespected`, `WorkbookKeepsWrites`, `ToolWriteSpec`, `EveryCallIsAnswered` | 2 calls of any of the 21 methods, six servers (Gmail and Calendar; a workbook on Drive; one on disk; Drive; Salesforce; Jira), all faults, 1 message found; about 300 000 states |
| `store` | `TypeOK`, `HistoryInOrder`, `NothingReturnedIsLost`, `DeciderIsOnRecord`, `RaisesOnlyInOutage`, `ContractSpec`, `EveryMethodEnds` | 3 calls, two fields, seven deployments: two servers on Postgres whose clocks agree or not; one with 2 connections and crashes, with 1 and an outage, with 1 that dies idle; the file store deciding or setting; about 1.1 million states |
| `agent` | `VoteIsHonoured`, `ExecutesWhatWasProposed`, `AnswerIsTheOutcome`, `AskingAgainHelps`, `ToolWriteSpec` | 4 calls: a proposal and up to three decisions of it, all faults; about 1.3 million states |
| `startup` | `TypeOK`, `ConnectorsMatchSettings`, `StartsWithoutGoogle`, `CredentialsCoverScopes`, `RestartsComeUp` | every combination of settings (1440), two environment tokens, token files present or not, all faults, restarts; about 920 000 states |
| `shared_process_id` | violates `ExecutesWhatWasReviewed` | 3 calls, 1 process id for two writes, no fault, no overlap |
| `reject_after_failure` | violates `RejectVoteSendsNothing` | 3 calls, tool failures only, no overlap |
| `overlapping_decisions` | violates `RejectionSendsNothing` | 3 calls, two of them decisions that overlap, no fault |
| `propose_fails` | violates `OneRecordPerProposal` | 3 calls, store failures only, no overlap |
| `http_errors_retried` | violates `StatusIsNotRetried` | 1 Salesforce call, an expired token, no fault |
| `redeploy` | violates `TokenIsSetUpOnce` | one headless deployment, no fault |

**What the passing runs show.** Under every interleaving and fault of the
instance nothing leaves the gate without an approval that was delivered to the
very record it executes, what is executed is what that record holds, the audit
trail is never behind the external systems, and a decision is stored once and
logged at most once. With clients that take turns and nothing failing, the gate
implements `ApprovalGate`: an action is executed at most once, by one call,
after it was approved. The connectors never repeat a write of their own accord:
to the gate each write is one `ToolWrite`. Both stores implement one contract, without a deadlock on
connections. An agent that keeps to one opinion is honoured under every fault,
although its own repeated calls overlap, and asking again is never pointless; what
it may not count on is that a write is made only once, when the answer to it was
lost. A server without a Google account starts; one that came up comes up again after any
restart, however old its tokens, unless something outside it went wrong,
`GOOGLE_TOKEN_JSON` has to serve for Drive, or a crash tore a token file, which
nothing repairs.

**What the violated runs show.** Six statements of the documentation do not hold
of the code (`findings` in PROJECT.json quotes each of them):

1. A process id is not only a grouping label: given to two writes, an approval
   meant for the first executes the second, and the first stays listed.
2. After an approved write failed, a decision with `approved=false` runs it
   again: the thread is at `execute`, and the new vote is not read.
3. Of two overlapping decisions the one that lost the `UPDATE` goes on
   regardless: a caller is told "rejected" while the write is made, or it is
   made twice.
4. A store failure inside `add_pending_action` has `propose_node` run again.
5. HTTP error statuses from Salesforce and Jira are retried, since
   `requests.HTTPError` is an `OSError`: even the 401 for a Salesforce token that
   expired, and will not be fetched again.
6. `GOOGLE_TOKEN_JSON`, consented to for Gmail and Calendar, is used for Drive
   too: accepted while fresh, it stops the whole server at the first restart
   after it has expired.

More disagreements are in the models without a run of their own, because a step
or a state shows each:

* The first of two writes on one process id (1) is listed by
  `GET /processes/pending` for good: `PendingIsDecidable` is for process ids that
  are used once.
* `docs/capability-map.md:16` has a fresh Salesforce token "requested each time";
  the server fetches one (`salesforce_tool.py:244`), and after it has expired every
  Salesforce call fails until a restart (`Admitted`).
* `update_file` replaces nothing: `drive_tool.py:295` builds `MediaIoBaseUpload`
  without its required `mimetype`, a TypeError after the write was approved and
  logged as executed (`DriveUpdateContent`). The tests use a fake client.
* Connectors are not each "independently optional" (`dependencies.py:103-110`): a
  withdrawn Google consent (RefreshError), or a `GOOGLE_TOKEN_JSON` without
  refresh token (ValueError from `google_auth.py:63`, so that the RuntimeError at
  71-76 is never reached), stops the server with all connectors
  (`BuildGmailAndCalendar`).
* The file store takes a second decision, stores it over the first and logs both
  (`FileResolveAction`), which `docs/architecture.md:77` ("interchangeable") and the
  comments on both stores rule out.

Overlapping `write_range` calls undo each other, both answering success. The
documentation owns up to that (`docs/roadmap.md`, "no row-level concurrency
control"), so `WorkbookKeepsWrites` excludes it and there is no run for it. In the
same way `HistoryInOrder` does not compare servers whose clocks disagree,
`FolderRespected` says that a call saw the file in the folder and not that it is
still there when it is downloaded, and `FailureIsRecorded` says nothing of a failure
of the store itself.

The code of 6 is also why a Drive connector whose credentials are missing stops the
server, instead of leaving its routes to answer 503: `StartsWithoutGoogle` has to
exclude settings that need Drive (`NeedsDrive`).

**Bounds.** Three calls on one process id are enough for a proposal with two
decisions, two proposals with a decision, and every retry after a failure or a
crash of the call before; the invariants relate at most an effect, its record
and two calls. A second process id adds nothing to a safety property that is
about one record, and the proofs cover it; in `taking_turns` it is there so that
a step on one id can be confused with another. Calls do not interact through
anything but a record, a thread, the workbook or the Drive file, so two of them
show every pairwise race of the connectors; the six servers are the sets of
connectors whose calls share something. In `store` three calls are an action, its
decision and a third that is in the way of either, or more calls than there are
connections; bounded are the outages (one that calls meet) and nothing else. In
`agent` a decision can fail twice and be given a third time. In `startup` settings do not
interact but through the token files, so all their combinations are one server's
initial states. Symmetry over calls (and process ids) is used in runs without
liveness only. Deadlock is not checked: when no
request is outstanding the server idles, and nobody has to send another one.

**Fairness.** In ActionGraph `WF(Progress(c))` for each call: a worker thread that
serves a request goes on. In Connectors and StateStore `WF(\E c : Run(c))`: the
threads together go on as long as one of them can, which asks less and is enough
where calls are finitely many. Statements and requests return or raise (the
requests calls have a 30 s timeout, googleapiclient's transport 60 s, the pool
30 s). No fairness is assumed of clients, faults, crashes or other users of the
external systems. `Run` includes the outcomes "raises", so that liveness is not
bought by assuming that requests succeed.

**Inductive invariants.** `IInv` of the gate is an invariant of run `gate`. The
others were checked with TLC on the instances of the runs as they were written,
and are not among the runs' properties, since the theorems establish them: `IInv`
of Connectors, of StateStore and of Startup, `TurnsInv` (on run `taking_turns`) and
`AgentInv`.

**Mutants.** For each property of a passing run PROJECT.json names a variant of
a definition, with a bug one could plausibly make in that code, under which TLC
finds the property violated. The variants stand in front of the definitions they
vary, marked "Variant".

## 4. The proofs

`tlapm` proves the following for every set of calls, process ids, servers and
fields, every subset of faults and every interleaving, except where a hypothesis
is named.

| Module | Theorem | States |
|---|---|---|
| ActionGraphProofs | `TypeCorrect` | `Spec => []TypeOK` |
| ActionGraphSafety | `InvariantHolds` | `Spec => []IInv` |
| | `GateHolds` | `Spec => []NoEffectWithoutApproval` |
| | `PayloadIsTheRecorded` | `Spec => []ExecutesWhatWasRecorded` |
| | `AuditIsComplete` | `Spec => []EffectIsAudited` |
| | `DecisionIsLoggedOnce` | `Spec => []OneDecisionEvent` |
| | `DecisionStays` | `Spec => DecisionIsFinal` |
| ActionGraphReports | `ReportsAreTrue` | `Spec => []ReportedWritesHappened` |
| ActionGraphTurns, under `TakingTurns` and `~ReuseThreads` | `PendingIsAlive` | `Spec => []PendingIsDecidable` |
| under `TakingTurns` and `ToolsHold` | `RejectionIsTrue` | `Spec => []RejectionSendsNothing` |
| | `GateImplemented` | `Spec => GateSpec` |
| AgentProofs | `AgentUsesGate` | `AgentSpec => Spec` |
| | `AgentGateHolds` | `AgentSpec => []NoEffectWithoutApproval` |
| | `RejectionIsHonoured` | `AgentSpec => []VoteIsHonoured` |
| | `WriteIsTheProposed` | `AgentSpec => []ExecutesWhatWasProposed` |
| | `AnswersAreTrue` | `AgentSpec => []AnswerIsTheOutcome` |
| | `AskingAgainCanHelp` | `AgentSpec => []AskingAgainHelps` |
| | `ToolCallsAreToolWrites` | `AgentSpec => ToolWriteSpec` |
| ConnectorsProofs | `InvariantHolds`, `TypeCorrect` | `Spec => []IInv`, `Spec => []TypeOK` |
| | `NeverWrittenTwice` | `Spec => []WritesOnce` |
| | `SuccessHolds` | `Spec => []SuccessIsReal` |
| | `FailuresAreLogged` | `Spec => []FailureIsRecorded` |
| | `AuditComesFirst` | `Spec => []AuditedBeforeWriting` |
| | `FolderHolds` | `Spec => []FolderRespected` |
| | `WorkbookHolds` | `Spec => []WorkbookKeepsWrites` |
| | `WritesAreToolWrites` | `Spec => ToolWriteSpec` |
| StateStoreProofs | `InvariantHolds`, `TypeCorrect` | `Spec => []IInv`, `Spec => []TypeOK` |
| | `HistoryHolds` | `Spec => []HistoryInOrder` |
| | `ReturnsHold` | `Spec => []NothingReturnedIsLost` |
| | `DeciderHolds` | `Spec => []DeciderIsOnRecord` |
| | `RaisesHold` | `Spec => []RaisesOnlyInOutage` |
| | `ContractHolds` | `Spec => ContractSpec` |
| StartupProofs | `InvariantHolds`, `TypeCorrect` | `Spec => []IInv`, `Spec => []TypeOK` |
| | `ConnectorsHold` | `Spec => []ConnectorsMatchSettings` |
| | `StartsHold` | `Spec => []StartsWithoutGoogle` |
| under `Scripts \subseteq {"excel"}` | `CredentialsHold` | `Spec => []CredentialsCoverScopes` |
| | `RestartsHold` | `Spec => []RestartsComeUp` |

### Assumptions

* ActionGraph: `NoCallAssumption`, `NoCall` is not a call; `EnvironmentAssumption`,
  the switches are of their types.
* Connectors: `ConnectorsAssumption`, the faults are the known ones, a
  configuration is a set of tools and the source of the workbook, and searches
  find numbered messages.
* StateStore: `StateStoreAssumption`, a deployment has at least one connection,
  and the file store one server and one lock; `FileActionsDecidedOnce`, the file
  store's callers decide an action once (section 2).
* Startup: `StartupAssumption`, the settings, scripts and faults are the known
  ones, and a token in `GOOGLE_TOKEN_JSON` can be parsed and comes from the
  documented consent, to Gmail and Calendar at least.
* `TakingTurns == Serial /\ Faults \subseteq {"refusal", "tool"}` is a hypothesis of
  the theorems of ActionGraphTurns: calls on one process id do not overlap, and
  nothing fails but the tools. `PendingIsAlive` asks in addition that a process id
  is used for one write (`~ReuseThreads`); the other two that no tool call raises
  (`ToolsHold`), one that took place all the same. Run `taking_turns` is an instance
  of all of it. Less is not enough: TLC finds each of the three properties violated
  with overlapping calls, store failures or crashes, `PendingIsDecidable` with a
  shared process id (the second write's pause replaces the first's), the other two
  with a tool that raises after it has written. Runs `overlapping_decisions`,
  `reject_after_failure` and `shared_process_id` show what such clients and faults
  lead to.
* `Scripts \subseteq {"excel"}`: no demo script for Gmail or Calendar writes the
  token file of a server on the same machine. Those scripts ask for the scopes of
  their own connector only, and `load_credentials` takes whatever token is valid.

### The gate

None of the properties is inductive: that an effect was approved follows from
what its call held before the tool call, which it may have loaded from a
checkpoint that another call wrote. `IInv` (module ActionGraphInv) says it at
each place: `Sound` for the state in memory and for
the checkpoints (at `approval` and `execute` the state names a record of its own
thread with its own proposal; at `execute` that record is decided; an approval
carried, or kept for a retry, was delivered by somebody), `MidNode` for a call
between two statements, `OneDecider` for the `UPDATE ... AND status = 'pending'`
that lets one call through, and `FreshCalls`, `NodeOfPhase` and `NamedRecords`
for what these rest on.

The proof goes step by step through the actions. What a step cannot spoil for
the others is shown first: records keep their contents and decisions
(`RecordsMonotone`), an approver stays one (`ApproverMonotone`), so sound states
stay sound (`SoundStays`) and other calls keep what they know
(`OthersKeepCallInv`). What the moving call knows afterwards is shown per group
of actions, then the four conjuncts that relate several calls (`OneDecider`,
`OneDecisionEvent`, the checkpoints and the effects), and `StepKeepsIInv`
combines them.

*Reports* (`ReportsInv`). A claim "executed" travels: it begins in a call behind
its tool call, goes into the memory of the invocation, from there into a
checkpoint or a status row, out of a checkpoint into the memory of a later call,
and into an answer. Each place has its conjunct, and each step moves a claim from
one to the next; answers come last, when what they rest on no longer changes.

*Taking turns* (`TurnsInv`). A thread nobody works on is `Settled`: nothing was
proposed, or it is paused for a record that is pending, or a tool that raised left
it at execute, or it is done, with a decided record (`Decided`) and a result that
agrees with the effects. While a call works on the thread, `AtWork` says the same of
what the call holds, node by node; `Synced` that its state is saved before the call
answers. With at most one call per thread, two cases of a step remain: it is the
thread's own call, or it leaves the thread alone. Who was told "not executed" was
told so of a decided record (`Answers`), and a call that is about to execute one
knows that nobody was told anything of it (`Unanswered`), since it found the record
pending: that is why the answer stays true, with other writes on the same thread
too. `GateImplemented` reads `ApprovalGate`'s variables off `pending` and `effects`:
`InsertRecord`, `ResolveRecord` and `CallTool` are its steps and all others stutter.

### The agent

An agent's steps are steps of the gate or stutters (`AgentStep`), so the gate's
theorems are the agent's. That what it rejects is never made then needs one more
invariant, `OneOpinion`, about the agent alone: an effect has, by
`NoEffectWithoutApproval`, a delivered approval on its record's thread, by
`ExecutesWhatWasRecorded` the effect's thread, and an agent of one opinion has sent
no approval there.

The rest comes from `AgentInv`: the states a thread goes through, in checkpoints
and in all calls at work, however many of them overlap, all `Fits` the thread: they
are of its one proposal, `OneProposer`, and of that proposal's own record; they
carry a decision only if the agent gave it; and a result "rejected" or "refused"
has its reason. The call of a proposal gets no further than the pause (`Pauses`),
and that of a decision never proposes (`Resumes`), because the agent decides on
action ids that it was given (`DecidersWereGiven`) and an id is only given out
when the pause is saved (`GivenStands`). What lasts over any step is collected in
`Lasts` first; then each conjunct has a lemma. `AnswersAreTrue` combines `AgentInv`
with `ReportsInv` for "executed", with `OneOpinion` for "rejected", and with the
tool declining a payload always or never for "refused".

`ToolCallsAreToolWrites` is a step simulation with one more fact, `MadeByCallers`: a
call has no effect before its tool call. `WritesAreToolWrites` of the connectors is
about the same ToolWrite: what the one side relies on is what the other does.

### Connectors

Nothing is proved method by method. `Shape` says of a method what the properties
need, and holds of all 21 (`MethodShape` evaluates them): only a write changes
anything, by its last step, and that one is not retried (`update_file` never makes
it); a workbook is loaded in the first step; the folder of a Drive file is checked in the second. `CallInv`
then says where a call is in its method and what it has done there (`OnItsWay`:
nothing written, nothing failed; `Wrote`: at most once, by the last step, after
the audit event). Two calls on one workbook are related by `OverlapIsNoted` and
`CellsAreKept`: a copy of the workbook that lacks a finished write belongs to a
call that the write overlapped with, and knows it.

### StateStore

`CallInv` ties where a call is in its method to the tables in both directions:
what a call has done is in them (`Done`), and what is in them was done by a call
that got so far (`Recorded`, `Listed`). `InTime` relates the time stamps of a call
and of those that had returned before it began, which gives the order of events;
`Locked` says that under the file's lock the copy a thread changes is the file;
`TroubleKnown` that only an outage makes a statement fail. The refinement maps a call's
statement to `StoreContract`'s step, and everything about connections, locks and
the rest to stutters; the proof follows the two implementations separately.

### Startup

`BuiltSoFar` and `SettingsAreGood` say what a start that got so far tells of the
settings, `FailedWhy` lists the reasons for which a start fails when nothing went
wrong outside the server. The restart property needs to know that tokens last:
`TokensLast` says that a connector which was built left a token that can be
refreshed, or a file that a crash tore since (`OnFile`), `GrantsLast` that its consent covers what it is refreshed for, and
`TokensCover` and `ToolsCovered` that tokens and connectors have the scopes of
their file.

### Model-checked only

The liveness properties `ApprovedIsExecuted`, `EveryCallIsAnswered` and
`EveryMethodEnds`: with fairness and ENABLED they are out of this prover's reach.
So is induction over data, which none of these modules needs (they have no
recursive operator). What the violated runs show is a matter of one behaviour, and
stays with TLC.

## 5. Not modelled, and the plan

Not modelled: caller authentication (a stateless look-up; the name of a caller is
carried along, and only StateStore looks at whose decision is on record), health
checks and previews, which no route of the API makes, the MCP read tools, the
`limit` of `list_events`, the checkpointer's own statements; and the demo scripts
beyond their use of token files, the Terraform and Docker files, and what happens
inside the client libraries (two threads on one `httplib2.Http`, which is not
thread-safe, above all). Some hazards have no property, each with its reason in
PROJECT.json: that shared `httplib2.Http`; and what nobody in the code prevents, so
that a property could only except it: clocks that disagree, overlapping and torn
workbook writes, a Drive file moved between check and download, a store that fails
to record a failure, demo scripts that share the mailbox's token file, a torn token
file, and an agent that proposes again because it never got the first action id.
The `decided_by` that a kept resume value brings along is known from ActionGraph's
`kept`, and not followed further.

Next: invariants of one model that rest on another are stated in each of them. The
step from `WritesAreToolWrites` and `ToolCallsAreToolWrites` to one theorem about a
gate with its connectors, and from `ContractHolds` to the store statements of
ActionGraph, is an argument of this document; a composed specification, with the
gate's statements as calls of StateStore, would make it a proof.
