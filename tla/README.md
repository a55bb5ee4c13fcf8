# A formal model of FORGE

FORGE turns a prompt into a deployed program: it parses and clarifies an intent,
writes a specification and an architecture plan, builds a graph of tasks, lets
agents on Celery workers execute the graph, verifies, deploys and monitors the
result. This directory holds TLA+ models of its core logic, what TLC checks about
them and what TLAPS proves.

## The system

All paths are below `src/system/`. "State" is what outlives a call.

| component | code | state | operations | talks to |
|---|---|---|---|---|
| workflow engine, state manager | `core/orchestration/workflow_engine.py`, `state_manager.py` | one Redis hash per project (four task lists, phase, graph id, time to live); the set of paused projects in memory | start, pause, resume, abort; handlers of completed and failed tasks | workers by Celery messages, back by events; task graph; retry manager |
| task graph engine | `task_graph.py` | the graph, one JSON row in PostgreSQL | generate (dependencies, levels, critical path, estimate), persist, load, update a status | plan (input), workflow engine and retry manager (users) |
| retry manager | `retry_manager.py` | none; changes the task object and the stored graph | should_retry, schedule_retry, handle_permanent_failure, blocking of descendants | event bus, stored graph, Celery |
| event bus | `event_bus.py`, `runtime/events` | handlers and listener tasks in memory, an event history in Redis | publish, subscribe, unsubscribe, history | Redis pub/sub |
| deployment engine | `core/deployment/engine.py`, `rollback.py`, `health_checker.py`, `provisioner.py` | deployment records in memory, in two registries | deploy, deploy_with_rollback, rollback, disable_rollback | provisioning commands, the service's health endpoint, secrets manager |
| secrets manager | `core/deployment/secrets_manager.py` | encrypted rows, the master key of each process in memory | store, get, delete, rotate | PostgreSQL |
| intent engine | `core/intent/` | a session in Redis and in PostgreSQL | process, clarify, get, delete | model, both stores |
| agents and workers | `agents/`, `runtime/` | the files of a project | run_task: read the scope, ask a model, write the files | Celery, file system |
| specification, planning, verification, evolution, memory, monitoring | `core/...` | dictionaries and rows written once per call | sequences of model calls and tools | model, tools |
| repository intelligence | `repo_intelligence/` | embeddings in PostgreSQL, a graph of files, chunks and imports in Neo4j | index_project, update_index, delete_index, get_build_order | parser, both stores |
| gateway, sockets, tools, sandboxes, observability, front end | `api/`, `tools/`, ... | little | adapters | external services |

`PROJECT.json` lists each with its status and the reason for what is left out.

### How they interact

`generate` makes a graph from a plan. `start_workflow` writes the hash and sends
the tasks without dependencies to Celery. Each worker's result is to come back as a
`TaskCompletedEvent` or `TaskFailedEvent`; the engine's handlers update the lists,
send what has become ready and advance the phase. Control requests run beside the
handlers in one asyncio loop and touch the same hash. Deployment is a separate
engine: requests run concurrently, and each provisions, polls a port and registers a
record.

Nothing in the repository subscribes the engine's handlers to the bus, and the HTTP layer
builds a new engine per request (`orchestration_router.py:114`, `deployment/router.py:14`),
the task graph engine with an argument its constructor does not take. The deployment router
makes its provisioner without a terminal (`deployment/router.py:21`), so every deployment
over HTTP is a dry run, recorded like any other. The models describe one engine object that
is wired the way its docstrings describe, since that is what the classes are written for.

### What is hard, and what makes each part correct

* **Workflow.** Every Redis call is an await; the lists are read, changed and
  written without a lock; a loop of dispatches goes on after its guard was
  checked; messages run twice; the hash expires or is deleted under a handler; the
  process dies. Correct means: no task early, no task twice, nothing announced
  that is not so, failures reported before they are recorded, and a pipeline that
  goes on to its end. What the code gives of this, and what it does not, is below.
* **Task graph.** Correct means: the levels respect the dependencies, the sort
  raises exactly on a cycle, the critical path is a longest one, the dependency
  rules of a generated graph never meet in a cycle and keep the phases apart.
* **Deployment.** The previous deployment is read long before the record that
  refers to it exists; the probe is answered by whatever is live; commands fail
  after they took effect. Correct means: a chain of previous deployments without
  gaps or cycles, a rollback to what once worked, and records that tell what is live,
  as far as the target is given it.
* **Stored graph and retries.** Every report of a worker loads, changes and stores the
  whole graph without a lock. Correct means: a lost update may hold a task back but
  never starts one early; without one the row is true; every dispatch ends.
* **Intent sessions.** Two stores that fail and expire separately, and requests that
  wait for a model between a load and a save. Correct means: what was saved is what is
  loaded, no answer is lost, and no invalid intent is handed on.
* **Event bus.** Listener tasks start late, are cancelled at an await, and end with
  their connection. Correct means: each event once and in order, no registered
  handler without a listener, nothing received that is not handled.
* **Agents.** Runs of several processes read, wait for a model and write whole files of
  one checkout, and say what to write by its path. Correct means: an answer with a path
  that its contract does not match leaves no trace, and work is lost only where the code
  gives no protection: to runs that overlap, and to files unseen. Which file a path is of
  is not asked by the code, so that this is a matter of spelling.
* **Repository index.** Every query is a transaction; calls overlap, and files change
  between two parses. Correct means: what was read is there, search and graph agree,
  and the build order follows the imports.
* **Secrets.** A key is changed row by row while rows are stored, in several processes.
  Correct means: no value is lost, whatever fails half-way, and after a rotation its
  process reads what was rotated.

## Modules

| module | models | |
|---|---|---|
| `StateManager` | `state_manager.py`: the lists as a record of sets, `mark_task_*` as operators on it, `get_ready_tasks`, `is_phase_complete` | operators |
| `WorkflowEngine` | `workflow_engine.py` over it: one action per stretch between two awaits | EXTENDS `StateManager` |
| `PipelineContract` | what the engine owes: tasks after their dependencies, announcements that are true | abstract |
| `WorkflowProperties`, `WorkflowInvariant` | the properties; the two inductive invariants | |
| `WorkflowProofs` | proofs | |
| `TaskGraphGeneration` | the builders of tasks and the dependency rules of `task_graph.py`; a name is a sequence of words | operators |
| `TaskGraphEngine` | the sort (a step per task taken from the queue), the critical path (a step per level), the estimate | |
| `TaskGraphProperties`, `TaskGraphProofs` | properties, proofs | |
| `Deployment` | the deployment engine and the rollback manager, one project and environment | |
| `DeploymentProperties`, `DeploymentProofs` | properties, proofs | |
| `TaskGraphStore`, `TaskGraphStoreProperties` | the stored graph (`update_task_status`, `get_ready_tasks`) with `retry_manager.py`; one process per task | |
| `IntentSession`, `IntentSessionProperties` | the intent engine's requests over one session in two stores | |
| `IntentSessionProofs` | proofs | |
| `EventBus`, `EventBusProperties` | `event_bus.py` over Redis pub/sub, whose connections are queues | |
| `OrchestrationProofs` | proofs about the stored graph and about the bus | EXTENDS the two before |
| `AgentScope` | the patterns of the agents' contracts and what they match: `fnmatch`, `Path.glob`, the extension rule | operators |
| `AgentRun`, `AgentRunProperties` | `runner.py`, `base.py` and the run request, by several processes on one checkout | EXTENDS `AgentScope` |
| `AgentRunProofs` | proofs | |
| `RepoIndex` | `indexer.py` with the embedder, the graph builder and the mapper; a call is the list of queries it has still to send | |
| `BuildOrder` | `get_build_order`, Kahn's algorithm, as the set of the orders it may return, since the code leaves two of its own orders open | operators |
| `RepoIndexProperties`, `RepoIndexProofs` | properties, proofs | EXTENDS both |
| `Secrets`, `SecretsProperties` | `secrets_manager.py` with a database and several processes | |
| `SecretsProofs` | proofs | |
| `MC*` with their `.cfg` | instances for TLC | |

`PROJECT.json`, "map", gives the source lines of every definition.

**Workflow.** A coroutine is a listener or an API request. `pc[c]` names the await
at which it is suspended, `op[c]` what it serves, and `snap`, `todo`, `cur`,
`seenPhase` are its local variables: the lists it read, the tasks still to be sent or
blocked, the task in hand, the phase it saw. `LoadLists` and `SaveLists` are the two
halves of each `mark_task_*`. The broker and the workers are the environment:
`inflight` counts messages, `events` the outcomes not yet handled. `sent`,
`succeeded`, `everFailed`, `published`, `aborted`, `unmarked` and `refused` are history
and no guard reads them, except that `sent` carries a bound. `CallRaises` is a call to
Redis that raises, at any label of `MayRaise`: it ends the handler, except in the two `try`
blocks around dispatch and mark (`:189-201`, `:247-260`), which catch a failing
`mark_task_running` like a failing broker. There the message is out, the task stays ready,
and `unmarked` counts it. A second HSET after the lists, of artifacts or of an error
(`state_manager.py:201`, `:229`), is an await of its own (`SaveArtifacts`, `SaveError`). The
retry manager publishes a failure on the bus that the handlers are to listen to; such an
echo is one more event of the task. Dictionaries of agents, message bodies and
timestamps are left out, and so is the order in which a loop takes its tasks. A
failure handler never retries: it wraps the error in a class that the retry
manager's test does not accept.

**Task graph.** A graph is a record of tasks, dependencies and minutes. The sort
takes the queue's tasks in any order, which the code's order is one of. Tasks of
generated graphs take one minute each, as descriptions are abstracted away; the
graphs of unequal minutes are enumerated beside them.

**Deployment.** An id is the place of a record in the order of construction, which
is the order of `created_at`. `live` is what a target was given last, which depends on
it (`Means`): for Kubernetes a manifest with image and environment, and with the project's
secrets if it is a deploy, as a rollback does not merge them; for Cloud Run the image's tag
(in the proof only, since it behaves like a manifest that needs no secrets); for Docker,
Vercel, Railway and AWS nothing of either, so that what runs is whatever the working
directory holds (`Workspace`); and a dry run provisions nothing and leaves `live` as it was.
There is one `live`, as every health check polls a port of the same host. `Answering(live)`
is what a probe finds. Applying a manifest and a dry run do not suspend in the code; the
model lets other requests run around them, which only adds behaviours. A record exists from its
construction (`Provisioned`) but is `registered` only after its health check. Both
registries are written in one step without an await that suspends, so they are one
field. The engine object is shared by the requests, as its class intends.

**Stored graph.** A worker's `update` is the call it is in, `copy` the graph it loaded,
`graph` the one it gave to `handle_permanent_failure`. `outcome` is what became of a
task whatever the row says. A retry through Celery names a task under which no worker
is registered (`system.runtime.workers.celery_app.execute_agent_task` for
`forge.execute_agent_task`), so it is `discarded`; without Celery the caller sends the
object itself.

**Intent sessions.** A session is what is filled in, the round, the status and the
prompt. `last` is the session as the latest request saved it, `overlap` that two
requests ran at once. The model's answer is any of the sets of fields in `Answers`.

**Event bus.** A listener is a task with a connection; `queue[c]` is what Redis has sent
to the connection and the listener has not read. Handlers return and may unsubscribe
themselves. `survivor` and `raced` record the two histories in which the code starts
two listeners for one channel.

**Agents.** A name is what the code has of a file: a string, here its segments and what
the dots of the last one separate. `FileOf` says which file of the disk it is of; contracts,
answers and writes go by the name, as nothing normalises it. What a file holds is the set of
the runs whose work is in it: a run that was shown the file, and answers with the name it was
shown, keeps what it was shown; a write under another name brings the run's own work only.
Opening a file for writing empties it, and another run may read it then. A reading may meet
files that cannot be read and patterns whose expansion raises (`bad`, `broken`), which are
logged and passed over; a file is `bad` for the whole of one reading. `met` is the pairs of
runs that were in flight together. The files of all patterns are read in one step.
Symbolic links are left out, and so are directories whose name matches a file pattern.

**Repository index.** Only the imports that resolve to a file are edges here; a raw
import name becomes a node of its own in the code, which no query of the model finds,
and is the query `Raw` that may fail. `ensure_constraints` is taken to have succeeded, so
that a MERGE is atomic. A row query may fail like any other: the statement has
`:embedding::vector`, in which SQLAlchemy's text probably finds no bind parameter of
that name, so that at this commit all may.

**Secrets.** A value is named for the request that stores it. A row is known by its id,
the name in it is not unique; a DELETE takes the rows that were there when it began.
Locks are left out: a statement that waits for a row has the outcome of one that came
later. `tangled` and `disturbed` record which writes overlapped.

## What TLC checks

| run | instance | shows |
|---|---|---|
| `workflow_quiet` | four tasks in a diamond over three phases, two of which may fail; one listener; two redelivered messages; a broker that fails, and one call to Redis that raises in the start or in a mark as running; workers slower than the control request | `TypeOK`; a task is sent again only for a mark that was lost (`AtMostOneDispatch`); none stays active without a message (`NoGhostActive`); phases advance one at a time (`PhaseStepwise`); every task succeeds, fails or is below one that failed, unless the broker refused it and nothing sent it since, and if nothing failed the phases are left (`PipelineCompletes`, liveness) |
| `workflow_wild` | two tasks in a chain; start, pause, resume, abort, crash, expiry, a failing broker, any one call to Redis that raises, one failure that comes back from the bus; two control requests or crashes beside a listener | the engine implements `PipelineContract` (`ImplementsContract`); failed and blocked tasks are really so and announced (`FailureAccounted`); lost updates never put a task into two lists (`OneListPerTask`), start one early (`DependenciesFirst`) or announce an open phase (`PhaseEventSound`); an aborted project's key goes away in the end (`AbortLeavesNothing`, liveness) |
| `task_graph` | all graphs of three tasks, all acyclic ones of four ordered tasks with one or three minutes, the empty graph, the graphs generated for five plans | `LevelsRespectDeps`, `OneLevelPerTask`, `SortDecides`, `CriticalPathLongest` (and that the estimate is the sum along the path for a generated graph, else between that and the sum of all tasks), `GenerationNeverRaises`, `PhasesInOrder` |
| `deployment` | two requests; a manifest for Kubernetes that works with its secrets, a target that is given nothing and is not probed, a dry run; any probe may time out; three records, one restart or call of `disable_rollback` | `PreviousIsKnown`, `DeployRollsBackToSuccess`, `LiveIsRecorded`, `NewestRecordIsLive` |
| `task_graph_store` | three tasks in a join or a chain, with the policies of an architect, a documentation and a backend task; one database error | a lost update never starts a task early (`StartsAfterDependencies`); without one the row is true, and its aggregates always are its own (`SerialRowIsTrue`); every dispatch ends (`EveryDispatchSettles`, liveness) |
| `intent_session` | three fields, two rounds, three requests, two at a time; either store refuses any command, the key expires | what was saved is found (`ReadsLastWrite`); answers stay and the rounds end (`AnswersKept`); no invalid intent is handed on (`ProjectIntentValid`) |
| `event_bus` | two events; a handler on the project's channel or two on the global one, two listeners each; one failure of Redis | `OnceInOrder`, `HistoryIsNewest`, `Attended`, and `Delivered` (liveness) |
| `agent_run` | three runs of five teams of agents on four files with five names, two files shown, nine sets of names as answers, one file that cannot be read or pattern that fails, one such reading or refused write or killed process | `OnlyWorkInScope`, `WorkIsKept` |
| `repo_index` | two calls that index, update or delete three files, one of which is empty; one change of a file, one refused query | `IndexCovers`, `SearchMatchesGraph`, `ExternalWasBare`, `DependenciesBuiltFirst` |
| `secrets` | three calls by two processes on three secrets in two scopes, three master keys; one failing query or restart | `NoValueLost`, `RotationReadable` |

Bounds, all named constants. `MaxSends` is 2, one more than `AtMostOneDispatch` allows a
task whose marks were not lost, so the bound does not hide a second message; it would hide a
third of a task whose mark was lost, which is left to the proof. `MaxApiCalls` is 2 where
requests overlap: a request that is overtaken by another, or by a crash. `MaxRedeliveries`
is 2 and `MaxRaises` 1 in `workflow_quiet`, so that a task sent twice may be reported twice
as well. `MaxEchoes` is 1: if the handlers were subscribed to the bus on which failures are
published, each failure would come back for ever. Two tasks are enough for a dependency and
a phase boundary, four for tasks that run together and a join; the hazards are lost updates
between two coroutines, here a listener and a request. Two listeners are beyond TLC with all
of this; that case is proved, for any number of them. Three records are a success, a
deployment on top of it and a rollback; two requests overlap in every way that a pair can.
Three tasks give self-loops, two-cycles, three-cycles and mixed graphs. Three requests on a
session, or three runs on a file, are two that overlap and one that comes after, or in
between; three calls on the secrets are a store and two rotations, or the reverse. Two calls
on the index overlap query by query; the file that changes makes an import, a cycle, a file
that imports itself or an empty file. `MaxFaults`, `MaxSkips`, `MaxRefused` and
`MaxDbErrors` are 1: each property says what a single failure may cost. `Tried` are the
answers of an agent, chosen to have names in and out of scope, two names of one file, and
files that are read by several patterns or by none. In `event_bus` one channel at a time is
subscribed to, since the two share only the publisher. The proofs remove these bounds for
what they cover.

`CHECK_DEADLOCK FALSE` stands in every configuration: a workflow ends, a sort ends,
and the bounded histories run out.

**Fairness** is stated in `FairSpec` of the engine, in `BusSpec` for the listeners of the
bus and in `Spec` of the stored graph for its workers. A coroutine that was begun is resumed
and a listener takes the next event: that is the asyncio loop. A message ends: Celery's hard
time limit (`celery_app.py`, one hour). `Housekeep` runs every hour and `Expire` is the
passing of time. Control requests, crashes, redeliveries and the outcome of a task are not
fair. Where a step was split into several actions, fairness is given to their disjunction
per coroutine. `workflow_quiet` assumes with `QuietApi` that no worker answers before the
control request is over. `AtMostOneDispatch`, `NoGhostActive`, `PhaseStepwise` and
`PipelineCompletes` are claimed for that regime only (`Quiet` in `WorkflowInvariant`: at
most one request, one listener, no expiry, and calls to Redis that raise in the start and in
marks as running only), and the finding `completion_lost` shows what happens without it.

`EveryDispatchSettles` assumes that a worker which has begun goes on, `Delivered` that
the loop runs a listener that can run, that a handler returns, and that a callback of
the loop is run.

### Where the code does not do what it says

Two disagreements are shown by runs, the others were met while the code was read.

| run | property | |
|---|---|---|
| `completion_lost` | `CompletionAdvances` | `start_workflow` marks tasks running after it has sent them and overwrites a completion handled in between; the dependent task is never sent |
| `pause_overtaken` | `PauseHolds` | a handler that has looked at the paused set (`workflow_engine.py:246`) goes on sending after a pause, against "new tasks are not dispatched" (`:167`) |

Workflow: a failure never triggers a phase check, so a phase whose last task fails stays
current (`workflow_engine.py:272`, against line 6); a `mark_task_running` that raises after
its message was sent is caught as if the dispatch had failed, and the task is sent again
(`:189-201`, `:247-260`). Task graph: the schema documents the estimate as the sum along the
critical path (`task_schemas.py:211`) and `_estimate_duration` adds the longest task of each
level (`task_graph.py:963-978`), which is more when the longest task of a level is off the
path. That does not show at this commit, since the only caller is `generate`, whose tasks
take a minute each. The edges from a frontend's pages and state to its API client are looked up under a suffix
no task is filed under (`task_graph.py:800`, against 690-691); `update_task_status` says
"atomically" and loses updates. Deployment: rolling back a rollback provisions the
deployment that had failed (`rollback.py:118`, against line 1) and drops the secrets; a
deployment to Docker, Vercel, Railway or AWS ignores the image and the environment that its
record states. Retries: the message names an unregistered task; the policy documents
`max_retries` as "(initial + retries)" attempts (`retry_manager.py:74-75`), and that
many retries are allowed after it.

Events: a handler that unsubscribes from within itself swallows the cancellation of its
own listener, which survives, and a later subscription gets each event twice; two
concurrent `subscribe_all` share one connection; a listener ended by an error is not
restarted while its handlers stay registered; a `publish` that raises after the
broadcast leaves the event out of the history; `get_event_history` with `since` answers
oldest first, against its docstring.

Intent: a `clarify` on a validated session raises its round past the limit; the row's
prompt is never updated; a deletion whose row query fails answers 204 and the session
comes back; an error in the save of the last invalid round loses the answers.

Agents: the scope check matches the path as it is spelled (`base.py:698-729`) and the write
goes to root and path (`runner.py:251-256`), so that a scope is one of spellings: with ".",
".." or a doubled slash a matching string can be of a file that the contract does not match,
as `system/./main.py` is accepted where `system/main.py` is refused; a file that cannot be
read or a pattern whose expansion raises is passed over with a warning (`runner.py:181-188`,
`211-219`), and the file may then be overwritten unseen; the context says "files you may
read or modify" of files the scope does not let an agent write (`base.py:561`: `Path.glob`
lets `**` match no directory, `fnmatch` does not, so `system/main.py` is shown and refused);
`infra/**` reads no file, so existing infrastructure files are overwritten unseen; a run
that reads a file while another has just opened it for writing sees it empty, and so
destroys work of third runs.

Index: `update_index` says that it removes stale embeddings and chunks and removes
nothing, does not touch imports, and passes over a file that has lost all its chunks;
imports are never removed; an empty file that was imported once is external for ever and
in no build order; `get_build_order` appends the files "in cycles" at the end, and with
them, in any order, those that merely import one.

Secrets: a rotation is per scope and the key per process, so after it the process can
read no other scope; one that failed half-way cannot be repeated, since it cannot read
what it has rotated; a store between its two sessions is overwritten by the old value.

## What TLAPS proves

Every safety property that a run confirms, for every value of the constants that satisfies
the named assumptions. These say that the sets of coroutines are disjoint and so are the
handlers and listeners of the two channels, that bounds are naturals (`MaxRounds` a positive
one), that a null value is not one of the values beside it, that constants have their types,
and that what a database or a checkout holds is finite. Graphs are finite too, their
dependencies are tasks of the graph, and minutes are positive, as `_estimate_task_minutes`
makes them. A liveness property is never used.

`PROJECT.json`, "theorems", lists the results. A property is seldom inductive, since
most of what a request writes was read before an await. Each module therefore has an
invariant that says what a request in flight holds and what it is still to do:

* **`WorkflowProofs`**, every interleaving. `Invariance`: `Spec => []Inv`, and from it
  `TypeOK`, `OneListPerTask`, `DependenciesFirst`, `PhaseEventSound`, `FailureAccounted`,
  and `Refinement`, `Spec => ImplementsContract`. A list in Redis is overwritten by a
  value that a coroutine read earlier. `Inv` therefore says of *each*
  copy, the one in Redis and the one in every coroutine, that it claims nothing false
  (`Truthful`), and of each suspended coroutine that what it is about to write, send or
  announce is justified for as long as it stays suspended (`Justified`). This works
  because `succeeded`, `everFailed` and `published` only grow: truth is stable,
  completeness is not, which is why `Inv` does not say that the lists are complete.
  The refinement maps a task with `sent > 0` to "started" and the published phase
  events to "announced"; every action maps to one step of the contract or none.
* **`WorkflowProofs`**, the quiet regime. `Quiet => (Spec => [](Inv /\ QuietInv))` and
  from it `AtMostOneDispatch`, `NoGhostActive` and the action property `PhaseStepwise`,
  for any graph, any failures of tasks, broker and marks as running, and any number of
  redeliveries.
  Here the lists *are* complete, for the reason that coroutines take turns
  (`OneAtATime`): what was read is what is there (`UpToDate`), every message sent is
  counted in the lists, is about to be, or is one whose mark was lost (`SentCounted`), and
  every active task has an
  outcome that is still to be recorded (`ActiveOutstanding`). `MCWorkflowQuiet` is an
  instance of `Quiet`.
* **`TaskGraphProofs`**, the sort. `SortInvariance` and from it `LevelsRespectDeps`,
  `OneLevelPerTask`, `SortDecides`, for all finite graphs: an
  in-degree is the number of dependencies not yet taken, the tasks with none left are
  taken or queued, and levels, current level, queues and the rest are apart.
* **`TaskGraphProofs`**, generated graphs, for every plan. `GenerationNeverRaises`: the
  rules give each task a rank that falls along every edge, so no tasks wait for
  each other. `PhasesInOrder`: a barrier makes every task of a phase wait for all
  tasks of the phase before it.
* **`TaskGraphProofs`**, the critical path. `PathInvariance` and from it
  `CriticalPathLongest`: a task's finish is the latest finish of its dependencies and
  its own minutes, levels are tight, and the part that was traced spans the time between
  the finishes of its ends, so that its weight is the last finish; the estimate takes
  the longest task of each level, so it is at least the path and at most the sum, and with
  tasks of one minute it is the number of levels, which is the path's.
* **`DeploymentProofs`**. `Invariance` and from it `TypeOK`,
  `PreviousIsKnown` and `DeployRollsBackToSuccess`: an id held by a request is a
  registered success, a request that polls owns an unregistered record which no
  other request has, and a rollback in progress holds the configuration of its
  target's predecessor. Statuses of registered records never change, which keeps it.
  `LiveInvariance` and from it `LiveIsRecorded` and `NewestRecordIsLive`: what is
  live has a record, or a request in flight knows it and will record or replace it. The
  second says which configuration is live only of targets that are given one
  (`Put`), and only for requests that did not overlap.
* **`OrchestrationProofs`**, the stored graph. An end, once reached, stays, and every graph that is
  stored or held by a worker claims ends only that were reached (`Truth`). From it
  `StartsAfterDependencies`, with lost updates; while none was lost, the row knows all
  of them (`Stored`), which gives `SerialRowIsTrue`.
* **`OrchestrationProofs`**, the event bus. `HistoryInvariant`: the history is a part of
  what was recorded and has the newest of it, since a trim keeps those, and an entry
  beyond the limit is one of a publisher that has not trimmed: `HistoryIsNewest`. It
  rests on a fact about `Newest`: at most `n` members have fewer than `n` above them.
  `Served` says who holds which listener until the bus is disturbed: of the project one
  that nothing cancels, of the global channel one that reads and will close its own
  connection, or callers that are all still connecting. This gives `Attended`.
  `OrderInvariant` gives `OnceInOrder`: what a connection has not handed over is the end
  of its channel (`ReceivesTheEnd`), so the listener has a position; handlers were called
  with nothing beyond it (`Follows`), and those it has still to call with nothing from
  it on (`Behind`). It needs that one listener of the channel moves the position
  (`OneReader`), which `survivor` and `raced` are the only ways to break: a connection
  is never taken over while another listener reads it. As `publish` goes to each
  channel once (`PublishedOnce`), no handler is called with an event twice (`CalledOnlyOnce`).
* **`IntentSessionProofs`**. A save is two writes and a reader may fill one store from
  the other: which store may be behind, and which write is then still to come. From it
  `ProjectIntentValid`, `ReadsLastWrite` and the action property `AnswersKept`.
* **`AgentRunProofs`**. `OnlyWorkInScope`, for any patterns, names and checkout, and
  `WorkIsKept`: the invariant says of every run in flight what it is going to find
  missing, and which of the excuses holds already (`WorkIsAccounted`). The excuses are
  that two runs were in flight together, that a run stopped between opening and writing,
  and that it wrote the file unseen: none of its patterns reads it, it could not be read,
  as many were shown as may be, or the name was another.
* **`RepoIndexProofs`**. A query that matches nothing does nothing and tells nobody, so
  the order of a call's queries matters: each of them finds what it matches, or an
  earlier query of the same list creates it, and what was read is there or in the list
  (`MapInvariant`). From it `IndexCovers` and `ExternalWasBare`. A chunk comes to search
  before it comes to the graph, and its call owes it (`SearchInvariant`): `SearchMatchesGraph`.
* **`RepoIndexProofs`**, the build order, for every finite graph. A degree counts the
  imports that are not placed, the files with none left are placed or queued, and what
  was placed came behind its imports (`Kahn`). Each round places one more file while
  the queue lasts, so the rounds suffice; a file that is left needs another that is
  left, hence is in a cycle or needs one. From it `DependenciesBuiltFirst`, for all the
  orders in which the database and the set may answer.
* **`SecretsProofs`**. Nothing makes the name in a row unique. Still each id belongs to
  one name, a store that is about to commit has seen every row of its name and a
  rotation has found the value last stored, which gives `NoValueLost`; while a rotation
  is undisturbed each row of its scope has the new key or is to do: `RotationReadable`.

The library's induction theorems take an operator as a parameter, which the provers
cannot instantiate. Where a proof needs an induction over numbers or over a finite set,
it takes the least counterexample, or states what is to be shown for all sizes as the
invariant of the algorithm that computes it.

Liveness stays with TLC: `PipelineCompletes`, `AbortLeavesNothing`,
`EveryDispatchSettles` and `Delivered` hold under fairness, which is out of the
prover's reach.

The operators `TypeOK` of `TaskGraphProperties`, `TaskGraphStoreProperties` and
`IntentSessionProperties`, and those in the proof modules, are in no run: they say only
what the variables hold, for a proof to begin with, and are proved.

## Hazards that no property covers

Some properties hold under a condition that leaves a hazard out, since the code gives no
protection from it. `PROJECT.json`, "hazards", has these with no property and a note, or with
the property that covers the rest of them: a phase whose last task fails
(`PipelineCompletes` asks for its end only if nothing failed); messages of the bus that come
before the listener or after it has died, two callers of `subscribe_all`, a listener that
survives its own cancellation; the answer that a second request on an intent session
overwrites, and a session read while it is deleted; two stores of one secret that overlap, or
a store during a rotation of its scope; an index written while files are moved or deleted; a
success recorded for the answer of another deployment, a command that failed after it took
effect, and the rollback of a rollback; a report that a lost update of the graph drops.
Where a property excuses one, the condition is a variable of the model that records it
(`overlap`, `overlapped`, `faulted`, `lost`, `tangled`, `disturbed`, `survivor` and `raced`).

## Not modelled

The components with status `not_modelled`, each with its reason in `PROJECT.json`. By
far the most lines of the repository are there: adapters to command-line tools and HTTP
services (`tools/`, `execution/`), prompts, text and code templates, request and
response classes, and sequences of model calls that keep nothing. They have no protocol
and no state that two actors share, and a model of them would restate their text.

Several components cannot do their work at this commit, and a model would be of
something the program never does. The specification engine's own tables fail its own
validation (`schema_generator.py` 448-494 against 103-236). The planning engine gives a
worker service port 0, which its class refuses. The verification engine builds two
validators without a required argument. The monitoring router builds an engine per
request, so a stop never reaches the loop that runs; the alert rules look only at
snapshots of unhealthy services, whose metrics are missing. The WebSocket manager's
broadcast is never called, the rate limiter guards no route, and
`execute_agent_task` imports a name its registry does not define, so that agents run by
the API only.

Within the modelled ones: `health_status`, the text of manifests, commands, prompts and
events, delays and their jitter, the search of chunks, metrics and logging, and the form
of the HTTP answers.

## Plan

1. Abstract specifications of the other stores, as `PipelineContract` is for the
   engine: a session that is one record (for `IntentSession` without overlaps) and a map
   from names to values (for `Secrets`), with the refinements proved from the invariants
   that are there.
2. The composition of the deployment engine with the secrets it reads.
