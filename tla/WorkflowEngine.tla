--------------------------- MODULE WorkflowEngine ---------------------------
(***************************************************************************)
(* The orchestration core: WorkflowEngine (workflow_engine.py) running on  *)
(* one asyncio loop over a Redis-backed StateManager, with Celery workers  *)
(* executing what it dispatches and task events coming back to it.         *)
(*                                                                         *)
(* A coroutine of the engine may be suspended at every await, and nothing  *)
(* locks the state hash, so every Redis call is a step of its own and the  *)
(* value a get_state returned (snap, todo, seenPhase) is used later than   *)
(* it was read.  A coroutine is either a listener, which handles the task  *)
(* events, or an API request, which starts, resumes or aborts the workflow.*)
(***************************************************************************)
EXTENDS StateManager, Naturals

CONSTANTS
    Listeners,       \* coroutines that handle task events
    Apis,            \* coroutines that serve control requests
    Ops,             \* the control operations this instance exercises
    MayFail,         \* tasks whose agent may fail
    QuietApi,        \* TRUE: workers are slower than a control request
    BrokerMayFail,   \* TRUE: send_task may raise
    MayRaise,        \* the calls to Redis that may raise, by the label before them
    MaxApiCalls,     \* bound: control requests and crashes in a behaviour
    MaxSends,        \* bound: Celery messages per task
    MaxRedeliveries, \* bound: Celery messages executed more than once
    MaxRaises,       \* bound: calls to Redis that raise
    MaxEchoes        \* bound: published failures that come back as events

Coros == Listeners \cup Apis
AllOps == {"start", "pause", "resume", "abort", "expire", "crash"}

\* Where a coroutine is about to call Redis, directly or through the bus.
RedisCalls == {"saveCompleted", "saveArtifacts", "loadState", "ready",
               "loadRunning", "saveRunning", "checkPhase", "setPhase",
               "publishPhase", "publishFailure", "loadFailed", "saveFailed",
               "saveError", "loadBlocked", "saveBlocked", "expire",
               "startLoad", "delete"}

ASSUME EngineAssumption ==
    /\ Listeners \cap Apis = {}
    /\ Ops \subseteq AllOps
    /\ MayFail \subseteq Tasks
    /\ QuietApi \in BOOLEAN /\ BrokerMayFail \in BOOLEAN
    /\ MayRaise \subseteq RedisCalls
    /\ MaxApiCalls \in Nat /\ MaxSends \in Nat /\ MaxRedeliveries \in Nat
    /\ MaxRaises \in Nat /\ MaxEchoes \in Nat

VARIABLES
    \* The Redis hash: lists, phase, metadata["graph_id"] is set, its TTL.
    lists, phase, hasGraph, ttl,
    \* _paused_projects, in the memory of the engine.
    paused,
    \* The coroutines: where each is suspended, what it was called for, and
    \* its local variables.
    pc, op, cur, snap, todo, seenPhase,
    \* Celery messages waiting or running, task events not yet handled.
    inflight, events,
    \* History: messages sent, tasks whose agent has succeeded or failed,
    \* events published on the bus, an abort not followed by a start.
    sent, succeeded, everFailed, published, aborted,
    \* History of the errors: per task, the messages sent whose mark as
    \* running was lost; the tasks the broker refused or a resume gave up on.
    unmarked, refused,
    \* Counters of the bounds.
    apiCalls, redeliveries, raises, echoes

redis  == <<lists, phase, hasGraph, ttl>>
locals == <<op, cur, snap, todo, seenPhase>>
env    == <<inflight, events>>
errors == <<unmarked, refused>>
hist   == <<sent, succeeded, everFailed, published, aborted, errors>>
bounds == <<apiCalls, redeliveries, raises, echoes>>
vars   == <<redis, paused, pc, locals, env, hist, bounds>>

Outcomes == {"completed", "failed"}
NoTask == "no_task"
NoPhase == "no_phase"

ASSUME NoTaskAssumption == NoTask \notin Tasks

PHASE_TRANSITIONS ==
    [intent |-> "clarification", clarification |-> "specification",
     specification |-> "architecture", architecture |-> "task_graph",
     task_graph |-> "agent_assignment", agent_assignment |-> "execution",
     execution |-> "verification", verification |-> "deployment",
     deployment |-> "monitoring", monitoring |-> "iteration",
     iteration |-> NoPhase]

\* TaskNode.blocking, the inverse of dependencies (TaskGraphEngine._add_deps).
Blocking(t) == {u \in Tasks : t \in Deps[u]}

Init ==
    /\ lists = Blank /\ phase = "intent" /\ hasGraph = FALSE /\ ttl = "absent"
    /\ paused = FALSE
    /\ pc = [c \in Coros |-> "idle"]
    /\ op = [c \in Coros |-> "none"]
    /\ cur = [c \in Coros |-> NoTask]
    /\ snap = [c \in Coros |-> Blank]
    /\ todo = [c \in Coros |-> {}]
    /\ seenPhase = [c \in Coros |-> "intent"]
    /\ inflight = [t \in Tasks |-> 0]
    /\ events = [k \in Outcomes |-> [t \in Tasks |-> 0]]
    /\ sent = [t \in Tasks |-> 0]
    /\ succeeded = {} /\ everFailed = {} /\ published = {} /\ aborted = FALSE
    /\ unmarked = [t \in Tasks |-> 0] /\ refused = {}
    /\ apiCalls = 0 /\ redeliveries = 0 /\ raises = 0 /\ echoes = 0

-----------------------------------------------------------------------------
(* How a coroutine moves on.                                                *)

\* A key that did not exist is created by HSET without an expiry.
TtlAfterHset == IF ttl = "absent" THEN "persistent" ELSE ttl

Goto(c, label) == pc' = [pc EXCEPT ![c] = label]

\* Mutant: the completion handler returns once nothing is left to dispatch.
DispatchNextOrReturn(c, left) ==
    IF left # {} THEN (IF op[c] = "start" THEN "startLoad" ELSE "dispatch")
    ELSE "idle"

\* The loop over the ready tasks: its body, or what follows it when none is
\* left.  The completion handler goes on to its phase check.
DispatchNext(c, left) ==
    IF left # {} THEN (IF op[c] = "start" THEN "startLoad" ELSE "dispatch")
    ELSE IF op[c] = "completed" THEN "checkPhase" ELSE "idle"

\* A task that the coroutine has sent and is still to mark as running: start
\* sends all of its tasks before it marks the first one.
ToMark(c, t) ==
    \/ pc[c] \in {"loadRunning", "saveRunning"} /\ cur[c] = t
    \/ op[c] = "start" /\ pc[c] \in {"startLoad", "saveRunning"} /\ t \in todo[c]

\* self._state.get_state inside a mark_task_*.
LoadLists(c) == snap' = [snap EXCEPT ![c] = lists]

\* self._state._save_lists: one HSET of the four lists.  The mark_task_* ends
\* here, and the value it had read is gone.
SaveLists(c, l) ==
    /\ lists' = l
    /\ ttl' = TtlAfterHset
    /\ snap' = [snap EXCEPT ![c] = Blank]
    /\ UNCHANGED <<phase, hasGraph>>

-----------------------------------------------------------------------------
(* on_task_completed                                                        *)

OnTaskCompleted(c) ==
    /\ c \in Listeners /\ pc[c] = "idle"
    /\ \E t \in Tasks :
        /\ events["completed"][t] > 0
        /\ events' = [events EXCEPT !["completed"][t] = @ - 1]
        /\ cur' = [cur EXCEPT ![c] = t]
    /\ op' = [op EXCEPT ![c] = "completed"]
    /\ LoadLists(c)
    /\ Goto(c, "saveCompleted")
    /\ UNCHANGED <<redis, paused, todo, seenPhase, inflight, hist, bounds>>

\* A task may come back without artifacts, which are then not stored.
SaveCompleted(c) ==
    /\ pc[c] = "saveCompleted"
    /\ SaveLists(c, MarkCompleted(snap[c], cur[c]))
    /\ \E next \in {"saveArtifacts", "loadState"} : Goto(c, next)
    /\ UNCHANGED <<paused, op, cur, todo, seenPhase, env, hist, bounds>>

\* The artifacts are another HSET, of a field that nothing else touches.
SaveArtifacts(c) ==
    /\ pc[c] = "saveArtifacts"
    /\ ttl' = TtlAfterHset
    /\ Goto(c, "loadState")
    /\ UNCHANGED <<lists, phase, hasGraph, paused, locals, env, hist, bounds>>

\* get_state, for the graph id and the current phase: the second one of the
\* completion handler and the one of a resume, which has no use for the phase.
LoadState(c) ==
    /\ pc[c] = "loadState"
    /\ seenPhase' = [seenPhase EXCEPT ![c] = phase]
    /\ Goto(c, IF ~hasGraph THEN "idle"
               ELSE IF op[c] = "resume" THEN "ready" ELSE "checkPaused")
    /\ UNCHANGED <<redis, paused, op, cur, snap, todo, env, hist, bounds>>

\* The only look at _paused_projects: once, before the dispatch loop.
CheckPaused(c) ==
    /\ pc[c] = "checkPaused"
    /\ Goto(c, IF paused THEN "checkPhase" ELSE "ready")
    /\ UNCHANGED <<redis, paused, locals, env, hist, bounds>>

\* self._state.get_ready_tasks, for the completion handler, start and resume.
GetReadyTasks(c) ==
    /\ pc[c] = "ready"
    /\ todo' = [todo EXCEPT ![c] = Ready(lists)]
    /\ Goto(c, IF op[c] = "start" /\ Ready(lists) # {} THEN "gather"
               ELSE DispatchNext(c, Ready(lists)))
    /\ UNCHANGED <<redis, paused, op, cur, snap, seenPhase, env, hist, bounds>>

\* dispatch_task: one Celery message; it has no await of its own.  The order
\* in which a loop takes the tasks is the order of graph.tasks, left open.
DispatchTask(c) ==
    /\ pc[c] = "dispatch"
    /\ \E t \in todo[c] :
        /\ sent[t] < MaxSends
        /\ sent' = [sent EXCEPT ![t] = @ + 1]
        /\ inflight' = [inflight EXCEPT ![t] = @ + 1]
        /\ cur' = [cur EXCEPT ![c] = t]
        /\ todo' = [todo EXCEPT ![c] = @ \ {t}]
    /\ Goto(c, "loadRunning")
    /\ UNCHANGED <<redis, paused, op, snap, seenPhase, events, succeeded,
                   everFailed, published, aborted, errors, bounds>>

\* send_task raised: the completion handler logs and takes the next task, a
\* resume gives up on the tasks that are left.
DispatchFails(c) ==
    /\ BrokerMayFail /\ pc[c] = "dispatch"
    /\ \E t \in todo[c] :
        LET left == IF op[c] = "resume" THEN {} ELSE todo[c] \ {t}
        IN  /\ todo' = [todo EXCEPT ![c] = left]
            /\ refused' = refused \cup (todo[c] \ left)
            /\ Goto(c, DispatchNext(c, left))
    /\ UNCHANGED <<redis, paused, op, cur, snap, seenPhase, env, sent, succeeded,
                   everFailed, published, aborted, unmarked, bounds>>

\* mark_task_running for the task that was just dispatched.
LoadRunning(c) ==
    /\ pc[c] = "loadRunning"
    /\ LoadLists(c)
    /\ Goto(c, "saveRunning")
    /\ UNCHANGED <<redis, paused, op, cur, todo, seenPhase, env, hist, bounds>>

SaveRunning(c) ==
    /\ pc[c] = "saveRunning"
    /\ SaveLists(c, MarkRunning(snap[c], cur[c]))
    /\ Goto(c, DispatchNext(c, todo[c]))
    /\ UNCHANGED <<paused, op, cur, todo, seenPhase, env, hist, bounds>>

\* Mutant: the missing successor of the last phase is set like any other.
CheckPhaseNoEnd(c) ==
    /\ pc[c] = "checkPhase"
    /\ Goto(c, IF ~IsPhaseComplete(lists, seenPhase[c]) THEN "idle" ELSE "setPhase")
    /\ UNCHANGED <<redis, paused, locals, env, hist, bounds>>

\* is_phase_complete of the phase that LoadState saw.
CheckPhase(c) ==
    /\ pc[c] = "checkPhase"
    /\ Goto(c, IF ~IsPhaseComplete(lists, seenPhase[c]) THEN "idle"
               ELSE IF PHASE_TRANSITIONS[seenPhase[c]] = NoPhase THEN "publishPhase"
               ELSE "setPhase")
    /\ UNCHANGED <<redis, paused, locals, env, hist, bounds>>

\* Mutant: the phase after the next one.
AdvancePhaseTwice(c) ==
    /\ pc[c] = "setPhase" /\ op[c] = "completed"
    /\ phase' = PHASE_TRANSITIONS[PHASE_TRANSITIONS[seenPhase[c]]]
    /\ ttl' = TtlAfterHset
    /\ Goto(c, "publishPhase")
    /\ UNCHANGED <<lists, hasGraph, paused, locals, env, hist, bounds>>

\* advance_phase: set_phase, then the PhaseCompletedEvent.
AdvancePhase(c) ==
    /\ pc[c] = "setPhase" /\ op[c] = "completed"
    /\ phase' = PHASE_TRANSITIONS[seenPhase[c]]
    /\ ttl' = TtlAfterHset
    /\ Goto(c, "publishPhase")
    /\ UNCHANGED <<lists, hasGraph, paused, locals, env, hist, bounds>>

PublishPhase(c) ==
    /\ pc[c] = "publishPhase"
    /\ published' = published \cup {<<"phase_completed", seenPhase[c]>>}
    /\ Goto(c, "idle")
    /\ UNCHANGED <<redis, paused, locals, env, sent, succeeded, everFailed,
                   aborted, errors, bounds>>

-----------------------------------------------------------------------------
(* on_task_failed.  The handler wraps the error in a RuntimeError, which is *)
(* in no retryable class, so should_retry is always False (RetryManager)    *)
(* and only the permanent-failure branch can run.                           *)

\* Mutant: the failure is recorded without having been published.
OnTaskFailedSilently(c) ==
    /\ c \in Listeners /\ pc[c] = "idle"
    /\ \E t \in Tasks :
        /\ events["failed"][t] > 0
        /\ events' = [events EXCEPT !["failed"][t] = @ - 1]
        /\ cur' = [cur EXCEPT ![c] = t]
    /\ op' = [op EXCEPT ![c] = "failed"]
    /\ Goto(c, IF hasGraph THEN "loadFailed" ELSE "idle")
    /\ UNCHANGED <<redis, paused, snap, todo, seenPhase, inflight, hist, bounds>>

OnTaskFailed(c) ==
    /\ c \in Listeners /\ pc[c] = "idle"
    /\ \E t \in Tasks :
        /\ events["failed"][t] > 0
        /\ events' = [events EXCEPT !["failed"][t] = @ - 1]
        /\ cur' = [cur EXCEPT ![c] = t]
    /\ op' = [op EXCEPT ![c] = "failed"]
    /\ Goto(c, IF hasGraph THEN "publishFailure" ELSE "idle")
    /\ UNCHANGED <<redis, paused, snap, todo, seenPhase, inflight, hist, bounds>>

\* RetryManager.handle_permanent_failure, called without graph or graph_id:
\* it publishes the failure, and an alert of the same event type for a
\* critical agent, and neither persists nor blocks anything.  What it
\* publishes may come back to the listener as failures of the task, none
\* where the handlers are not subscribed to that bus.
PublishFailure(c) ==
    /\ c \in Listeners /\ pc[c] = "publishFailure"
    /\ published' = published \cup {<<"task_failed", cur[c]>>}
    /\ \E n \in 0 .. 2 :
        /\ echoes + n <= MaxEchoes
        /\ echoes' = echoes + n
        /\ events' = [events EXCEPT !["failed"][cur[c]] = @ + n]
    /\ Goto(c, "loadFailed")
    /\ UNCHANGED <<redis, paused, locals, inflight, sent, succeeded, everFailed,
                   aborted, errors, apiCalls, redeliveries, raises>>

LoadFailed(c) ==
    /\ pc[c] = "loadFailed"
    /\ LoadLists(c)
    /\ Goto(c, "saveFailed")
    /\ UNCHANGED <<redis, paused, op, cur, todo, seenPhase, env, hist, bounds>>

SaveFailed(c) ==
    /\ pc[c] = "saveFailed"
    /\ SaveLists(c, MarkFailed(snap[c], cur[c]))
    /\ Goto(c, "saveError")
    /\ UNCHANGED <<paused, op, cur, todo, seenPhase, env, hist, bounds>>

\* The error message is another HSET; the handler then blocks the dependents.
SaveError(c) ==
    /\ pc[c] = "saveError"
    /\ ttl' = TtlAfterHset
    /\ todo' = [todo EXCEPT ![c] = Blocking(cur[c])]
    /\ Goto(c, IF Blocking(cur[c]) = {} THEN "idle" ELSE "loadBlocked")
    /\ UNCHANGED <<lists, phase, hasGraph, paused, op, cur, snap, seenPhase, env,
                   hist, bounds>>

\* mark_task_blocked for the next task of task.blocking.
LoadBlocked(c) ==
    /\ pc[c] = "loadBlocked"
    /\ \E u \in todo[c] : /\ cur' = [cur EXCEPT ![c] = u]
                          /\ todo' = [todo EXCEPT ![c] = @ \ {u}]
    /\ LoadLists(c)
    /\ Goto(c, "saveBlocked")
    /\ UNCHANGED <<redis, paused, op, seenPhase, env, hist, bounds>>

SaveBlocked(c) ==
    /\ pc[c] = "saveBlocked"
    /\ SaveLists(c, MarkBlocked(snap[c], cur[c]))
    /\ Goto(c, IF todo[c] = {} THEN "idle" ELSE "loadBlocked")
    /\ UNCHANGED <<paused, op, cur, todo, seenPhase, env, hist, bounds>>

-----------------------------------------------------------------------------
(* Control requests.                                                        *)

Request(c, name) ==
    /\ c \in Apis /\ pc[c] = "idle"
    /\ name \in Ops /\ apiCalls < MaxApiCalls
    /\ apiCalls' = apiCalls + 1
    /\ op' = [op EXCEPT ![c] = name]
    /\ UNCHANGED <<cur, snap, todo, seenPhase, redeliveries, raises, echoes>>

\* start_workflow: initialize_state overwrites the record ...
StartWorkflow(c) ==
    /\ Request(c, "start")
    /\ lists' = Blank /\ phase' = "execution" /\ hasGraph' = TRUE
    /\ ttl' = TtlAfterHset
    /\ aborted' = FALSE
    /\ Goto(c, "expire")
    /\ UNCHANGED <<paused, env, sent, succeeded, everFailed, published, errors>>

\* ... gives it an expiry ...
SetExpiry(c) ==
    /\ pc[c] = "expire"
    /\ ttl' = IF ttl = "absent" THEN ttl ELSE "expiring"
    /\ Goto(c, "setPhase")
    /\ UNCHANGED <<lists, phase, hasGraph, paused, locals, env, hist, bounds>>

\* ... sets the phase ...
SetExecutionPhase(c) ==
    /\ pc[c] = "setPhase" /\ op[c] = "start"
    /\ phase' = "execution"
    /\ ttl' = TtlAfterHset
    /\ Goto(c, "ready")
    /\ UNCHANGED <<lists, hasGraph, paused, locals, env, hist, bounds>>

\* ... and dispatches every ready task with one gather: dispatch_task never
\* suspends, so the messages leave together.  What was accepted is marked
\* running afterwards, one task at a time.
GatherDispatch(c) ==
    /\ pc[c] = "gather"
    /\ \E accepted \in IF BrokerMayFail THEN SUBSET todo[c] ELSE {todo[c]} :
        /\ \A t \in accepted : sent[t] < MaxSends
        /\ sent' = [t \in Tasks |-> IF t \in accepted THEN sent[t] + 1 ELSE sent[t]]
        /\ inflight' = [t \in Tasks |-> IF t \in accepted THEN inflight[t] + 1
                                                          ELSE inflight[t]]
        /\ refused' = refused \cup (todo[c] \ accepted)
        /\ todo' = [todo EXCEPT ![c] = accepted]
        /\ Goto(c, DispatchNext(c, accepted))
    /\ UNCHANGED <<redis, paused, op, cur, snap, seenPhase, events, succeeded,
                   everFailed, published, aborted, unmarked, bounds>>

StartLoadRunning(c) ==
    /\ pc[c] = "startLoad"
    /\ \E t \in todo[c] : /\ cur' = [cur EXCEPT ![c] = t]
                          /\ todo' = [todo EXCEPT ![c] = @ \ {t}]
    /\ LoadLists(c)
    /\ Goto(c, "saveRunning")
    /\ UNCHANGED <<redis, paused, op, seenPhase, env, hist, bounds>>

PauseWorkflow(c) ==
    /\ Request(c, "pause")
    /\ paused' = TRUE
    /\ UNCHANGED <<redis, pc, env, hist>>

ResumeWorkflow(c) ==
    /\ Request(c, "resume")
    /\ paused' = FALSE
    /\ Goto(c, "loadState")
    /\ UNCHANGED <<redis, env, hist>>

\* abort_workflow: forget the pause, then delete the key.
AbortWorkflow(c) ==
    /\ Request(c, "abort")
    /\ paused' = FALSE
    /\ Goto(c, "delete")
    /\ UNCHANGED <<redis, env, hist>>

\* The record that get_state returns when there is no key.
Forget ==
    /\ lists' = Blank /\ phase' = "intent" /\ hasGraph' = FALSE
    /\ ttl' = "absent"

CleanupState(c) ==
    /\ pc[c] = "delete"
    /\ Forget
    /\ aborted' = TRUE
    /\ Goto(c, "idle")
    /\ UNCHANGED <<paused, locals, env, sent, succeeded, everFailed, published,
                   errors, bounds>>

-----------------------------------------------------------------------------
(* Time and the other processes.                                            *)

\* A call to Redis raises, before it has changed anything.  The loops of the
\* completion handler and of resume catch what mark_task_running raises as
\* they catch what the dispatch raises, although the message has been sent:
\* the one takes its next task, the other gives up.  Anywhere else the
\* exception ends the coroutine; start leaves all it has not marked yet.
CallRaises(c) ==
    /\ pc[c] \in MayRaise /\ raises < MaxRaises
    /\ raises' = raises + 1
    /\ unmarked' = [t \in Tasks |-> IF ToMark(c, t) THEN unmarked[t] + 1
                                                  ELSE unmarked[t]]
    /\ Goto(c, IF pc[c] \in {"loadRunning", "saveRunning"} /\ op[c] = "completed"
               THEN DispatchNext(c, todo[c]) ELSE "idle")
    /\ UNCHANGED <<redis, paused, locals, env, sent, succeeded, everFailed,
                   published, aborted, refused, apiCalls, redeliveries, echoes>>

\* The key's TTL runs out (seven days after start, or a day after Housekeep).
Expire ==
    /\ "expire" \in Ops /\ ttl = "expiring"
    /\ Forget
    /\ UNCHANGED <<paused, pc, locals, env, hist, bounds>>

\* Mutant: the cleanup job passes over the keys that have no expiry.
HousekeepPassesOver ==
    /\ "expire" \in Ops /\ ttl = "expiring"
    /\ UNCHANGED vars

\* cleanup_expired_sessions gives a key without expiry one day.
Housekeep ==
    /\ "expire" \in Ops /\ ttl = "persistent"
    /\ ttl' = "expiring"
    /\ UNCHANGED <<lists, phase, hasGraph, paused, pc, locals, env, hist, bounds>>

\* The engine's process dies and is restarted: its coroutines and its set of
\* paused projects are gone, Redis and Celery keep what they have.
Crash ==
    /\ "crash" \in Ops /\ apiCalls < MaxApiCalls
    /\ apiCalls' = apiCalls + 1
    /\ paused' = FALSE
    /\ pc' = [c \in Coros |-> "idle"]
    /\ UNCHANGED <<redis, locals, env, hist, redeliveries, raises, echoes>>

\* A worker ends a message and the outcome comes back as a task event.  With
\* acks_late the message of a worker that is lost is run again.
WorkerOutcome(t, k) ==
    /\ inflight[t] > 0
    /\ k = "failed" => t \in MayFail
    /\ QuietApi => \A c \in Apis : pc[c] = "idle"
    /\ events' = [events EXCEPT ![k][t] = @ + 1]
    /\ succeeded'  = IF k = "completed" THEN succeeded \cup {t} ELSE succeeded
    /\ everFailed' = IF k = "failed" THEN everFailed \cup {t} ELSE everFailed
    /\ UNCHANGED <<redis, paused, pc, locals, sent, published, aborted, errors,
                   apiCalls, raises, echoes>>

WorkerDone(t, k) ==
    /\ WorkerOutcome(t, k)
    /\ inflight' = [inflight EXCEPT ![t] = @ - 1]
    /\ UNCHANGED redeliveries

WorkerRedelivered(t, k) ==
    /\ redeliveries < MaxRedeliveries
    /\ redeliveries' = redeliveries + 1
    /\ WorkerOutcome(t, k)
    /\ UNCHANGED inflight

-----------------------------------------------------------------------------
CompletedHandler(c) ==
    \/ SaveCompleted(c) \/ SaveArtifacts(c) \/ CheckPaused(c) \/ CheckPhase(c)
    \/ AdvancePhase(c) \/ PublishPhase(c)

FailedHandler(c) ==
    \/ PublishFailure(c) \/ LoadFailed(c) \/ SaveFailed(c) \/ SaveError(c)
    \/ LoadBlocked(c) \/ SaveBlocked(c)

DispatchLoop(c) ==
    \/ LoadState(c) \/ GetReadyTasks(c) \/ DispatchTask(c) \/ DispatchFails(c)
    \/ LoadRunning(c) \/ SaveRunning(c)

StartSteps(c) ==
    \/ SetExpiry(c) \/ SetExecutionPhase(c) \/ GatherDispatch(c)
    \/ StartLoadRunning(c)

\* A coroutine that was begun goes on until it returns.
Resumed(c) == \/ CompletedHandler(c) \/ FailedHandler(c) \/ DispatchLoop(c)
              \/ StartSteps(c) \/ CleanupState(c) \/ CallRaises(c)

Handle(c) == OnTaskCompleted(c) \/ OnTaskFailed(c)

Control(c) == \/ StartWorkflow(c) \/ PauseWorkflow(c)
              \/ ResumeWorkflow(c) \/ AbortWorkflow(c)

Worker(t) == \E k \in Outcomes : WorkerDone(t, k) \/ WorkerRedelivered(t, k)

Next == \/ \E c \in Coros : Handle(c) \/ Control(c) \/ Resumed(c)
        \/ \E t \in Tasks : Worker(t)
        \/ Expire \/ Housekeep \/ Crash

Spec == Init /\ [][Next]_vars

\* The event loop resumes every suspended coroutine, a listener takes the
\* next event, Celery's time limit ends every task and the cleanup job runs
\* every hour.  Control requests and crashes need not happen.
FairSpec == /\ Spec
            /\ \A c \in Coros : WF_vars(Resumed(c)) /\ WF_vars(Handle(c))
            /\ \A t \in Tasks : WF_vars(\E k \in Outcomes : WorkerDone(t, k))
            /\ WF_vars(Housekeep) /\ WF_vars(Expire)
=============================================================================
