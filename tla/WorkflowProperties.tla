------------------------- MODULE WorkflowProperties -------------------------
(***************************************************************************)
(* What the orchestration core promises, stated over WorkflowEngine.  The  *)
(* first group holds whatever interleaves with whatever; the second needs  *)
(* the regime in which control requests are over before workers answer and *)
(* one listener handles the events; the third is what the repository's own *)
(* texts say and the code does not do.                                     *)
(***************************************************************************)
EXTENDS WorkflowEngine

Labels == RedisCalls \cup {"idle", "checkPaused", "dispatch", "gather"}
OpNames == {"none", "completed", "failed", "start", "pause", "resume", "abort"}
BusEvents == ({"phase_completed"} \X Phases) \cup ({"task_failed"} \X Tasks)

\* The type of every variable.
TypeOK ==
    /\ lists \in Lists /\ phase \in Phases /\ hasGraph \in BOOLEAN
    /\ ttl \in {"absent", "persistent", "expiring"}
    /\ paused \in BOOLEAN
    /\ pc \in [Coros -> Labels]
    /\ op \in [Coros -> OpNames]
    /\ cur \in [Coros -> Tasks \cup {NoTask}]
    /\ snap \in [Coros -> Lists]
    /\ todo \in [Coros -> SUBSET Tasks]
    /\ seenPhase \in [Coros -> Phases]
    /\ inflight \in [Tasks -> Nat]
    /\ events \in [Outcomes -> [Tasks -> Nat]]
    /\ sent \in [Tasks -> Nat]
    /\ succeeded \in SUBSET Tasks /\ everFailed \in SUBSET Tasks
    /\ published \in SUBSET BusEvents /\ aborted \in BOOLEAN
    /\ unmarked \in [Tasks -> Nat] /\ refused \in SUBSET Tasks
    /\ apiCalls \in Nat /\ redeliveries \in Nat /\ raises \in Nat /\ echoes \in Nat

-----------------------------------------------------------------------------
(* Whatever the interleaving.                                               *)

\* No task is in two of the four lists at once, although every list update
\* is an unlocked read-modify-write that may overwrite another one
\* (state_manager.py, mark_task_* and _save_lists).
OneListPerTask == OneList(lists)

\* A task's message is sent only when every dependency of it has really
\* succeeded on a worker: neither lost updates, nor duplicated events, nor
\* an abort, a restart or a crash makes the engine run a task too early
\* (workflow_engine.py, on_task_completed and resume_workflow).
DependenciesFirst == \A t \in Tasks : sent[t] > 0 => Deps[t] \subseteq succeeded

\* When a phase is announced as completed, each of its tasks has succeeded,
\* has failed, or depends on a task that has failed (workflow_engine.py,
\* is_phase_complete and advance_phase): a stale view never announces a
\* phase that still has an untouched task.
Settled(t) == \/ t \in succeeded \cup everFailed
              \/ Deps[t] \cap everFailed # {}

PhaseEventSound ==
    \A p \in Phases : <<"phase_completed", p>> \in published =>
        \A t \in Tasks : PhaseOf[t] = p => Settled(t)

\* The engine implements the contract, which joins the two above: whatever
\* was lost, repeated or interleaved, what it sends and announces is what the
\* abstract pipeline could have started and announced.
Contract == INSTANCE PipelineContract WITH
    started   <- {t \in Tasks : sent[t] > 0},
    failed    <- everFailed,
    announced <- {p \in Phases : <<"phase_completed", p>> \in published}

ImplementsContract == Contract!Spec

\* A task is listed as blocked only if a dependency of it has failed, and a
\* task is listed as failed only after the failure was announced on the bus
\* (workflow_engine.py, on_task_failed).
FailureAccounted ==
    /\ \A t \in lists["blocked"] : Deps[t] \cap everFailed # {}
    /\ \A t \in lists["failed"] : t \in everFailed
                                  /\ <<"task_failed", t>> \in published

\* What an abort removes does not stay behind: a handler that was under way
\* may write the key again, without an expiry, but the hourly cleanup gives
\* it one and it goes (state_manager.py, cleanup_state; celery_app.py,
\* cleanup_expired_sessions).
AbortLeavesNothing == aborted ~> (ttl = "absent" \/ ~aborted)

-----------------------------------------------------------------------------
(* Workers slower than control requests, one listener.                      *)

\* A task is sent again only for a mark as running that was lost: dispatch and
\* mark are two calls in one try (workflow_engine.py:189-201, 249-266), and a
\* task whose mark raised stays ready.  Otherwise no task is sent twice, even
\* when Celery runs a message twice and its outcome is reported twice: a ready
\* task "is not currently active, completed, failed, or blocked"
\* (state_manager.py:257).
AtMostOneDispatch == \A t \in Tasks : sent[t] <= 1 + unmarked[t]

Quiescent == /\ \A c \in Coros : pc[c] = "idle"
             /\ \A k \in Outcomes, t \in Tasks : events[k][t] = 0

\* With nothing under way in the engine, a task listed as active is one that
\* a worker holds: no finished task stays active (state_manager.py,
\* mark_task_running and mark_task_completed).
NoGhostActive == Quiescent => \A t \in lists["active"] : inflight[t] > 0

\* The phase moves only along PHASE_TRANSITIONS, one phase at a time, except
\* that a start or the loss of the record sets it back.
PhaseStepwise ==
    [][phase' \in {PHASE_TRANSITIONS[phase], "execution", "intent"}]_phase

\* The tasks that a task depends on, directly or not.
Above[t \in Tasks] == Deps[t] \cup UNION {Above[u] : u \in Deps[t]}

\* A started workflow ends: every task has succeeded, has failed or is below
\* one that has failed, also when an outcome is reported twice or a mark is
\* lost; only a task that the broker refused and that was never sent since
\* may hold it up.  Without a failure it has left behind every phase that has
\* a task (workflow_engine.py, on_task_completed and advance_phase; a phase
\* without tasks is complete, so an extra event moves the phase on).
PipelineCompletes ==
    (\E c \in Apis : op[c] = "start") ~>
        \/ \E t \in refused : sent[t] = 0
        \/ /\ \A t \in Tasks : \/ t \in succeeded \cup everFailed
                               \/ Above[t] \cap everFailed # {}
           /\ everFailed = {} => \A t \in Tasks : phase # PhaseOf[t]

-----------------------------------------------------------------------------
(* Said by the repository, not done by the code.  AtMostOneDispatch above    *)
(* joins them as soon as a worker may answer before the control request that *)
(* dispatched it has returned.                                               *)

\* "In-flight tasks continue to completion; new tasks are not dispatched"
\* (workflow_engine.py:167): while the workflow is paused no task is sent,
\* but by a control request.
PauseHolds ==
    [][paused /\ (\A c \in Apis : pc'[c] = pc[c]) => sent' = sent]_vars

\* "Reacts to TaskCompletedEvent / TaskFailedEvent to advance the DAG"
\* (workflow_engine.py:5): a task whose dependencies have all succeeded is
\* eventually sent.
CompletionAdvances ==
    \A t \in Tasks : (Deps[t] # {} /\ Deps[t] \subseteq succeeded) ~> sent[t] > 0
=============================================================================
