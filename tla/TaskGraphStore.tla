---------------------------- MODULE TaskGraphStore ----------------------------
(***************************************************************************)
(* The stored task graph and the failures of its tasks: the row of         *)
(* forge_task_graphs, which update_task_status (task_graph.py) loads,      *)
(* changes and stores without a lock, and RetryManager                     *)
(* (retry_manager.py), which decides what a failure leads to.              *)
(*                                                                         *)
(* One process per task: the worker that reports its progress through the  *)
(* API (graph_router.py) and calls the retry manager when it fails.  The   *)
(* delay of a retry, the error texts and the time stamps are left out.     *)
(***************************************************************************)
EXTENDS Naturals, FiniteSets

CONSTANTS
    Tasks,
    Edges,         \* the dependencies of each task, one function per graph
    MaxRetries,    \* policy.max_retries of the agent of each task
    Critical,      \* the tasks of the agents in policy.critical_agent_types
    ByCelery,      \* the tasks whose retry is given celery_app
    MaxDbErrors    \* bound: the statements the database refuses

ASSUME StoreAssumption ==
    /\ IsFiniteSet(Tasks)
    /\ \A deps \in Edges : deps \in [Tasks -> SUBSET Tasks]
    /\ MaxRetries \in [Tasks -> Nat]
    /\ Critical \subseteq Tasks /\ ByCelery \subseteq Tasks
    /\ MaxDbErrors \in Nat

Statuses == {"pending", "running", "retrying", "completed", "failed", "blocked"}

VARIABLES
    deps,       \* the edges of the graph
    row,        \* the stored graph: [status, completed, failed]
    pc,         \* where the worker of each task is
    update,     \* its update in flight: [task, status, then]
    copy,       \* the graph that update loaded
    count,      \* retry_count of the task object the worker holds
    graph,      \* the statuses in the TaskGraph given to handle_permanent_failure
    toProcess, visited,     \* the search of _block_downstream_tasks
    announced,  \* the permanent failures published of each task
    outcome,    \* what became of each task, whatever the row says
    lost,       \* some update stored a graph that had changed since it was loaded
    dbErrors

vars == <<deps, row, pc, update, copy, count, graph, toProcess, visited,
          announced, outcome, lost, dbErrors>>

retrying == <<count, announced, outcome>>
blocking == <<graph, toProcess, visited>>

\* TaskNode.blocking, the other end of every edge.
Blocking(t) == {u \in Tasks : t \in deps[u]}

NoUpdate(t) == [task |-> t, status |-> "pending", then |-> "waiting"]

Init ==
    /\ deps \in Edges
    /\ row = [status |-> [t \in Tasks |-> "pending"], completed |-> 0, failed |-> 0]
    /\ pc = [t \in Tasks |-> "waiting"]
    /\ update = [t \in Tasks |-> NoUpdate(t)]
    /\ copy = [t \in Tasks |-> row]
    /\ count = [t \in Tasks |-> 0]
    /\ graph = [t \in Tasks |-> row.status]
    /\ toProcess = [t \in Tasks |-> {}]
    /\ visited = [t \in Tasks |-> {}]
    /\ announced = [t \in Tasks |-> 0]
    /\ outcome = [t \in Tasks |-> "open"]
    /\ lost = FALSE /\ dbErrors = 0

Goto(t, label) == pc' = [pc EXCEPT ![t] = label]

\* The worker of t calls update_task_status(u, s) and then goes on at label.
CallUpdate(t, u, s, label) ==
    /\ update' = [update EXCEPT ![t] = [task |-> u, status |-> s, then |-> label]]
    /\ Goto(t, "load")

-----------------------------------------------------------------------------
(* update_task_status: load_graph, the change, persist_graph.               *)

\* Mutant: the aggregates are computed before the status is set.
ChangedCountedEarly(g, u, s) ==
    [status    |-> [g.status EXCEPT ![u] = s],
     completed |-> Cardinality({t \in Tasks : g.status[t] = "completed"}),
     failed    |-> Cardinality({t \in Tasks : g.status[t] = "failed"})]

Changed(g, u, s) ==
    LET status == [g.status EXCEPT ![u] = s]
    IN  [status    |-> status,
         completed |-> Cardinality({t \in Tasks : status[t] = "completed"}),
         failed    |-> Cardinality({t \in Tasks : status[t] = "failed"})]

LoadGraph(t) ==
    /\ pc[t] = "load"
    /\ copy' = [copy EXCEPT ![t] = row]
    /\ Goto(t, "store")
    /\ UNCHANGED <<deps, row, update, retrying, blocking, lost, dbErrors>>

PersistGraph(t) ==
    /\ pc[t] = "store"
    /\ row' = Changed(copy[t], update[t].task, update[t].status)
    /\ lost' = (lost \/ row # copy[t])
    /\ Goto(t, update[t].then)
    /\ UNCHANGED <<deps, update, copy, retrying, blocking, dbErrors>>

\* The database refuses a statement: the error is no OrchestrationError, so
\* the retry manager does not catch it and whatever was left to do is not done.
DatabaseError(t) ==
    /\ pc[t] \in {"load", "store"} /\ dbErrors < MaxDbErrors
    /\ dbErrors' = dbErrors + 1
    /\ Goto(t, "aborted")
    /\ UNCHANGED <<deps, row, update, copy, retrying, blocking, lost>>

-----------------------------------------------------------------------------
(* The worker of a task.                                                    *)

\* Mutant: a dependency that failed no longer holds a task back.
ReadyTasksAfterFailure(g) ==
    {t \in Tasks : /\ g.status[t] = "pending"
                   /\ \A d \in deps[t] : g.status[d] \in {"completed", "failed"}}

\* get_ready_tasks on the stored graph; a task to be retried is never ready.
ReadyTasks(g) ==
    {t \in Tasks : /\ g.status[t] = "pending"
                   /\ \A d \in deps[t] : g.status[d] = "completed"}

\* GET /ready listed the task: it is dispatched once, and reports that it runs.
Start(t) ==
    /\ pc[t] = "waiting" /\ t \in ReadyTasks(row)
    /\ CallUpdate(t, t, "running", "running")
    /\ UNCHANGED <<deps, row, copy, retrying, blocking, lost, dbErrors>>

Succeed(t) ==
    /\ pc[t] = "running"
    /\ outcome' = [outcome EXCEPT ![t] = "completed"]
    /\ CallUpdate(t, t, "completed", "done")
    /\ UNCHANGED <<deps, row, copy, count, announced, blocking, lost, dbErrors>>

-----------------------------------------------------------------------------
(* RetryManager: the use its module names, should_retry and then one of     *)
(* schedule_retry and handle_permanent_failure.                             *)

ShouldRetry(t, retryable) == count[t] < MaxRetries[t] /\ retryable

\* Mutant: the task is sent again as it was before the failure.
ScheduleRetryFresh(t) ==
    /\ pc[t] = "running" /\ ShouldRetry(t, TRUE)
    /\ CallUpdate(t, t, "retrying", "resend")
    /\ UNCHANGED <<deps, row, copy, count, announced, outcome, blocking, lost, dbErrors>>

\* A transient error with retries left: counted on the object, published, stored.
ScheduleRetry(t) ==
    /\ pc[t] = "running" /\ ShouldRetry(t, TRUE)
    /\ count' = [count EXCEPT ![t] = @ + 1]
    /\ CallUpdate(t, t, "retrying", "resend")
    /\ UNCHANGED <<deps, row, copy, announced, outcome, blocking, lost, dbErrors>>

\* The end of schedule_retry.  Without celery_app the caller sends the object
\* again.  With it the message names a task that no worker has registered
\* (the registered name is forge.execute_agent_task), and is discarded.
Resend(t) ==
    /\ pc[t] = "resend"
    /\ IF t \in ByCelery
       THEN Goto(t, "discarded") /\ UNCHANGED update
       ELSE CallUpdate(t, t, "running", "running")
    /\ UNCHANGED <<deps, row, copy, retrying, blocking, lost, dbErrors>>

\* No retry: stored as failed.  The TaskGraph passed along was loaded before.
HandlePermanentFailure(t) ==
    /\ pc[t] = "running"
    /\ \E retryable \in BOOLEAN : ~ShouldRetry(t, retryable)
    /\ outcome' = [outcome EXCEPT ![t] = "failed"]
    /\ graph' = [graph EXCEPT ![t] = [row.status EXCEPT ![t] = "failed"]]
    /\ CallUpdate(t, t, "failed", "publish")
    /\ UNCHANGED <<deps, row, copy, count, announced, toProcess, visited, lost, dbErrors>>

PublishFailure(t) ==
    /\ pc[t] = "publish"
    /\ announced' = [announced EXCEPT ![t] = @ + 1]
    /\ toProcess' = [toProcess EXCEPT ![t] = Blocking(t)]
    /\ Goto(t, "block")
    /\ UNCHANGED <<deps, row, update, copy, count, outcome, graph, visited, lost, dbErrors>>

\* Mutant: only the tasks that wait for the failed one are blocked.
FollowersNone(t, u) == {}

\* What one popped task adds to the search.
Followers(t, u) == Blocking(u) \ (visited[t] \cup {u})

\* One turn of _block_downstream_tasks: the task is blocked in the graph at
\* hand and in the row, unless the graph at hand says that it has ended.
BlockNext(t, u) ==
    /\ pc[t] = "block" /\ u \in toProcess[t]
    /\ visited' = [visited EXCEPT ![t] = @ \cup {u}]
    /\ toProcess' = [toProcess EXCEPT ![t] = (@ \ {u}) \cup Followers(t, u)]
    /\ IF graph[t][u] \in {"completed", "failed"}
       THEN UNCHANGED <<graph, update, pc>>
       ELSE /\ graph' = [graph EXCEPT ![t][u] = "blocked"]
            /\ CallUpdate(t, u, "blocked", "block")
    /\ UNCHANGED <<deps, row, copy, retrying, lost, dbErrors>>

\* _trigger_alert publishes a second permanent failure of a critical agent.
EndBlocking(t) ==
    /\ pc[t] = "block" /\ toProcess[t] = {}
    /\ announced' = [announced EXCEPT ![t] = IF t \in Critical THEN @ + 1 ELSE @]
    /\ Goto(t, "done")
    /\ UNCHANGED <<deps, row, update, copy, count, outcome, blocking, lost, dbErrors>>

-----------------------------------------------------------------------------

Worker(t) ==
    \/ Start(t) \/ Succeed(t)
    \/ LoadGraph(t) \/ PersistGraph(t)
    \/ ScheduleRetry(t) \/ Resend(t)
    \/ HandlePermanentFailure(t) \/ PublishFailure(t)
    \/ \E u \in Tasks : BlockNext(t, u)
    \/ EndBlocking(t)

Next == \E t \in Tasks : Worker(t) \/ DatabaseError(t)

\* A worker that has begun goes on: its statements return, its agent ends.
Spec == Init /\ [][Next]_vars /\ \A t \in Tasks : WF_vars(Worker(t))
===============================================================================
