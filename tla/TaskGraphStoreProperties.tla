----------------------- MODULE TaskGraphStoreProperties -----------------------
(***************************************************************************)
(* What the stored graph and the retry manager must keep to, with updates  *)
(* that overwrite each other and a database that fails.                    *)
(***************************************************************************)
EXTENDS TaskGraphStore

Graph == [status : [Tasks -> Statuses],
          completed : 0..Cardinality(Tasks), failed : 0..Cardinality(Tasks)]

Aggregates(g) ==
    /\ g.completed = Cardinality({t \in Tasks : g.status[t] = "completed"})
    /\ g.failed = Cardinality({t \in Tasks : g.status[t] = "failed"})

\* Every variable keeps its type.
TypeOK ==
    /\ deps \in Edges
    /\ row \in Graph
    /\ pc \in [Tasks -> {"waiting", "load", "store", "running", "resend", "publish",
                         "block", "done", "discarded", "aborted"}]
    /\ update \in [Tasks -> [task : Tasks, status : Statuses,
                             then : {"waiting", "running", "resend", "publish", "block", "done"}]]
    /\ copy \in [Tasks -> Graph]
    /\ count \in [Tasks -> Nat] /\ \A t \in Tasks : count[t] <= MaxRetries[t]
    /\ graph \in [Tasks -> [Tasks -> Statuses]]
    /\ toProcess \in [Tasks -> SUBSET Tasks] /\ visited \in [Tasks -> SUBSET Tasks]
    /\ announced \in [Tasks -> 0..2]
    /\ outcome \in [Tasks -> {"open", "completed", "failed"}]
    /\ lost \in BOOLEAN /\ dbErrors \in 0..MaxDbErrors

\* A task that has been dispatched had all its dependencies complete in fact,
\* even when the row it was dispatched from had lost updates: an update lost
\* can hold a task back, it cannot let one run early or below a failure.
StartsAfterDependencies ==
    \A t \in Tasks : pc[t] # "waiting" => \A d \in deps[t] : outcome[d] = "completed"

\* The tasks that depend on t, directly or not: those in every set that holds
\* the tasks t blocks and, with a task, the tasks it blocks.
Downstream(t) ==
    {u \in Tasks : \A S \in SUBSET Tasks :
        (Blocking(t) \subseteq S /\ \A v \in S : Blocking(v) \subseteq S) => u \in S}

\* While no update has been overwritten the row tells the truth: a worker that
\* is done stored what became of its task, all that depends on a permanent
\* failure is blocked when its handling has ended, and a task is blocked only
\* below one.  Whatever was overwritten, its aggregates are those of its own
\* statuses (update_task_status).
SerialRowIsTrue ==
    /\ Aggregates(row)
    /\ ~lost =>
        /\ \A t \in Tasks : pc[t] = "done" => row.status[t] = outcome[t]
        /\ \A t \in Tasks : pc[t] = "done" /\ outcome[t] = "failed" =>
                \A u \in Downstream(t) : row.status[u] = "blocked"
        /\ \A u \in Tasks : row.status[u] = "blocked" =>
                \E t \in Tasks : outcome[t] = "failed" /\ u \in Downstream(t)

\* A dispatched task comes to an end however often it fails: the budget of its
\* policy ends the retries.  The ways not to get there are a database error and
\* a retry sent through Celery, which no worker runs.
EveryDispatchSettles ==
    \A t \in Tasks : pc[t] = "running" ~> pc[t] \in {"done", "discarded", "aborted"}
===============================================================================
