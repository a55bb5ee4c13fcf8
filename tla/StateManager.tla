---------------------------- MODULE StateManager ----------------------------
(***************************************************************************)
(* The execution state that system/core/orchestration/state_manager.py     *)
(* keeps for one project in the Redis hash FORGE:STATE:{project_id}, as    *)
(* operators on its values.  The hash has four task lists, which only      *)
(* _save_lists writes and always together, a phase, and metadata that the  *)
(* engine reads only to find the graph id.  A list never holds a task      *)
(* twice (every append is guarded by "not in"), and nothing reads the      *)
(* order of its elements, so a list is the set of its tasks.               *)
(*                                                                         *)
(* Each mark_task_* method is a get_state followed, after an await, by a   *)
(* _save_lists: WorkflowEngine takes the two as separate steps and applies *)
(* the operators below to the value that was read.                         *)
(***************************************************************************)
CONSTANTS Tasks,    \* the task ids of the project's TaskGraph
          Deps,     \* TaskNode.dependencies
          PhaseOf   \* TaskNode.phase

Phases == {"intent", "clarification", "specification", "architecture",
           "task_graph", "agent_assignment", "execution", "verification",
           "deployment", "monitoring", "iteration"}

\* TaskGraphEngine.validate_graph: a dependency names a task of the graph.
\* That the graph has no cycle is not needed by anything below.
ASSUME GraphAssumption == /\ Deps \in [Tasks -> SUBSET Tasks]
                          /\ PhaseOf \in [Tasks -> Phases]

ListNames == {"active", "completed", "failed", "blocked"}
Lists == [ListNames -> SUBSET Tasks]

\* ExecutionState() with no record in Redis, or a fresh one.
Blank == [n \in ListNames |-> {}]

-----------------------------------------------------------------------------
(* The mutations: remove the task from every other list, add it to one.     *)

\* Mutant: an update takes the task out of the active list only.
MoveToOnlyFromActive(l, t, n) ==
    [m \in ListNames |-> IF m = n THEN l[m] \cup {t}
                         ELSE IF m = "active" THEN l[m] \ {t} ELSE l[m]]

MoveTo(l, t, n) == [m \in ListNames |-> IF m = n THEN l[m] \cup {t}
                                                 ELSE l[m] \ {t}]

MarkRunning(l, t)   == MoveTo(l, t, "active")
\* Mutant: a completed task is left among the active ones.
MarkCompletedKeepsActive(l, t) == [l EXCEPT !["completed"] = @ \cup {t}]

MarkCompleted(l, t) == MoveTo(l, t, "completed")
MarkFailed(l, t)    == MoveTo(l, t, "failed")
MarkBlocked(l, t)   == MoveTo(l, t, "blocked")

-----------------------------------------------------------------------------
(* The queries.                                                             *)

InFlight(l) == UNION {l[n] : n \in ListNames}

\* What is_phase_complete counts as done with.
Terminal(l) == l["completed"] \cup l["failed"] \cup l["blocked"]

\* Mutant: the dependencies are not looked at.
CanStartAnyhow(t, completed) == TRUE

\* TaskNode.can_start
CanStart(t, completed) == Deps[t] \subseteq completed

\* Mutant: dependencies count as met once they are terminal.
ReadyOnTerminal(l) == {t \in Tasks : t \notin InFlight(l) /\ CanStart(t, Terminal(l))}

\* Mutant: a task that is active already counts as ready.
ReadyAgain(l) == {t \in Tasks : t \notin l["completed"] \cup l["failed"]
                                /\ CanStart(t, l["completed"])}

\* Nothing the engine does changes a persisted TaskNode's status, so the
\* status test of get_ready_tasks always sees "pending" here.
Ready(l) == {t \in Tasks : t \notin InFlight(l) /\ CanStart(t, l["completed"])}

\* Mutant: a phase is over when none of its tasks is active.
IsPhaseQuiet(l, p) == \A t \in Tasks : PhaseOf[t] = p => t \notin l["active"]

IsPhaseComplete(l, p) == \A t \in Tasks : PhaseOf[t] = p => t \in Terminal(l)

\* A value of the hash in which no task is in two lists.
OneList(l) == \A m, n \in ListNames : m # n => l[m] \cap l[n] = {}
=============================================================================
