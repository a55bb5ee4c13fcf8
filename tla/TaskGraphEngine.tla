--------------------------- MODULE TaskGraphEngine ---------------------------
(***************************************************************************)
(* The algorithms of TaskGraphEngine (task_graph.py) on the tasks of a     *)
(* graph: Kahn's sort into levels, which also decides whether there is a   *)
(* cycle, the critical path and the duration estimate, in the order        *)
(* generate calls them.  One step is one iteration of a loop of the code.  *)
(*                                                                         *)
(* The queue, a level and the lists of a task are sets: their order only   *)
(* breaks ties, and here every way to break a tie is taken.  generate      *)
(* repeats the sort for each result; it is deterministic and runs once.    *)
(***************************************************************************)
EXTENDS Naturals, Sequences, FiniteSets

CONSTANT Graphs   \* the graphs to sort: records [tasks, deps, minutes]

ASSUME GraphsAssumption ==
    \A g \in Graphs :
        /\ IsFiniteSet(g.tasks)
        /\ g.deps \in [g.tasks -> SUBSET g.tasks]
        /\ g.minutes \in [g.tasks -> Nat \ {0}]

VARIABLES
    graph,                         \* the graph that was given
    pc,                            \* the loop the algorithm is in
    inDegree, queue, nextQueue,    \* Kahn's sort
    level, levels, processed,
    earliestFinish, path,          \* the critical path
    cursor, total                  \* the level a pass has reached; the estimate

vars == <<graph, pc, inDegree, queue, nextQueue, level, levels, processed,
          earliestFinish, path, cursor, total>>

sorting == <<inDegree, queue, nextQueue, level, levels, processed>>

\* TaskNode.blocking: _add_deps records every edge at both of its ends.
Blocking(g, t) == {u \in g.tasks : t \in g.deps[u]}

Largest(S) == CHOOSE m \in S : \A n \in S : n <= m

Init ==
    /\ graph \in Graphs
    /\ pc = "sort"
    /\ inDegree = [t \in graph.tasks |-> Cardinality(graph.deps[t])]
    /\ queue = {t \in graph.tasks : inDegree[t] = 0}
    /\ nextQueue = {} /\ level = {} /\ levels = <<>> /\ processed = 0
    /\ earliestFinish = [t \in graph.tasks |-> 0]
    /\ path = <<>> /\ cursor = 1 /\ total = 0

-----------------------------------------------------------------------------
(* _topological_sort                                                        *)

\* Mutant: a task is released as soon as one dependency is placed.
DrainReleasesEarly(t) ==
    /\ pc = "sort" /\ t \in queue
    /\ queue' = queue \ {t}
    /\ level' = level \cup {t}
    /\ processed' = processed + 1
    /\ inDegree' = [u \in graph.tasks |->
                      IF u \in Blocking(graph, t) THEN inDegree[u] - 1 ELSE inDegree[u]]
    /\ nextQueue' = nextQueue \cup Blocking(graph, t)
    /\ UNCHANGED <<graph, pc, levels, earliestFinish, path, cursor, total>>

\* One task of the wave: it joins the level and releases what it blocks.
Drain(t) ==
    /\ pc = "sort" /\ t \in queue
    /\ queue' = queue \ {t}
    /\ level' = level \cup {t}
    /\ processed' = processed + 1
    /\ inDegree' = [u \in graph.tasks |->
                      IF u \in Blocking(graph, t) THEN inDegree[u] - 1 ELSE inDegree[u]]
    /\ nextQueue' = nextQueue \cup {u \in Blocking(graph, t) : inDegree'[u] = 0}
    /\ UNCHANGED <<graph, pc, levels, earliestFinish, path, cursor, total>>

\* The wave is drained: the level is complete and the next wave begins.
EndWave ==
    /\ pc = "sort" /\ queue = {} /\ level # {}
    /\ levels' = Append(levels, level)
    /\ level' = {}
    /\ queue' = nextQueue /\ nextQueue' = {}
    /\ UNCHANGED <<graph, pc, inDegree, processed, earliestFinish, path, cursor, total>>

\* Mutant: the sort returns what it has placed.
EndSortUnchecked ==
    /\ pc = "sort" /\ queue = {} /\ level = {}
    /\ pc' = "finish"
    /\ UNCHANGED <<graph, sorting, earliestFinish, path, cursor, total>>

\* No wave is left: every task was reached, or there is a cycle.
EndSort ==
    /\ pc = "sort" /\ queue = {} /\ level = {}
    /\ pc' = IF processed = Cardinality(graph.tasks) THEN "finish" ELSE "raised"
    /\ UNCHANGED <<graph, sorting, earliestFinish, path, cursor, total>>

-----------------------------------------------------------------------------
(* _find_critical_path                                                      *)

LatestFinish(S) == Largest({0} \cup {earliestFinish[d] : d \in S})

\* Mutant: the path counts tasks, not minutes.
FinishLevelByHops ==
    /\ pc = "finish" /\ cursor <= Len(levels)
    /\ earliestFinish' = [t \in graph.tasks |->
            IF t \in levels[cursor]
            THEN LatestFinish(graph.deps[t]) + 1
            ELSE earliestFinish[t]]
    /\ cursor' = cursor + 1
    /\ UNCHANGED <<graph, pc, sorting, path, total>>

\* The forward pass over one level.
FinishLevel ==
    /\ pc = "finish" /\ cursor <= Len(levels)
    /\ earliestFinish' = [t \in graph.tasks |->
            IF t \in levels[cursor]
            THEN LatestFinish(graph.deps[t]) + graph.minutes[t]
            ELSE earliestFinish[t]]
    /\ cursor' = cursor + 1
    /\ UNCHANGED <<graph, pc, sorting, path, total>>

\* The path ends at a task that finishes last; no task, no path.
EndPath ==
    /\ pc = "finish" /\ cursor > Len(levels)
    /\ IF graph.tasks = {}
       THEN path' = <<>> /\ pc' = "estimate"
       ELSE /\ \E t \in graph.tasks :
                  /\ earliestFinish[t] = LatestFinish(graph.tasks)
                  /\ path' = <<t>>
            /\ pc' = "trace"
    /\ cursor' = 1
    /\ UNCHANGED <<graph, sorting, earliestFinish, total>>

\* predecessor: a dependency that finishes last.
Trace(d) ==
    /\ pc = "trace" /\ d \in graph.deps[path[1]]
    /\ earliestFinish[d] = LatestFinish(graph.deps[path[1]])
    /\ path' = <<d>> \o path
    /\ UNCHANGED <<graph, pc, sorting, earliestFinish, cursor, total>>

EndTrace ==
    /\ pc = "trace" /\ graph.deps[path[1]] = {}
    /\ pc' = "estimate"
    /\ UNCHANGED <<graph, sorting, earliestFinish, path, cursor, total>>

-----------------------------------------------------------------------------
(* _estimate_duration                                                       *)

\* Mutant: a level takes as long as its shortest task.
EstimateLevelByShortest ==
    /\ pc = "estimate" /\ cursor <= Len(levels)
    /\ total' = total + (CHOOSE m \in {graph.minutes[t] : t \in levels[cursor]} :
                            \A t \in levels[cursor] : m <= graph.minutes[t])
    /\ cursor' = cursor + 1
    /\ UNCHANGED <<graph, pc, sorting, earliestFinish, path>>

EstimateLevel ==
    /\ pc = "estimate" /\ cursor <= Len(levels)
    /\ total' = total + Largest({graph.minutes[t] : t \in levels[cursor]})
    /\ cursor' = cursor + 1
    /\ UNCHANGED <<graph, pc, sorting, earliestFinish, path>>

EndEstimate ==
    /\ pc = "estimate" /\ cursor > Len(levels)
    /\ pc' = "done"
    /\ UNCHANGED <<graph, sorting, earliestFinish, path, cursor, total>>

-----------------------------------------------------------------------------

Next == \/ \E t \in graph.tasks : Drain(t) \/ Trace(t)
        \/ EndWave \/ EndSort
        \/ FinishLevel \/ EndPath \/ EndTrace
        \/ EstimateLevel \/ EndEstimate

Spec == Init /\ [][Next]_vars
===============================================================================
