------------------------ MODULE TaskGraphProperties --------------------------
(* What the graph algorithms promise, and what the engine relies on in the *)
(* graphs that are generated.                                              *)
EXTENDS TaskGraphEngine, TaskGraphGeneration

CONSTANT Plans   \* the architecture plans a graph is generated for

GeneratedGraphs == {Generate(plan) : plan \in Plans}
IsGenerated == graph \in GeneratedGraphs

Placed == UNION {levels[i] : i \in 1 .. Len(levels)}

\* The state has its type: in particular no in-degree is counted below zero,
\* however the edges meet, so that the test for zero is never jumped over.
TypeOK ==
    /\ graph \in Graphs
    /\ pc \in {"sort", "raised", "finish", "trace", "estimate", "done"}
    /\ inDegree \in [graph.tasks -> Nat]
    /\ queue \subseteq graph.tasks
    /\ nextQueue \subseteq graph.tasks
    /\ level \subseteq graph.tasks
    /\ levels \in Seq(SUBSET graph.tasks)
    /\ processed \in Nat
    /\ earliestFinish \in [graph.tasks -> Nat]
    /\ path \in Seq(graph.tasks)
    /\ cursor \in Nat \ {0}
    /\ total \in Nat

\* _topological_sort: "all their dependencies are in previous levels".  Tasks
\* of a level may run together, and the levels before it make them ready.
LevelsRespectDeps ==
    \A i \in 1 .. Len(levels) : \A t \in levels[i] :
        graph.deps[t] \subseteq UNION {levels[j] : j \in 1 .. i - 1}

\* _topological_sort raises exactly on a cycle.  The tasks it could not place
\* each wait for another of them, which no finite acyclic graph allows; and
\* when it returns it has placed every task, which no cyclic graph allows.
SortDecides ==
    /\ pc = "raised" =>
          LET stuck == graph.tasks \ Placed
          IN  stuck # {} /\ \A t \in stuck : graph.deps[t] \cap stuck # {}
    /\ pc \notin {"sort", "raised"} => Placed = graph.tasks

\* A task is put in one level only, so that it is dispatched once.
OneLevelPerTask ==
    \A i, j \in 1 .. Len(levels) : i # j => levels[i] \cap levels[j] = {}

-----------------------------------------------------------------------------

IsChain(s) == \A i \in 1 .. Len(s) - 1 : s[i] \in graph.deps[s[i + 1]]

\* The minutes of the chain s.
Weight(s) ==
    LET sum[i \in 0 .. Len(s)] ==
            IF i = 0 THEN 0 ELSE sum[i - 1] + graph.minutes[s[i]]
    IN  sum[Len(s)]

\* The reference: the minutes of the longest chain that ends in t.
LongestTo[t \in graph.tasks] ==
    graph.minutes[t] + Largest({0} \cup {LongestTo[d] : d \in graph.deps[t]})

\* The minutes of a set of tasks, one after the other.
MinutesOf[S \in SUBSET graph.tasks] ==
    IF S = {} THEN 0
    ELSE LET t == CHOOSE t \in S : TRUE
         IN  graph.minutes[t] + MinutesOf[S \ {t}]

\* estimated_duration_minutes is documented as the sum along the critical path
\* (task_schemas.py:211), but _estimate_duration adds up the longest task of each
\* level.  For the graphs the engine generates, the only ones it estimates, the
\* two are the same.  They are not for every graph: where the longest task of a
\* level is off the path the estimate is larger, and all that holds is that it
\* is no less than the path and no more than all tasks one by one.
EstimateCoversPath ==
    /\ IsGenerated => total = Weight(path)
    /\ total >= Weight(path)
    /\ total <= MinutesOf[graph.tasks]

\* _find_critical_path: the path starts at a task without dependencies, follows
\* dependencies, and no chain of the graph takes longer; the estimate that is
\* made next covers it, and is its sum if the graph was generated.  (The tasks
\* of a generated graph take a minute each, and a chain has a task in each
\* level; this spares TLC the reference, which follows every chain.)
CriticalPathLongest ==
    pc \in {"estimate", "done"} =>
        /\ IsChain(path)
        /\ graph.tasks # {} => path # <<>> /\ graph.deps[path[1]] = {}
        /\ IF IsGenerated THEN Len(path) = Len(levels)
           ELSE \A t \in graph.tasks : LongestTo[t] <= Weight(path)
        /\ pc = "done" => EstimateCoversPath

-----------------------------------------------------------------------------
(* Generated graphs.                                                        *)

\* The edge rules are acyclic together, whatever the services are named:
\* generate never raises "Cycle detected".
GenerationNeverRaises == IsGenerated => pc # "raised"

PhaseSequence == <<"specification", "architecture", "execution",
                   "verification", "deployment">>

\* Every task of a phase is in an earlier level than every task of the next:
\* the phases are barriers, which advance_phase of the engine relies on.
PhasesInOrder ==
    IsGenerated =>
        \A i, j \in 1 .. Len(levels) : i <= j =>
            \A t \in levels[i], d \in levels[j] :
                \E m, n \in DOMAIN PhaseSequence :
                    /\ t.phase = PhaseSequence[m] /\ d.phase = PhaseSequence[n]
                    /\ IF i = j THEN m = n ELSE m <= n
===============================================================================
