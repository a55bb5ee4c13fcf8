--------------------------- MODULE TaskGraphProofs ---------------------------
(***************************************************************************)
(* The sort is right for every finite graph: the proof that its levels     *)
(* respect the dependencies, that no task is in two of them and that it    *)
(* raises exactly on a cycle.  The algorithm only counts: a task is        *)
(* released when a number reaches zero.  The invariant says what the       *)
(* number is (Degrees) and hence where the tasks with none left are        *)
(* (ZeroesFound).                                                          *)
(*                                                                         *)
(* Then the graphs that are generated, for every plan: a rank that falls   *)
(* along every dependency shows that they have no cycle, and the barriers  *)
(* keep the phases in order.  Last, the critical path of every finite      *)
(* graph.  What needs an induction takes the least counterexample instead. *)
(***************************************************************************)
EXTENDS TaskGraphProperties, FiniteSetTheorems, TLAPS

\* The tasks the sort has taken from a queue.
Done == Placed \cup level

SortTypes ==
    /\ graph \in Graphs
    /\ pc \in {"sort", "raised", "finish", "trace", "estimate", "done"}
    /\ inDegree \in [graph.tasks -> Nat]
    /\ queue \subseteq graph.tasks
    /\ nextQueue \subseteq graph.tasks
    /\ level \subseteq graph.tasks
    /\ levels \in Seq(SUBSET graph.tasks)

\* An in-degree is the number of dependencies not yet taken.
Degrees == \A t \in graph.tasks : inDegree[t] = Cardinality(graph.deps[t] \ Done)

\* Every task with no dependency left is taken or in a queue.
ZeroesFound == \A t \in graph.tasks :
                  inDegree[t] = 0 => t \in Done \cup queue \cup nextQueue

\* A task is in one place.
Apart == /\ queue \cap Done = {} /\ nextQueue \cap Done = {}
         /\ queue \cap nextQueue = {} /\ level \cap Placed = {}

\* What a task in a wave, and in the next one, depends on.
Released == /\ \A t \in queue \cup level : graph.deps[t] \subseteq Placed
            /\ \A t \in nextQueue : graph.deps[t] \subseteq Done

\* Where the loops stand.
Loops == /\ nextQueue # {} => level # {}
         /\ processed = Cardinality(Done)
         /\ pc # "sort" => queue = {} /\ level = {}
         /\ pc = "raised" => Placed # graph.tasks
         /\ pc \notin {"sort", "raised"} => Placed = graph.tasks

SortInvariant == /\ SortTypes /\ Degrees /\ ZeroesFound /\ Apart
                 /\ Released /\ Loops
                 /\ LevelsRespectDeps /\ OneLevelPerTask

-----------------------------------------------------------------------------

\* A graph is finite and its dependencies are among its tasks.
LEMMA GraphFinite ==
  ASSUME SortTypes
  PROVE  /\ IsFiniteSet(graph.tasks)
         /\ \A t \in graph.tasks : /\ graph.deps[t] \subseteq graph.tasks
                                   /\ IsFiniteSet(graph.deps[t])
BY GraphsAssumption, FS_Subset DEF SortTypes

\* The placed tasks are tasks, and finitely many.
LEMMA DoneFinite ==
  ASSUME SortTypes
  PROVE  Placed \subseteq graph.tasks /\ Done \subseteq graph.tasks /\ IsFiniteSet(Done)
<1>1. Placed \subseteq graph.tasks
  BY DEF SortTypes, Placed
<1>2. Done \subseteq graph.tasks
  BY <1>1 DEF SortTypes, Done
<1>3. QED  BY <1>1, <1>2, GraphFinite, FS_Subset

\* Completing a level places its tasks.
LEMMA PlacedAfterWave ==
  ASSUME SortTypes, levels' = Append(levels, level)
  PROVE  Placed' = Placed \cup level
<1>1. /\ Len(levels') = Len(levels) + 1 /\ levels'[Len(levels) + 1] = level
      /\ \A i \in 1 .. Len(levels) : levels'[i] = levels[i]
  BY DEF SortTypes
<1>2. Len(levels) \in Nat
  BY DEF SortTypes
<1>3. QED  BY <1>1, <1>2 DEF Placed

\* Init establishes the invariant.
LEMMA SortInvariantInit ==
  ASSUME Init PROVE SortInvariant
<1>1. SortTypes
  <2>1. \A t \in graph.tasks : Cardinality(graph.deps[t]) \in Nat
    BY GraphsAssumption, FS_Subset, FS_CardinalityType DEF Init
  <2>2. QED  BY <2>1 DEF Init, SortTypes
<1>2. Placed = {} /\ Done = {}
  BY DEF Init, Placed, Done
<1>3. Degrees /\ ZeroesFound
  <2>1. \A t \in graph.tasks : graph.deps[t] \ {} = graph.deps[t]
    OBVIOUS
  <2>2. QED  BY <2>1, <1>2 DEF Init, Degrees, ZeroesFound
<1>4. Apart
  BY <1>2 DEF Init, Apart
<1>5. Released
  <2>1. ASSUME NEW t \in queue PROVE graph.deps[t] = {}
    <3>1. t \in graph.tasks /\ Cardinality(graph.deps[t]) = 0
      BY <2>1 DEF Init
    <3>2. QED  BY <3>1, <1>1, GraphFinite, FS_EmptySet
  <2>2. QED  BY <2>1 DEF Init, Released
<1>6. Loops
  BY <1>2, FS_EmptySet DEF Init, Loops
<1>7. LevelsRespectDeps /\ OneLevelPerTask
  BY DEF Init, LevelsRespectDeps, OneLevelPerTask
<1>8. QED  BY <1>1, <1>3, <1>4, <1>5, <1>6, <1>7 DEF SortInvariant

\* Taking a task from the queue keeps the invariant.
LEMMA DrainKeeps ==
  ASSUME SortInvariant, NEW t \in graph.tasks, Drain(t)
  PROVE  SortInvariant'
<1> USE DEF SortInvariant
<1>1. /\ graph' = graph /\ pc' = pc /\ levels' = levels /\ pc = "sort"
      /\ t \in queue /\ queue' = queue \ {t} /\ level' = level \cup {t}
      /\ processed' = processed + 1
  BY DEF Drain
<1>2. Placed' = Placed /\ Done' = Done \cup {t}
  BY <1>1 DEF Placed, Done
<1>3. t \notin Done /\ t \notin Placed
  BY <1>1 DEF Apart, Done
<1>4. ASSUME NEW u \in graph.tasks
      PROVE  /\ inDegree'[u] = IF u \in Blocking(graph, t)
                               THEN inDegree[u] - 1 ELSE inDegree[u]
             /\ inDegree'[u] \in Nat
             /\ inDegree'[u] = Cardinality(graph.deps[u] \ Done')
  <2>1. inDegree'[u] = IF u \in Blocking(graph, t)
                       THEN inDegree[u] - 1 ELSE inDegree[u]
    BY DEF Drain
  <2>2. inDegree[u] = Cardinality(graph.deps[u] \ Done)
    BY DEF Degrees
  <2>3. IsFiniteSet(graph.deps[u] \ Done)
    BY GraphFinite, FS_Difference
  <2>4. graph.deps[u] \ Done' = (graph.deps[u] \ Done) \ {t}
    BY <1>2
  <2>5. u \in Blocking(graph, t) <=> t \in graph.deps[u] \ Done
    BY <1>3 DEF Blocking
  <2>6. IsFiniteSet(graph.deps[u] \ Done') /\ Cardinality(graph.deps[u] \ Done')
          = IF t \in graph.deps[u] \ Done THEN Cardinality(graph.deps[u] \ Done) - 1
                                          ELSE Cardinality(graph.deps[u] \ Done)
    BY <2>3, <2>4, FS_RemoveElement
  <2>7. QED  BY <2>1, <2>2, <2>5, <2>6, FS_CardinalityType
<1>5. nextQueue' = nextQueue \cup {u \in Blocking(graph, t) : inDegree'[u] = 0}
  BY DEF Drain
<1>6. SortTypes'
  <2>1. inDegree' \in [graph.tasks -> Nat]
    BY <1>4 DEF Drain
  <2>2. nextQueue' \subseteq graph.tasks
    BY <1>5 DEF SortTypes, Blocking
  <2>3. QED  BY <1>1, <2>1, <2>2 DEF SortTypes
<1>7. Degrees'
  BY <1>1, <1>4 DEF Degrees
<1>8. ZeroesFound'
  <2>1. ASSUME NEW u \in graph.tasks, inDegree'[u] = 0
        PROVE  u \in Done' \cup queue' \cup nextQueue'
    <3>1. CASE u \in Blocking(graph, t)
      BY <2>1, <3>1, <1>5
    <3>2. CASE u \notin Blocking(graph, t)
      <4>1. u \in Done \cup queue \cup nextQueue
        BY <2>1, <3>2, <1>4 DEF ZeroesFound
      <4>2. QED  BY <4>1, <1>1, <1>2, <1>5
    <3>3. QED  BY <3>1, <3>2
  <2>2. QED  BY <2>1, <1>1 DEF ZeroesFound
<1>9. ASSUME NEW u \in Blocking(graph, t), inDegree'[u] = 0
      PROVE  /\ u \in graph.tasks /\ t \in graph.deps[u]
             /\ graph.deps[u] \subseteq Done'
             /\ u \notin Done' /\ u \notin queue'
  <2>1. u \in graph.tasks /\ t \in graph.deps[u]
    BY <1>9 DEF Blocking
  <2>2. graph.deps[u] \subseteq Done'
    <3>1. IsFiniteSet(graph.deps[u] \ Done')
      BY <2>1, GraphFinite, FS_Difference
    <3>2. graph.deps[u] \ Done' = {}
      BY <3>1, <2>1, <1>4, <1>9, FS_EmptySet
    <3>3. QED  BY <3>2
  <2>3. u \notin queue \cup level
    BY <2>1, <1>3 DEF Released
  <2>4. u \notin Placed
    <3>1. SUFFICES ASSUME u \in Placed PROVE FALSE
      OBVIOUS
    <3>2. PICK i \in 1 .. Len(levels) : u \in levels[i]
      BY <3>1 DEF Placed
    <3>3. graph.deps[u] \subseteq UNION {levels[j] : j \in 1 .. i - 1}
      BY <3>2 DEF LevelsRespectDeps
    <3>4. UNION {levels[j] : j \in 1 .. i - 1} \subseteq Placed
      BY <3>2 DEF Placed, SortTypes
    <3>5. QED  BY <3>3, <3>4, <2>1, <1>3
  <2>5. u # t
    BY <2>3, <1>1
  <2>6. QED  BY <2>1, <2>2, <2>3, <2>4, <2>5, <1>1, <1>2 DEF Done
<1>10. Apart'
  <2>1. queue' \cap Done' = {}
    BY <1>1, <1>2 DEF Apart
  <2>2. nextQueue' \cap Done' = {}
    BY <1>1, <1>2, <1>5, <1>9 DEF Apart
  <2>3. queue' \cap nextQueue' = {}
    BY <1>1, <1>5, <1>9 DEF Apart
  <2>4. level' \cap Placed' = {}
    BY <1>1, <1>2, <1>3 DEF Apart
  <2>5. QED  BY <2>1, <2>2, <2>3, <2>4 DEF Apart
<1>11. Released'
  <2>1. \A u \in queue' \cup level' : graph'.deps[u] \subseteq Placed'
    BY <1>1, <1>2 DEF Released
  <2>2. \A u \in nextQueue' : graph'.deps[u] \subseteq Done'
    BY <1>1, <1>2, <1>5, <1>9 DEF Released
  <2>3. QED  BY <2>1, <2>2 DEF Released
<1>12. Loops'
  <2>1. processed' = Cardinality(Done')
    BY <1>1, <1>2, <1>3, DoneFinite, FS_AddElement, FS_CardinalityType DEF Loops
  <2>2. QED  BY <2>1, <1>1 DEF Loops
<1>13. LevelsRespectDeps' /\ OneLevelPerTask'
  BY <1>1 DEF LevelsRespectDeps, OneLevelPerTask
<1>14. QED  BY <1>6, <1>7, <1>8, <1>10, <1>11, <1>12, <1>13

\* Completing a level keeps the invariant.
LEMMA EndWaveKeeps ==
  ASSUME SortInvariant, EndWave
  PROVE  SortInvariant'
<1> USE DEF SortInvariant
<1>1. /\ graph' = graph /\ pc' = pc /\ inDegree' = inDegree /\ processed' = processed
      /\ pc = "sort" /\ queue = {} /\ levels' = Append(levels, level)
      /\ level' = {} /\ queue' = nextQueue /\ nextQueue' = {}
  BY DEF EndWave
<1>2. Placed' = Placed \cup level /\ Done' = Done
  <2>1. Placed' = Placed \cup level
    BY <1>1, PlacedAfterWave
  <2>2. QED  BY <2>1, <1>1 DEF Done
<1>3. SortTypes'
  BY <1>1 DEF SortTypes
<1>4. Degrees' /\ ZeroesFound'
  BY <1>1, <1>2 DEF Degrees, ZeroesFound
<1>5. Apart' /\ Released'
  BY <1>1, <1>2 DEF Apart, Released, Done
<1>6. Loops'
  BY <1>1, <1>2 DEF Loops
<1>7. /\ Len(levels) \in Nat /\ Len(levels') = Len(levels) + 1
      /\ levels'[Len(levels) + 1] = level
      /\ \A i \in 1 .. Len(levels) : levels'[i] = levels[i]
  BY <1>1 DEF SortTypes
<1>8. LevelsRespectDeps'
  <2>1. ASSUME NEW i \in 1 .. Len(levels'), NEW t \in levels'[i]
        PROVE  graph.deps[t] \subseteq UNION {levels'[j] : j \in 1 .. i - 1}
    <3>1. {levels'[j] : j \in 1 .. i - 1} = {levels[j] : j \in 1 .. i - 1}
      BY <1>7
    <3>2. CASE i \in 1 .. Len(levels)
      BY <3>1, <3>2, <1>7 DEF LevelsRespectDeps
    <3>3. CASE i = Len(levels) + 1
      <4>1. t \in level /\ {levels[j] : j \in 1 .. i - 1} = {levels[j] : j \in 1 .. Len(levels)}
        BY <3>3, <1>7
      <4>2. QED  BY <4>1, <3>1 DEF Released, Placed
    <3>4. QED  BY <3>2, <3>3, <1>7
  <2>2. QED  BY <2>1, <1>1 DEF LevelsRespectDeps
<1>9. OneLevelPerTask'
  <2>1. \A i \in 1 .. Len(levels) : levels[i] \cap level = {}
    BY DEF Apart, Placed
  <2>2. \A i, j \in 1 .. Len(levels) : i # j => levels[i] \cap levels[j] = {}
    BY DEF OneLevelPerTask
  <2>3. ASSUME NEW i \in 1 .. Len(levels'), NEW j \in 1 .. Len(levels'), i # j
        PROVE  levels'[i] \cap levels'[j] = {}
    <3>1. CASE i = Len(levels) + 1
      BY <3>1, <2>1, <2>3, <1>7
    <3>2. CASE j = Len(levels) + 1
      BY <3>2, <2>1, <2>3, <1>7
    <3>3. CASE i \in 1 .. Len(levels) /\ j \in 1 .. Len(levels)
      BY <3>3, <2>2, <2>3, <1>7
    <3>4. QED  BY <3>1, <3>2, <3>3, <1>7
  <2>4. QED  BY <2>3 DEF OneLevelPerTask
<1>10. QED  BY <1>3, <1>4, <1>5, <1>6, <1>8, <1>9

\* The verdict: the number of tasks taken tells whether all were.
LEMMA EndSortKeeps ==
  ASSUME SortInvariant, EndSort
  PROVE  SortInvariant'
<1> USE DEF SortInvariant
<1>1. /\ graph' = graph /\ inDegree' = inDegree /\ queue' = queue
      /\ nextQueue' = nextQueue /\ level' = level /\ levels' = levels
      /\ processed' = processed /\ pc = "sort" /\ queue = {} /\ level = {}
      /\ pc' = IF processed = Cardinality(graph.tasks) THEN "finish" ELSE "raised"
  BY DEF EndSort, sorting
<1>2. Placed' = Placed /\ Done' = Done /\ Done = Placed
  BY <1>1 DEF Placed, Done
<1>3. SortTypes'
  BY <1>1 DEF SortTypes
<1>4. Degrees' /\ ZeroesFound' /\ Apart' /\ Released'
  BY <1>1, <1>2 DEF Degrees, ZeroesFound, Apart, Released
<1>5. processed = Cardinality(graph.tasks) <=> Placed = graph.tasks
  BY <1>2, DoneFinite, GraphFinite, FS_Subset DEF Loops
<1>6. Loops'
  BY <1>1, <1>2, <1>5 DEF Loops
<1>7. LevelsRespectDeps' /\ OneLevelPerTask'
  BY <1>1 DEF LevelsRespectDeps, OneLevelPerTask
<1>8. QED  BY <1>3, <1>4, <1>6, <1>7

\* The passes over the levels leave the sort alone.
LEMMA LaterStepsKeep ==
  ASSUME SortInvariant, UNCHANGED <<graph, sorting>>,
         pc \notin {"sort", "raised"},
         pc' \in {"finish", "trace", "estimate", "done"}
  PROVE  SortInvariant'
<1>1. /\ graph' = graph /\ inDegree' = inDegree /\ queue' = queue
      /\ nextQueue' = nextQueue /\ level' = level /\ levels' = levels
      /\ processed' = processed
  BY DEF sorting
<1>2. Placed' = Placed /\ Done' = Done
  BY <1>1 DEF Placed, Done
<1>3. SortTypes' /\ Degrees' /\ ZeroesFound' /\ Apart' /\ Released'
  BY <1>1, <1>2 DEF SortInvariant, SortTypes, Degrees, ZeroesFound, Apart, Released
<1>4. Loops'
  BY <1>1, <1>2 DEF SortInvariant, SortTypes, Loops
<1>5. LevelsRespectDeps' /\ OneLevelPerTask'
  BY <1>1 DEF SortInvariant, LevelsRespectDeps, OneLevelPerTask
<1>6. QED  BY <1>3, <1>4, <1>5 DEF SortInvariant

\* The sort's invariant holds in every reachable state, for every set of graphs.
THEOREM SortInvariance == Spec => []SortInvariant
<1>1. Init => SortInvariant
  BY SortInvariantInit
<1>2. SortInvariant /\ [Next]_vars => SortInvariant'
  <2> SUFFICES ASSUME SortInvariant, [Next]_vars PROVE SortInvariant'
    OBVIOUS
  <2>1. CASE \E t \in graph.tasks : Drain(t)
    BY <2>1, DrainKeeps
  <2>2. CASE EndWave
    BY <2>2, EndWaveKeeps
  <2>3. CASE EndSort
    BY <2>3, EndSortKeeps
  <2>4. CASE \E t \in graph.tasks : Trace(t)
    BY <2>4, LaterStepsKeep DEF Trace
  <2>5. CASE FinishLevel
    BY <2>5, LaterStepsKeep DEF FinishLevel
  <2>6. CASE EndPath
    BY <2>6, LaterStepsKeep DEF EndPath
  <2>7. CASE EndTrace
    BY <2>7, LaterStepsKeep DEF EndTrace
  <2>8. CASE EstimateLevel
    BY <2>8, LaterStepsKeep DEF EstimateLevel
  <2>9. CASE EndEstimate
    BY <2>9, LaterStepsKeep DEF EndEstimate
  <2>10. CASE UNCHANGED vars
    <3>1. /\ graph' = graph /\ inDegree' = inDegree /\ queue' = queue
          /\ nextQueue' = nextQueue /\ level' = level /\ levels' = levels
          /\ processed' = processed /\ pc' = pc
      BY <2>10 DEF vars
    <3>2. Placed' = Placed /\ Done' = Done
      BY <3>1 DEF Placed, Done
    <3>3. QED
      BY <3>1, <3>2 DEF SortInvariant, SortTypes, Degrees, ZeroesFound, Apart,
         Released, Loops, LevelsRespectDeps, OneLevelPerTask
  <2>11. QED
    BY <2>1, <2>2, <2>3, <2>4, <2>5, <2>6, <2>7, <2>8, <2>9, <2>10 DEF Next
<1>3. QED  BY <1>1, <1>2, PTL DEF Spec

\* Every level's tasks depend on earlier levels only.
THEOREM LevelsAlwaysRespectDeps == Spec => []LevelsRespectDeps
<1>1. SortInvariant => LevelsRespectDeps
  BY DEF SortInvariant
<1>2. QED  BY <1>1, SortInvariance, PTL

\* No task is in two levels.
THEOREM OneLevelAlways == Spec => []OneLevelPerTask
<1>1. SortInvariant => OneLevelPerTask
  BY DEF SortInvariant
<1>2. QED  BY <1>1, SortInvariance, PTL

\* The sort raises exactly when some tasks wait for each other: a task that was
\* not placed has a dependency left, because its in-degree is not zero.
THEOREM SortAlwaysDecides == Spec => []SortDecides
<1>1. ASSUME SortInvariant PROVE SortDecides
  <2> USE <1>1 DEF SortInvariant
  <2>1. ASSUME pc = "raised", NEW t \in graph.tasks \ Placed
        PROVE  graph.deps[t] \cap (graph.tasks \ Placed) # {}
    <3>1. queue = {} /\ level = {} /\ nextQueue = {} /\ Done = Placed
      BY <2>1 DEF Loops, Done
    <3>2. inDegree[t] # 0
      BY <3>1, <2>1 DEF ZeroesFound
    <3>3. Cardinality(graph.deps[t] \ Placed) # 0
      BY <3>1, <3>2, <2>1 DEF Degrees
    <3>4. graph.deps[t] \ Placed # {}
      BY <3>3, FS_EmptySet
    <3>5. QED  BY <3>4, <2>1, GraphFinite
  <2>2. pc = "raised" => graph.tasks \ Placed # {}
    BY DoneFinite DEF Loops
  <2>3. pc \notin {"sort", "raised"} => Placed = graph.tasks
    BY DEF Loops
  <2>4. QED  BY <2>1, <2>2, <2>3 DEF SortDecides
<1>2. QED  BY <1>1, SortInvariance, PTL

-----------------------------------------------------------------------------
(* Generated graphs.  No edge rule goes up or stays level in Depth, which   *)
(* is read off the phase and, within a phase, the suffix.                   *)

PhaseDepth == [specification |-> 0, architecture |-> 10, execution |-> 20,
               verification |-> 30, deployment |-> 40]

SuffixDepth == [models |-> 0, schemas |-> 0, services |-> 1, routes |-> 2, tests |-> 3,
                components |-> 0, pages |-> 1, state |-> 1,
                dockerfile |-> 0, k8s_manifests |-> 1, terraform |-> 1, ci_cd |-> 2,
                build_images |-> 0, push_registry |-> 1, apply_migrations |-> 2,
                deploy_services |-> 3, smoke_tests |-> 4]

SuffixDepthOf(t) == IF Suffix(t) \in DOMAIN SuffixDepth THEN SuffixDepth[Suffix(t)] ELSE 0

Depth(t) == PhaseDepth[t.phase] + SuffixDepthOf(t)

\* A non-empty set of naturals has a least element.
LEMMA LeastNatural ==
    ASSUME NEW T \in SUBSET Nat, T # {}
    PROVE  \E m \in T : \A k \in T : m <= k
<1> DEFINE R == OpToRel(<, Nat)
<1>1. \A a, b \in Nat : a < b => <<a, b>> \in R
  BY DEF OpToRel
<1>2. IsWellFoundedOn(R, Nat)
  BY NatLessThanWellFounded
<1> HIDE DEF R
<1>3. T \subseteq Nat
  OBVIOUS
<1>4. PICK m \in T : \A k \in T : ~(<<k, m>> \in R)
  BY ONLY <1>2, <1>3, T # {}, WFMin
<1>5. ASSUME NEW k \in T PROVE m <= k
  <2>1. ~(k < m)
    BY <1>1, <1>3, <1>4
  <2> QED  BY <2>1, <1>3
<1> QED  BY <1>5

LEMMA SuffixDepthBounded == \A t : SuffixDepthOf(t) \in 0 .. 4
<1>1. \A s \in DOMAIN SuffixDepth : SuffixDepth[s] \in 0 .. 4
  BY DEF SuffixDepth
<1> QED  BY <1>1 DEF SuffixDepthOf

LEMMA PhasesOfTasks ==
    ASSUME NEW plan, NEW t \in TasksOf(plan)
    PROVE  t.phase \in DOMAIN PhaseDepth
BY DEF TasksOf, SpecificationTasks, ArchitectureTasks, ExecutionTasks,
       VerificationTasks, DeploymentTasks, Task, PhaseDepth

\* Every dependency is less deep.
LEMMA DependenciesLessDeep ==
    ASSUME NEW t, NEW d, DependsOn(t, d)
    PROVE  Depth(t) \in Nat /\ Depth(d) \in Nat /\ Depth(d) < Depth(t)
<1>0. SuffixDepthOf(t) \in 0 .. 4 /\ SuffixDepthOf(d) \in 0 .. 4
  BY SuffixDepthBounded
<1>1. CASE <<t.phase, d.phase>> \in PhaseOrder
  BY <1>0, <1>1 DEF PhaseOrder, Depth, PhaseDepth
<1>2. CASE /\ t.phase = d.phase /\ d.phase \in {"execution", "deployment"}
           /\ <<Suffix(t), Suffix(d)>> \in BackendOrder \cup FrontendOrder \cup InfraOrder
                                            \cup DeploymentOrder
  <2>1. SuffixDepthOf(d) < SuffixDepthOf(t)
    BY <1>2 DEF BackendOrder, FrontendOrder, InfraOrder, DeploymentOrder,
                SuffixDepthOf, SuffixDepth
  <2>2. PhaseDepth[t.phase] = PhaseDepth[d.phase] /\ PhaseDepth[d.phase] \in Nat
    BY <1>2 DEF PhaseDepth
  <2> QED  BY <2>1, <2>2, <1>0 DEF Depth
<1> QED  BY <1>1, <1>2 DEF DependsOn, Both

\* generate never raises: among the tasks that could not be placed a least deep
\* one would wait for a less deep one.
THEOREM GenerationAlwaysSucceeds == Spec => []GenerationNeverRaises
<1>1. ASSUME SortTypes, SortDecides PROVE GenerationNeverRaises
  <2> SUFFICES ASSUME IsGenerated, pc = "raised" PROVE FALSE
    BY DEF GenerationNeverRaises
  <2> DEFINE stuck == graph.tasks \ Placed
             depths == {Depth(t) : t \in stuck}
  <2>1. PICK plan \in Plans : graph = Generate(plan)
    BY DEF IsGenerated, GeneratedGraphs
  <2>2. stuck # {} /\ \A t \in stuck : graph.deps[t] \cap stuck # {}
    BY <1>1 DEF SortDecides
  <2>3. \A t \in graph.tasks : \A d \in graph.deps[t] : DependsOn(t, d)
    BY <2>1 DEF Generate
  <2>4. \A t \in stuck : Depth(t) \in Nat
    BY <2>2, <2>3, DependenciesLessDeep
  <2>5. PICK m \in depths : \A k \in depths : m <= k
    <3>1. depths \in SUBSET Nat /\ depths # {}
      BY <2>2, <2>4
    <3> HIDE DEF depths
    <3> QED  BY <3>1, LeastNatural
  <2>6. PICK t \in stuck : Depth(t) = m
    BY <2>5
  <2>7. PICK d \in graph.deps[t] \cap stuck : TRUE
    BY <2>2
  <2>8. Depth(d) < Depth(t) /\ Depth(d) \in Nat /\ Depth(t) \in Nat
    BY <2>3, <2>7, DependenciesLessDeep
  <2>9. Depth(d) \in depths
    BY <2>7
  <2> QED  BY <2>5, <2>6, <2>8, <2>9
<1>2. SortInvariant => SortTypes
  BY DEF SortInvariant
<1> QED  BY <1>1, <1>2, SortInvariance, SortAlwaysDecides, PTL

\* The place of a phase in PhaseSequence.
PhaseIndex(t) == CHOOSE n \in DOMAIN PhaseSequence : PhaseSequence[n] = t.phase

LEMMA PhaseIndexOfTask ==
    ASSUME NEW plan, NEW t \in TasksOf(plan)
    PROVE  PhaseIndex(t) \in 1 .. 5 /\ PhaseSequence[PhaseIndex(t)] = t.phase
<1>1. DOMAIN PhaseSequence = 1 .. 5
  BY DEF PhaseSequence
<1>2. t.phase \in {"specification", "architecture", "execution", "verification", "deployment"}
  BY DEF TasksOf, SpecificationTasks, ArchitectureTasks, ExecutionTasks,
         VerificationTasks, DeploymentTasks, Task
<1>3. \E n \in 1 .. 5 : PhaseSequence[n] = t.phase
  BY <1>2 DEF PhaseSequence
<1> QED  BY <1>1, <1>3 DEF PhaseIndex

\* Whatever the plan, each phase has a task.
LEMMA EveryPhaseHasTask ==
    ASSUME NEW plan, NEW n \in 1 .. 5
    PROVE  \E t \in TasksOf(plan) : t.phase = PhaseSequence[n]
<1> DEFINE spec == Task("specification", "architect", <<"prd">>)
           arch == Task("architecture", "architect", <<"data_flow">>)
           exec == Task("execution", "infra", <<"ci_cd">>)
           veri == Task("verification", "qa", <<"lint">>)
           depl == Task("deployment", "infra", <<"smoke_tests">>)
<1>1. {spec, arch, exec, veri, depl} \subseteq TasksOf(plan)
  BY DEF TasksOf, SpecificationTasks, ArchitectureTasks, ExecutionTasks,
         VerificationTasks, DeploymentTasks
<1>2. /\ spec.phase = PhaseSequence[1] /\ arch.phase = PhaseSequence[2]
      /\ exec.phase = PhaseSequence[3] /\ veri.phase = PhaseSequence[4]
      /\ depl.phase = PhaseSequence[5]
  BY DEF Task, PhaseSequence
<1> QED  BY <1>1, <1>2

\* A task waits for all tasks of the phase before its own.
LEMMA PhaseWaits ==
    ASSUME NEW plan, NEW t \in TasksOf(plan), NEW d \in TasksOf(plan),
           NEW n \in 1 .. 4,
           d.phase = PhaseSequence[n], t.phase = PhaseSequence[n + 1]
    PROVE  d \in Generate(plan).deps[t]
<1>1. <<t.phase, d.phase>> \in PhaseOrder
  BY DEF PhaseOrder, PhaseSequence
<1> QED  BY <1>1 DEF DependsOn, Generate

\* Of two placed tasks of different phases the one of the later is placed later.
LEMMA LaterPhaseLater ==
    ASSUME SortInvariant, NEW plan, graph = Generate(plan),
           NEW i \in 1 .. Len(levels), NEW t \in levels[i],
           NEW j \in 1 .. Len(levels), NEW d \in levels[j],
           PhaseIndex(d) < PhaseIndex(t)
    PROVE  j < i
<1>0. /\ levels \in Seq(SUBSET graph.tasks) /\ LevelsRespectDeps /\ OneLevelPerTask
      /\ graph.tasks = TasksOf(plan)
  BY DEF SortInvariant, SortTypes, Generate
<1>1. t \in TasksOf(plan) /\ d \in TasksOf(plan)
  BY <1>0
<1>2. ASSUME NEW k \in 1 .. Len(levels), NEW l \in 1 .. Len(levels),
             NEW x \in levels[k], NEW y \in levels[l], NEW n \in 1 .. 4,
             y.phase = PhaseSequence[n], x.phase = PhaseSequence[n + 1]
      PROVE  l < k
  <2>1. x \in TasksOf(plan) /\ y \in TasksOf(plan)
    BY <1>0
  <2>2. y \in graph.deps[x]
    BY <1>2, <2>1, PhaseWaits
  <2>3. PICK m \in 1 .. k - 1 : y \in levels[m]
    BY <2>2, <1>0 DEF LevelsRespectDeps
  <2>4. m = l
    BY <2>3, <1>0 DEF OneLevelPerTask
  <2> QED  BY <2>3, <2>4
<1>3. ASSUME NEW k \in 1 .. Len(levels), NEW x \in levels[k], NEW n \in 1 .. 4,
             x.phase = PhaseSequence[n + 1]
      PROVE  \E l \in 1 .. k - 1 : \E y \in levels[l] : y.phase = PhaseSequence[n]
  <2>1. PICK y \in TasksOf(plan) : y.phase = PhaseSequence[n]
    BY EveryPhaseHasTask
  <2>2. x \in TasksOf(plan)
    BY <1>0
  <2>3. y \in graph.deps[x]
    BY <1>3, <2>1, <2>2, PhaseWaits
  <2>4. PICK m \in 1 .. k - 1 : y \in levels[m]
    BY <2>3, <1>0 DEF LevelsRespectDeps
  <2> QED  BY <2>1, <2>4
<1> DEFINE a == PhaseIndex(d)
           b == PhaseIndex(t)
           Reach(n) == \E k \in 1 .. i : \E x \in levels[k] : x.phase = PhaseSequence[n]
<1>4. a \in 1 .. 4 /\ b \in 2 .. 5 /\ a < b /\ d.phase = PhaseSequence[a] /\ t.phase = PhaseSequence[b]
  BY <1>1, PhaseIndexOfTask
<1> HIDE DEF a, b
<1>5. ASSUME NEW n \in 1 .. 4, Reach(n + 1) PROVE Reach(n)
  <2>1. PICK k \in 1 .. i : \E x \in levels[k] : x.phase = PhaseSequence[n + 1]
    BY <1>5
  <2>2. k \in 1 .. Len(levels)
    BY <2>1
  <2>3. PICK l \in 1 .. k - 1 : \E y \in levels[l] : y.phase = PhaseSequence[n]
    BY <2>1, <2>2, <1>3
  <2>4. l \in 1 .. i
    BY <2>3
  <2> QED  BY <2>3, <2>4
<1>6. Reach(b)
  BY <1>4
<1>7. Reach(a + 1)
  <2> HIDE DEF Reach
  <2>1. CASE b = a + 1
    BY <2>1, <1>6
  <2>2. CASE b = a + 2
    BY <2>2, <1>4, <1>5, <1>6
  <2>3. CASE b = a + 3
    BY <2>3, <1>4, <1>5, <1>6
  <2>4. CASE b = a + 4
    BY <2>4, <1>4, <1>5, <1>6
  <2> QED  BY <2>1, <2>2, <2>3, <2>4, <1>4
<1>8. PICK k \in 1 .. i : \E x \in levels[k] : x.phase = PhaseSequence[a + 1]
  BY <1>7
<1>9. j < k
  BY <1>8, <1>2, <1>4
<1> QED  BY <1>8, <1>9

\* The phases of a generated graph are barriers: no task is in the level of a
\* task of another phase or before the levels of an earlier one.
THEOREM PhasesAlwaysInOrder == Spec => []PhasesInOrder
<1>1. ASSUME SortInvariant PROVE PhasesInOrder
  <2> SUFFICES ASSUME IsGenerated,
                      NEW i \in 1 .. Len(levels), NEW j \in 1 .. Len(levels), i <= j,
                      NEW t \in levels[i], NEW d \in levels[j]
               PROVE  \E m, n \in DOMAIN PhaseSequence :
                         /\ t.phase = PhaseSequence[m] /\ d.phase = PhaseSequence[n]
                         /\ IF i = j THEN m = n ELSE m <= n
    BY DEF PhasesInOrder
  <2>1. PICK plan \in Plans : graph = Generate(plan)
    BY DEF IsGenerated, GeneratedGraphs
  <2>2. t \in TasksOf(plan) /\ d \in TasksOf(plan)
    BY <1>1, <2>1 DEF SortInvariant, SortTypes, Generate
  <2>3. /\ PhaseIndex(t) \in DOMAIN PhaseSequence /\ PhaseIndex(d) \in DOMAIN PhaseSequence
        /\ PhaseIndex(t) \in 1 .. 5 /\ PhaseIndex(d) \in 1 .. 5
        /\ t.phase = PhaseSequence[PhaseIndex(t)] /\ d.phase = PhaseSequence[PhaseIndex(d)]
    BY <2>2, PhaseIndexOfTask DEF PhaseSequence
  <2>4. ~(PhaseIndex(d) < PhaseIndex(t))
    BY <1>1, <2>1, LaterPhaseLater
  <2>5. i = j => ~(PhaseIndex(t) < PhaseIndex(d))
    BY <1>1, <2>1, LaterPhaseLater
  <2> QED  BY <2>3, <2>4, <2>5
<1> QED  BY <1>1, SortInvariance, PTL

-----------------------------------------------------------------------------
(* Sums and maxima.  Induction over numbers and finite sets is done by      *)
(* least counterexample.                                                    *)

Minimal(S, B) == S \in B /\ \A R \in B : R \subseteq S => R = S

\* A non-empty set of subsets of a finite set has a minimal member.
LEMMA MinimalSubset ==
    ASSUME NEW T, IsFiniteSet(T), NEW B \in SUBSET (SUBSET T), B # {}
    PROVE  \E S : Minimal(S, B)
<1> DEFINE Order == StrictSubsetOrdering(T)
<1>1. IsWellFoundedOn(Order, SUBSET T)
  BY FS_StrictSubsetOrderingWellFounded, FS_FiniteSubsetsOfFinite
<1>2. \A R, S \in SUBSET T : (R \subseteq S /\ R # S) => <<R, S>> \in Order
  BY DEF StrictSubsetOrdering
<1> HIDE DEF Order
<1>3. B \subseteq SUBSET T
  OBVIOUS
<1>4. PICK S \in B : \A R \in B : ~(<<R, S>> \in Order)
  BY ONLY <1>1, <1>3, B # {}, WFMin
<1> QED  BY <1>2, <1>3, <1>4 DEF Minimal

IsLargest(m, V) == m \in V /\ \A n \in V : n <= m

\* Largest is the largest of a finite non-empty set of naturals.
LEMMA LargestIsLargest ==
    ASSUME NEW V \in SUBSET Nat, IsFiniteSet(V), V # {}
    PROVE  IsLargest(Largest(V), V)
<1> DEFINE Bad == {S \in SUBSET V : S # {} /\ ~ \E m \in S : \A n \in S : n <= m}
<1>1. Bad = {}
  <2> SUFFICES ASSUME Bad # {} PROVE FALSE
    OBVIOUS
  <2>1. Bad \in SUBSET (SUBSET V)
    OBVIOUS
  <2>2. PICK S : Minimal(S, Bad)
    <3> HIDE DEF Bad
    <3> QED  BY <2>1, MinimalSubset
  <2>3. PICK x \in S : x \in Nat
    BY <2>2 DEF Minimal
  <2>4. CASE S = {x}
    BY <2>2, <2>3, <2>4 DEF Minimal
  <2>5. CASE S # {x}
    <3>1. S \ {x} # {} /\ S \ {x} \notin Bad
      BY <2>2, <2>3, <2>5 DEF Minimal
    <3>2. PICK m \in S \ {x} : \A n \in S \ {x} : n <= m
      BY <2>2, <3>1 DEF Minimal
    <3>3. S \in Bad /\ \A n \in S : n \in Nat
      BY <2>2 DEF Minimal
    <3>4. CASE x <= m
      BY <3>2, <3>3, <3>4
    <3>5. CASE m <= x
      BY <3>2, <3>3, <3>5, <2>3
    <3> QED  BY <3>3, <3>4, <3>5, <2>3
  <2> QED  BY <2>4, <2>5
<1>2. \E m \in V : \A n \in V : n <= m
  BY <1>1
<1> QED  BY <1>2 DEF Largest, IsLargest

\* What Largest finds among the values of f on S and zero.
FiniteValues(f, S) == {f[d] : d \in S} \in SUBSET Nat /\ IsFiniteSet({f[d] : d \in S})
LargestOf(f, S) == IsLargest(Largest({0} \cup {f[d] : d \in S}), {0} \cup {f[d] : d \in S})

\* The values of a function on a part of its domain.
LEMMA ValuesFinite ==
    ASSUME NEW T, IsFiniteSet(T), NEW f \in [T -> Nat], NEW S \in SUBSET T
    PROVE  FiniteValues(f, S) /\ LargestOf(f, S)
<1> DEFINE g == [d \in S |-> f[d]]
           V == {f[d] : d \in S}
<1>1. IsFiniteSet(S)
  BY FS_Subset
<1>2. g \in Surjection(S, V)
  BY DEF Surjection
<1>3. IsFiniteSet(V)
  <2> HIDE DEF g, V
  <2> QED  BY <1>1, <1>2, FS_Surjection
<1>4. V \in SUBSET Nat
  OBVIOUS
<1> HIDE DEF V
<1>5. IsFiniteSet({0} \cup V)
  <2>1. {0} \cup V = V \cup {0}
    OBVIOUS
  <2> QED  BY <1>3, <2>1, FS_AddElement
<1>6. IsLargest(Largest({0} \cup V), {0} \cup V)
  BY <1>4, <1>5, LargestIsLargest
<1> QED  BY <1>3, <1>4, <1>6 DEF V, LargestOf, FiniteValues

\* The minutes of the first tasks of s, as Weight adds them up.
Sums(s, minutes, w) ==
    /\ w \in [0 .. Len(s) -> Nat]
    /\ w[0] = 0
    /\ \A i \in 1 .. Len(s) : w[i] = w[i - 1] + minutes[s[i]]

LEMMA WeightIsSum ==
    ASSUME NEW T, NEW s \in Seq(T), NEW w, Sums(s, graph.minutes, w)
    PROVE  Weight(s) = w[Len(s)]
<1> DEFINE F == CHOOSE f : f = [i \in 0 .. Len(s) |->
                    IF i = 0 THEN 0 ELSE f[i - 1] + graph.minutes[s[i]]]
           Bad == {i \in 0 .. Len(s) : F[i] # w[i]}
<1>0. Len(s) \in Nat
  OBVIOUS
<1>1. Weight(s) = F[Len(s)]
  BY DEF Weight
<1>2. w = [i \in 0 .. Len(s) |-> IF i = 0 THEN 0 ELSE w[i - 1] + graph.minutes[s[i]]]
  <2>1. w = [i \in 0 .. Len(s) |-> w[i]]
    BY DEF Sums
  <2>2. \A i \in 0 .. Len(s) : w[i] = IF i = 0 THEN 0 ELSE w[i - 1] + graph.minutes[s[i]]
    BY <1>0 DEF Sums
  <2> QED  BY <2>1, <2>2
<1>3. F = [i \in 0 .. Len(s) |-> IF i = 0 THEN 0 ELSE F[i - 1] + graph.minutes[s[i]]]
  BY <1>2
<1> HIDE DEF F
<1>4. Bad = {}
  <2> SUFFICES ASSUME Bad # {} PROVE FALSE
    OBVIOUS
  <2>1. Bad \in SUBSET Nat
    BY <1>0
  <2>2. PICK i \in Bad : \A k \in Bad : i <= k
    <3> HIDE DEF Bad
    <3> QED  BY <2>1, LeastNatural
  <2>3. i # 0
    BY <1>0, <1>3 DEF Sums
  <2>4. i \in 1 .. Len(s) /\ i - 1 \in 0 .. Len(s)
    BY <1>0, <2>3
  <2>5. F[i - 1] = w[i - 1]
    BY <2>2, <2>4
  <2>6. F[i] = F[i - 1] + graph.minutes[s[i]]
    BY <1>3, <2>4
  <2> QED  BY <2>2, <2>4, <2>5, <2>6 DEF Sums
<1> QED  BY <1>0, <1>1, <1>4

\* A sum over a finite set, taken element by element in an order that CHOOSE
\* picks, does not depend on that order.
SumSteps(D, f, g) ==
    /\ g \in [D -> Nat]
    /\ \A S \in D : g[S] = IF S = {} THEN 0
                           ELSE f[CHOOSE x \in S : TRUE] + g[S \ {CHOOSE x \in S : TRUE}]

LEMMA SumExists ==
    ASSUME NEW T, IsFiniteSet(T), NEW f \in [T -> Nat]
    PROVE  \E g : SumSteps(SUBSET T, f, g)
<1> DEFINE D(n) == {S \in SUBSET T : Cardinality(S) <= n}
           Bad == {n \in Nat : ~ \E g : SumSteps(D(n), f, g)}
<1>1. \A S \in SUBSET T : /\ IsFiniteSet(S) /\ Cardinality(S) \in Nat
                          /\ Cardinality(S) = 0 <=> S = {}
                          /\ Cardinality(S) <= Cardinality(T)
  BY FS_Subset, FS_CardinalityType, FS_EmptySet
<1>2. Cardinality(T) \in Nat
  BY FS_CardinalityType
<1>3. Bad = {}
  <2> SUFFICES ASSUME Bad # {} PROVE FALSE
    OBVIOUS
  <2>1. Bad \in SUBSET Nat
    OBVIOUS
  <2>2. PICK n \in Bad : \A k \in Bad : n <= k
    <3> HIDE DEF Bad
    <3> QED  BY <2>1, LeastNatural
  <2>3. n # 0
    <3> SUFFICES ASSUME n = 0 PROVE FALSE
      OBVIOUS
    <3>1. \A S \in D(0) : S = {}
      BY <1>1
    <3>2. SumSteps(D(0), f, [S \in D(0) |-> 0])
      BY <3>1 DEF SumSteps
    <3> QED  BY <3>2
  <2>4. PICK g : SumSteps(D(n - 1), f, g)
    <3> HIDE DEF D
    <3>1. n - 1 \in Nat /\ n \in Nat /\ ~(n <= n - 1)
      BY <2>2, <2>3
    <3>2. n - 1 \notin Bad
      BY <2>2, <3>1
    <3> QED  BY <3>1, <3>2
  <2> DEFINE ch(S) == CHOOSE x \in S : TRUE
             h == [S \in D(n) |-> IF S = {} THEN 0 ELSE f[ch(S)] + g[S \ {ch(S)}]]
  <2>5. ASSUME NEW S \in D(n), S # {}
        PROVE  ch(S) \in S /\ S \ {ch(S)} \in D(n - 1)
    <3>1. ch(S) \in S
      BY <2>5
    <3> HIDE DEF ch
    <3>2. Cardinality(S \ {ch(S)}) = Cardinality(S) - 1
      BY <1>1, <3>1, FS_RemoveElement
    <3> QED  BY <1>1, <3>1, <3>2
  <2>6. \A S \in D(n - 1) : S \in D(n) /\ g[S] \in Nat
    BY <1>1, <2>2, <2>4 DEF SumSteps
  <2>7. \A S \in D(n - 1) : h[S] = g[S]
    BY <2>4, <2>6 DEF SumSteps
  <2>8. ASSUME NEW S \in D(n)
        PROVE  h[S] \in Nat /\ h[S] = IF S = {} THEN 0 ELSE f[ch(S)] + h[S \ {ch(S)}]
    <3>1. CASE S = {}
      BY <3>1
    <3>2. CASE S # {}
      <4>1. ch(S) \in T /\ S \ {ch(S)} \in D(n - 1)
        BY <2>5, <3>2
      <4>2. h[S] = f[ch(S)] + g[S \ {ch(S)}]
        BY <3>2
      <4> HIDE DEF h, ch, D
      <4> QED  BY <3>2, <4>1, <4>2, <2>6, <2>7
    <3> QED  BY <3>1, <3>2
  <2>9. SumSteps(D(n), f, h)
    BY <2>8 DEF SumSteps
  <2> QED  BY <2>2, <2>9
<1>4. D(Cardinality(T)) = SUBSET T
  BY <1>1
<1> QED  BY <1>2, <1>3, <1>4

Splits(f, g, S, x) == g[S] = f[x] + g[S \ {x}]

LEMMA SumAnyOrder ==
    ASSUME NEW T, IsFiniteSet(T), NEW f \in [T -> Nat], NEW g, SumSteps(SUBSET T, f, g),
           NEW S \in SUBSET T, NEW x \in S
    PROVE  Splits(f, g, S, x)
<1> DEFINE Bad == {R \in SUBSET T : \E y \in R : g[R] # f[y] + g[R \ {y}]}
<1>1. Bad = {}
  <2> SUFFICES ASSUME Bad # {} PROVE FALSE
    OBVIOUS
  <2>1. Bad \in SUBSET (SUBSET T)
    OBVIOUS
  <2>2. PICK R : Minimal(R, Bad)
    <3> HIDE DEF Bad
    <3> QED  BY <2>1, MinimalSubset
  <2>3. PICK y \in R : g[R] # f[y] + g[R \ {y}]
    BY <2>2 DEF Minimal
  <2>4. PICK c : c = CHOOSE z \in R : TRUE
    OBVIOUS
  <2>5. c \in R /\ g[R] = f[c] + g[R \ {c}] /\ R \in SUBSET T
    BY <2>2, <2>3, <2>4 DEF Minimal, SumSteps
  <2>6. c # y
    BY <2>3, <2>5
  <2>7. R \ {c} \notin Bad /\ R \ {y} \notin Bad
    BY <2>2, <2>3, <2>5 DEF Minimal
  <2>8. g[R \ {c}] = f[y] + g[(R \ {c}) \ {y}] /\ g[R \ {y}] = f[c] + g[(R \ {y}) \ {c}]
    BY <2>3, <2>5, <2>6, <2>7
  <2>9. PICK W \in SUBSET T : W = (R \ {c}) \ {y} /\ W = (R \ {y}) \ {c}
    BY <2>5
  <2>10. g[R \ {c}] = f[y] + g[W] /\ g[R \ {y}] = f[c] + g[W]
    BY <2>8, <2>9
  <2>11. f[c] \in Nat /\ f[y] \in Nat /\ g[W] \in Nat
    BY <2>3, <2>5, <2>9 DEF SumSteps
  <2>12. g[R] = f[c] + (f[y] + g[W]) /\ g[R] # f[y] + (f[c] + g[W])
    BY <2>3, <2>5, <2>10
  <2> QED  BY <2>11, <2>12
<1> QED  BY <1>1 DEF Splits

LEMMA SumMonotone ==
    ASSUME NEW T, IsFiniteSet(T), NEW f \in [T -> Nat], NEW g, SumSteps(SUBSET T, f, g),
           NEW S \in SUBSET T, NEW R \in SUBSET S
    PROVE  g[R] <= g[S]
<1> DEFINE Bad == {Q \in SUBSET T : R \subseteq Q /\ ~(g[R] <= g[Q])}
<1>0. \A Q \in SUBSET T : g[Q] \in Nat
  BY DEF SumSteps
<1>1. Bad = {}
  <2> SUFFICES ASSUME Bad # {} PROVE FALSE
    OBVIOUS
  <2>1. Bad \in SUBSET (SUBSET T)
    OBVIOUS
  <2>2. PICK Q : Minimal(Q, Bad)
    <3> HIDE DEF Bad
    <3> QED  BY <2>1, MinimalSubset
  <2>3. Q \in SUBSET T /\ R \subseteq Q /\ ~(g[R] <= g[Q])
    BY <2>2 DEF Minimal
  <2>4. PICK x \in Q : x \notin R
    <3>1. Q # R
      BY <1>0, <2>3
    <3> QED  BY <2>3, <3>1
  <2>5. Q \ {x} \notin Bad
    BY <2>2, <2>4 DEF Minimal
  <2>6. g[R] <= g[Q \ {x}]
    BY <2>3, <2>4, <2>5
  <2>7. g[Q] = f[x] + g[Q \ {x}]
    BY <2>3, SumAnyOrder DEF Splits
  <2>8. f[x] \in Nat /\ g[Q \ {x}] \in Nat /\ g[R] \in Nat
    BY <1>0, <2>3
  <2> QED  BY <2>3, <2>6, <2>7, <2>8
<1> QED  BY <1>1

-----------------------------------------------------------------------------
(* The critical path and the estimate.                                      *)

\* The sort wastes no level: a task is placed right after a dependency of it.
Tight ==
    /\ \A t \in nextQueue : graph.deps[t] \cap level # {}
    /\ levels # <<>> =>
          \A t \in queue \cup level : graph.deps[t] \cap levels[Len(levels)] # {}
    /\ \A i \in 1 .. Len(levels) : levels[i] # {}
    /\ \A i \in 2 .. Len(levels) : \A t \in levels[i] :
          graph.deps[t] \cap levels[i - 1] # {}

\* What is in the levels that a pass has behind it.
Before(n) == UNION {levels[i] : i \in 1 .. n - 1}

Finished(t) == earliestFinish[t] = LatestFinish(graph.deps[t]) + graph.minutes[t]

PathTypes ==
    /\ earliestFinish \in [graph.tasks -> Nat]
    /\ path \in Seq(graph.tasks)
    /\ cursor \in 1 .. Len(levels) + 1
    /\ total \in Nat

\* What the forward pass has done.
Passed ==
    /\ pc \in {"sort", "raised", "trace"} => cursor = 1
    /\ pc \in {"sort", "raised", "finish"} => path = <<>>
    /\ pc \notin {"estimate", "done"} => total = 0
    /\ pc = "finish" => \A t \in Before(cursor) : Finished(t)
    /\ pc \in {"trace", "estimate", "done"} => \A t \in graph.tasks : Finished(t)

Last(s) == s[Len(s)]
Uniform == \A t \in graph.tasks : graph.minutes[t] = 1

\* The traced part of the path takes the time between the finishes of its ends.
Spans(s, w) ==
    /\ Sums(s, graph.minutes, w)
    /\ w[Len(s)] + earliestFinish[s[1]] = earliestFinish[Last(s)] + graph.minutes[s[1]]

Traced ==
    pc \in {"trace", "estimate", "done"} =>
        /\ path = <<>> <=> graph.tasks = {}
        /\ IsChain(path)
        /\ path # <<>> =>
              /\ earliestFinish[Last(path)] = LatestFinish(graph.tasks)
              /\ \E w : Spans(path, w)
              /\ Uniform =>
                    Len(path) + earliestFinish[path[1]] = earliestFinish[Last(path)] + 1
              /\ pc # "trace" => graph.deps[path[1]] = {}
        /\ pc = "trace" => path # <<>>

\* The estimate covers the finishes, and only counts tasks it has passed; where
\* all tasks take a minute it counts one for each level.
Estimated ==
    pc \in {"estimate", "done"} =>
        /\ \A t \in Before(cursor) : earliestFinish[t] <= total
        /\ total <= MinutesOf[Before(cursor)]
        /\ Uniform => total = cursor - 1
        /\ pc = "done" => cursor = Len(levels) + 1

PathInvariant == Tight /\ PathTypes /\ Passed /\ Traced /\ Estimated

-----------------------------------------------------------------------------
\* What is proved of the sort, as the passes use it.
LEMMA LevelFacts ==
    ASSUME SortInvariant
    PROVE  /\ graph \in Graphs /\ IsFiniteSet(graph.tasks)
           /\ graph.deps \in [graph.tasks -> SUBSET graph.tasks]
           /\ graph.minutes \in [graph.tasks -> Nat \ {0}]
           /\ graph.minutes \in [graph.tasks -> Nat]
           /\ levels \in Seq(SUBSET graph.tasks) /\ Len(levels) \in Nat
           /\ \A i \in 1 .. Len(levels) : levels[i] \subseteq graph.tasks
           /\ \A i \in 1 .. Len(levels) : \A t \in levels[i] : graph.deps[t] \subseteq Before(i)
           /\ \A i \in 1 .. Len(levels) : levels[i] \cap Before(i) = {}
<1>1. graph \in Graphs /\ levels \in Seq(SUBSET graph.tasks)
  BY DEF SortInvariant, SortTypes
<1>2. Len(levels) \in Nat /\ \A i \in 1 .. Len(levels) : levels[i] \subseteq graph.tasks
  BY <1>1
<1>3. \A i \in 1 .. Len(levels) : \A t \in levels[i] : graph.deps[t] \subseteq Before(i)
  BY DEF SortInvariant, LevelsRespectDeps, Before
<1>4. \A i \in 1 .. Len(levels) : levels[i] \cap Before(i) = {}
  <2> SUFFICES ASSUME NEW i \in 1 .. Len(levels), NEW j \in 1 .. i - 1
               PROVE  levels[i] \cap levels[j] = {}
    BY DEF Before
  <2>1. j \in 1 .. Len(levels) /\ i # j
    BY <1>2
  <2> QED  BY <2>1 DEF SortInvariant, OneLevelPerTask
<1> QED  BY <1>1, <1>2, <1>3, <1>4, GraphsAssumption

LEMMA BeforeGrows ==
    ASSUME NEW n \in Nat, n \in 1 .. Len(levels), SortInvariant
    PROVE  Before(n + 1) = Before(n) \cup levels[n]
<1>1. 1 .. (n + 1) - 1 = (1 .. n - 1) \cup {n}
  OBVIOUS
<1> QED  BY <1>1 DEF Before

LEMMA BeforeEnds == Before(1) = {} /\ (SortInvariant => Before(Len(levels) + 1) = Placed)
<1>1. 1 .. 1 - 1 = {}
  OBVIOUS
<1>2. SortInvariant => 1 .. (Len(levels) + 1) - 1 = 1 .. Len(levels)
  BY LevelFacts
<1> QED  BY <1>1, <1>2 DEF Before, Placed

LEMMA TightInit == Init => Tight
BY DEF Init, Tight

LEMMA TightDrain ==
    ASSUME SortInvariant, Tight, NEW t \in graph.tasks, Drain(t)
    PROVE  Tight'
<1>1. /\ graph' = graph /\ levels' = levels /\ t \in queue
      /\ queue' = queue \ {t} /\ level' = level \cup {t}
      /\ nextQueue' = nextQueue \cup {u \in Blocking(graph, t) : inDegree'[u] = 0}
  BY DEF Drain
<1>2. \A u \in Blocking(graph, t) : t \in graph.deps[u]
  BY DEF Blocking
<1>3. \A u \in nextQueue' : graph'.deps[u] \cap level' # {}
  BY <1>1, <1>2 DEF Tight
<1> QED  BY <1>1, <1>3 DEF Tight

LEMMA TightEndWave ==
    ASSUME SortInvariant, Tight, EndWave
    PROVE  Tight'
<1>1. /\ graph' = graph /\ level # {} /\ levels' = Append(levels, level)
      /\ level' = {} /\ queue' = nextQueue /\ nextQueue' = {}
  BY DEF EndWave
<1>2. /\ Len(levels) \in Nat /\ Len(levels') = Len(levels) + 1
      /\ levels'[Len(levels) + 1] = level
      /\ \A i \in 1 .. Len(levels) : levels'[i] = levels[i]
  BY <1>1, LevelFacts DEF SortInvariant, SortTypes
<1>3. \A t \in queue' \cup level' : graph'.deps[t] \cap levels'[Len(levels')] # {}
  BY <1>1, <1>2 DEF Tight
<1>4. ASSUME NEW i \in 1 .. Len(levels') PROVE levels'[i] # {}
  <2>1. CASE i \in 1 .. Len(levels)
    BY <1>2, <2>1 DEF Tight
  <2>2. CASE i = Len(levels) + 1
    BY <1>1, <1>2, <2>2
  <2> QED  BY <1>2, <2>1, <2>2
<1>5. ASSUME NEW i \in 2 .. Len(levels'), NEW t \in levels'[i]
      PROVE  graph.deps[t] \cap levels'[i - 1] # {}
  <2>1. CASE i \in 2 .. Len(levels)
    BY <1>2, <1>5, <2>1 DEF Tight
  <2>2. CASE i = Len(levels) + 1
    <3>1. t \in level /\ levels # <<>> /\ levels'[i - 1] = levels[Len(levels)]
      BY <1>2, <1>5, <2>2
    <3> QED  BY <3>1 DEF Tight
  <2> QED  BY <1>2, <2>1, <2>2
<1> QED  BY <1>1, <1>3, <1>4, <1>5 DEF Tight

\* The passes leave the sort alone.
LEMMA TightStays ==
    ASSUME Tight, UNCHANGED <<graph, queue, nextQueue, level, levels>>
    PROVE  Tight'
BY DEF Tight

-----------------------------------------------------------------------------
(* The first pass, the trace and the estimate.                              *)

\* The latest finish of some tasks is a natural that none of them exceeds.
LEMMA LatestFinishIs ==
    ASSUME SortInvariant, earliestFinish \in [graph.tasks -> Nat],
           NEW S \in SUBSET graph.tasks
    PROVE  /\ LatestFinish(S) \in Nat
           /\ \A d \in S : earliestFinish[d] <= LatestFinish(S)
           /\ S = {} => LatestFinish(S) = 0
           /\ LatestFinish(S) = 0 \/ \E d \in S : LatestFinish(S) = earliestFinish[d]
<1>1. LargestOf(earliestFinish, S)
  BY LevelFacts, ValuesFinite
<1>2. IsLargest(LatestFinish(S), {0} \cup {earliestFinish[d] : d \in S})
  BY <1>1 DEF LatestFinish, LargestOf
<1>3. \A d \in S : earliestFinish[d] \in Nat
  OBVIOUS
<1> QED  BY <1>2, <1>3 DEF IsLargest

LEMMA LatestFinishStays ==
    ASSUME NEW S, \A d \in S : earliestFinish'[d] = earliestFinish[d]
    PROVE  LatestFinish(S)' = LatestFinish(S)
<1>1. {earliestFinish'[d] : d \in S} = {earliestFinish[d] : d \in S}
  OBVIOUS
<1> QED  BY <1>1 DEF LatestFinish

LEMMA FinishedStays ==
    ASSUME NEW t, Finished(t), graph' = graph, earliestFinish'[t] = earliestFinish[t],
           \A d \in graph.deps[t] : earliestFinish'[d] = earliestFinish[d]
    PROVE  Finished(t)'
BY LatestFinishStays DEF Finished

\* While the sort runs, no pass has begun.
LEMMA SortStepPasses ==
    ASSUME SortInvariant, PathTypes, Passed, pc = "sort", pc' = "sort",
           UNCHANGED <<graph, earliestFinish, path, cursor, total>>,
           Len(levels') \in Nat, Len(levels) <= Len(levels')
    PROVE  PathTypes' /\ Passed' /\ Traced' /\ Estimated'
<1>1. PathTypes'
  BY LevelFacts DEF PathTypes
<1> QED  BY <1>1 DEF Passed, Traced, Estimated

LEMMA PathInvariantInit == Init => PathInvariant
<1> SUFFICES ASSUME Init PROVE PathInvariant
  OBVIOUS
<1>1. Tight
  BY TightInit
<1>2. PathTypes
  <2>1. levels = <<>> /\ Len(levels) = 0
    BY DEF Init
  <2>2. path \in Seq(graph.tasks)
    BY DEF Init
  <2> QED  BY <2>1, <2>2 DEF Init, PathTypes
<1>3. Passed /\ Traced /\ Estimated
  BY DEF Init, Passed, Traced, Estimated
<1> QED  BY <1>1, <1>2, <1>3 DEF PathInvariant

LEMMA EndSortPath ==
    ASSUME SortInvariant, PathInvariant, EndSort
    PROVE  PathInvariant'
<1>1. /\ UNCHANGED <<graph, queue, nextQueue, level, levels, earliestFinish, path, cursor, total>>
      /\ pc = "sort" /\ pc' \in {"finish", "raised"}
  BY DEF EndSort, sorting
<1>2. Tight' /\ PathTypes'
  BY <1>1, TightStays DEF PathInvariant, PathTypes
<1>3. Before(cursor)' = {}
  BY <1>1, BeforeEnds DEF PathInvariant, Passed, Before
<1>4. Passed' /\ Traced' /\ Estimated'
  BY <1>1, <1>3 DEF PathInvariant, Passed, Traced, Estimated
<1> QED  BY <1>2, <1>4 DEF PathInvariant

LEMMA FinishLevelPath ==
    ASSUME SortInvariant, PathInvariant, FinishLevel
    PROVE  PathInvariant'
<1> DEFINE new(t) == LatestFinish(graph.deps[t]) + graph.minutes[t]
<1>0. /\ PathTypes /\ Passed /\ Tight
      /\ \A t \in Before(cursor) : Finished(t)
  BY DEF PathInvariant, Passed, FinishLevel
<1>1. /\ UNCHANGED <<graph, pc, queue, nextQueue, level, levels, path, total>>
      /\ pc = "finish" /\ cursor \in 1 .. Len(levels) /\ cursor' = cursor + 1
      /\ cursor \in Nat /\ Len(levels) \in Nat
  BY <1>0, LevelFacts DEF FinishLevel, sorting, PathTypes
<1>2. \A t \in graph.tasks :
          earliestFinish'[t] = IF t \in levels[cursor] THEN new(t) ELSE earliestFinish[t]
  BY DEF FinishLevel
<1>3. \A t \in graph.tasks : new(t) \in Nat
  <2> SUFFICES ASSUME NEW t \in graph.tasks PROVE new(t) \in Nat
    OBVIOUS
  <2>1. graph.deps[t] \in SUBSET graph.tasks /\ graph.minutes[t] \in Nat
    BY LevelFacts
  <2>2. LatestFinish(graph.deps[t]) \in Nat
    BY <1>0, <2>1, LatestFinishIs DEF PathTypes
  <2> QED  BY <2>1, <2>2
<1>4. earliestFinish' \in [graph.tasks -> Nat]
  BY <1>0, <1>3 DEF FinishLevel, PathTypes
<1>5. Before(cursor) \subseteq graph.tasks /\ levels[cursor] \subseteq graph.tasks
  BY <1>1, LevelFacts DEF Before
<1>6. \A d \in Before(cursor) : earliestFinish'[d] = earliestFinish[d]
  BY <1>1, <1>2, <1>5, LevelFacts
<1>7. ASSUME NEW t \in levels[cursor] PROVE Finished(t)'
  <2>1. graph.deps[t] \subseteq Before(cursor)
    BY <1>1, LevelFacts
  <2>2. LatestFinish(graph.deps[t])' = LatestFinish(graph.deps[t])
    BY <1>1, <1>6, <2>1, LatestFinishStays DEF LatestFinish
  <2> QED  BY <1>1, <1>2, <1>5, <2>2 DEF Finished
<1>8. ASSUME NEW t \in Before(cursor) PROVE Finished(t)'
  <2>1. PICK i \in 1 .. cursor - 1 : t \in levels[i]
    BY DEF Before
  <2>2. i \in 1 .. Len(levels)
    BY <1>1
  <2>3. graph.deps[t] \subseteq Before(i)
    BY <2>1, <2>2, LevelFacts
  <2>4. Before(i) \subseteq Before(cursor)
    BY <1>1 DEF Before
  <2> QED  BY <1>0, <1>1, <1>6, <2>3, <2>4, FinishedStays
<1>9. Before(cursor)' = Before(cursor) \cup levels[cursor]
  <2>1. Before(cursor)' = Before(cursor + 1)
    BY <1>1 DEF Before
  <2> QED  BY <1>1, <2>1, BeforeGrows
<1>10. Tight' /\ PathTypes'
  BY <1>0, <1>1, <1>4, TightStays DEF PathTypes
<1>11. Passed'
  BY <1>0, <1>1, <1>7, <1>8, <1>9 DEF Passed
<1>12. Traced' /\ Estimated'
  BY <1>1 DEF Traced, Estimated
<1> QED  BY <1>10, <1>11, <1>12 DEF PathInvariant

\* MinutesOf adds up the minutes of a set of tasks.
LEMMA MinutesOfSums ==
    ASSUME SortInvariant
    PROVE  SumSteps(SUBSET graph.tasks, graph.minutes, MinutesOf)
<1> DEFINE D == SUBSET graph.tasks
           f == graph.minutes
           Step(g) == [S \in D |-> IF S = {} THEN 0
                          ELSE f[CHOOSE t \in S : TRUE] + g[S \ {CHOOSE t \in S : TRUE}]]
<1>1. PICK g : SumSteps(D, f, g)
  BY LevelFacts, SumExists
<1>2. g = Step(g)
  BY <1>1 DEF SumSteps
<1>3. MinutesOf = CHOOSE h : h = Step(h)
  BY DEF MinutesOf
<1>4. MinutesOf = Step(MinutesOf)
  <2> HIDE DEF Step
  <2> QED  BY <1>2, <1>3
<1>5. \A S \in D : MinutesOf[S] = IF S = {} THEN 0
          ELSE f[CHOOSE t \in S : TRUE] + MinutesOf[S \ {CHOOSE t \in S : TRUE}]
  BY <1>4
<1> DEFINE Bad == {S \in D : MinutesOf[S] \notin Nat}
<1>6. Bad = {}
  <2> SUFFICES ASSUME Bad # {} PROVE FALSE
    OBVIOUS
  <2>1. Bad \in SUBSET (SUBSET graph.tasks)
    OBVIOUS
  <2>2. PICK S : Minimal(S, Bad)
    <3> HIDE DEF Bad
    <3> QED  BY <2>1, LevelFacts, MinimalSubset
  <2>3. S \in D /\ MinutesOf[S] \notin Nat /\ S # {}
    <3>1. S \in D /\ MinutesOf[S] \notin Nat
      BY <2>2 DEF Minimal
    <3>2. MinutesOf[{}] = 0
      BY <1>5
    <3> QED  BY <3>1, <3>2
  <2>4. PICK c : c = CHOOSE t \in S : TRUE
    OBVIOUS
  <2>5. c \in S /\ MinutesOf[S] = f[c] + MinutesOf[S \ {c}]
    BY <1>5, <2>3, <2>4
  <2>6. MinutesOf[S \ {c}] \in Nat
    BY <2>2, <2>3, <2>5 DEF Minimal
  <2>7. f[c] \in Nat
    BY <2>3, <2>5, LevelFacts
  <2> QED  BY <2>3, <2>5, <2>6, <2>7
<1>7. MinutesOf \in [D -> Nat]
  <2>1. \A S \in D : MinutesOf[S] \in Nat
    BY <1>6
  <2>2. MinutesOf = [S \in D |-> MinutesOf[S]]
    BY <1>4
  <2> QED  BY <2>1, <2>2
<1> QED  BY <1>5, <1>7 DEF SumSteps

LEMMA SingleIsSeq ==
    ASSUME NEW T, NEW t \in T
    PROVE  <<t>> \in Seq(T)
OBVIOUS

LEMMA EndPathPath ==
    ASSUME SortInvariant, PathInvariant, EndPath
    PROVE  PathInvariant'
<1>0. /\ PathTypes /\ Passed /\ Tight
      /\ pc = "finish" /\ total = 0 /\ path = <<>>
  BY DEF PathInvariant, Passed, EndPath
<1>1. /\ UNCHANGED <<graph, queue, nextQueue, level, levels, earliestFinish, total>>
      /\ cursor' = 1
  BY DEF EndPath, sorting
<1>2. cursor = Len(levels) + 1
  BY <1>0, LevelFacts DEF EndPath, PathTypes
<1>3. \A t \in graph.tasks : Finished(t)
  <2>1. Before(cursor) = Placed
    BY <1>2, BeforeEnds
  <2>2. Placed = graph.tasks
    BY <1>0 DEF SortInvariant, Loops
  <2> QED  BY <1>0, <2>1, <2>2 DEF Passed
<1>4. \A t \in graph.tasks : Finished(t)'
  BY <1>1, <1>3, FinishedStays, LevelFacts
<1>5. Before(cursor)' = {}
  BY <1>1, BeforeEnds DEF Before
<1>6. Tight'
  BY <1>0, <1>1, TightStays
<1>7. CASE graph.tasks = {}
  <2>1. path' = <<>> /\ pc' = "estimate"
    BY <1>7 DEF EndPath
  <2>2. PathTypes'
    BY <1>0, <1>1, <2>1, LevelFacts DEF PathTypes
  <2>3. Passed'
    BY <1>0, <1>1, <1>4, <2>1 DEF Passed
  <2>4. Traced'
    BY <1>1, <1>7, <2>1 DEF Traced, IsChain
  <2>5. Estimated'
    <3>1. MinutesOf[{}] = 0
      BY MinutesOfSums DEF SumSteps
    <3>2. MinutesOf' = MinutesOf
      BY <1>1 DEF MinutesOf
    <3>3. MinutesOf[Before(cursor)]' = 0 /\ total' = 0 /\ total' = cursor' - 1
      BY <1>0, <1>1, <1>5, <3>1, <3>2
    <3>4. (\A t \in Before(cursor) : earliestFinish[t] <= total)'
      BY <1>5
    <3>5. (total <= MinutesOf[Before(cursor)])'
      BY <3>3
    <3> QED  BY <2>1, <3>3, <3>4, <3>5 DEF Estimated
  <2> QED  BY <1>6, <2>2, <2>3, <2>4, <2>5 DEF PathInvariant
<1>8. CASE graph.tasks # {}
  <2>1. PICK t \in graph.tasks : /\ earliestFinish[t] = LatestFinish(graph.tasks)
                                 /\ path' = <<t>> /\ pc' = "trace"
    BY <1>8 DEF EndPath
  <2>2. Len(path') = 1 /\ path'[1] = t /\ path' # <<>>
    BY <2>1
  <2>3. PathTypes'
    <3>1. <<t>> \in Seq(graph.tasks)
      BY SingleIsSeq
    <3> QED  BY <1>0, <1>1, <2>1, <3>1, LevelFacts DEF PathTypes
  <2>4. Passed'
    BY <1>0, <1>1, <1>4, <2>1 DEF Passed
  <2>5. Traced'
    <3>0. PICK w : w = [i \in 0 .. 1 |-> IF i = 0 THEN 0 ELSE graph.minutes[t]]
      OBVIOUS
    <3>1. graph.minutes[t] \in Nat /\ earliestFinish[t] \in Nat
      BY <1>0, LevelFacts DEF PathTypes
    <3>2. /\ w \in [0 .. 1 -> Nat] /\ w[0] = 0 /\ w[1] = graph.minutes[t]
      BY <3>0, <3>1
    <3>3. Sums(path', graph.minutes, w)
      BY <2>2, <3>1, <3>2 DEF Sums
    <3>4. Spans(path, w)'
      BY <1>1, <2>2, <3>1, <3>2, <3>3 DEF Spans, Last
    <3>5. IsChain(path)'
      BY <2>2 DEF IsChain
    <3>6. LatestFinish(graph.tasks)' = LatestFinish(graph.tasks)
      BY <1>1 DEF LatestFinish
    <3> QED  BY <1>1, <1>8, <2>1, <2>2, <3>1, <3>4, <3>5, <3>6 DEF Traced, Last
  <2>6. Estimated'
    BY <2>1 DEF Estimated
  <2> QED  BY <1>6, <2>3, <2>4, <2>5, <2>6 DEF PathInvariant
<1> QED  BY <1>7, <1>8

PrependOf(u, d, s, T) ==
    /\ u \in Seq(T) /\ Len(u) = Len(s) + 1 /\ u # <<>>
    /\ u[1] = d /\ \A i \in 2 .. Len(s) + 1 : u[i] = s[i - 1]
    /\ Last(u) = Last(s)

LEMMA Prepended ==
    ASSUME NEW T, NEW s \in Seq(T), s # <<>>, NEW d \in T
    PROVE  PrependOf(<<d>> \o s, d, s, T)
<1> DEFINE u == <<d>> \o s
<1>1. Len(s) \in Nat /\ Len(s) > 0 /\ <<d>> \in Seq(T) /\ Len(<<d>>) = 1
  OBVIOUS
<1>2. u \in Seq(T) /\ Len(u) = Len(s) + 1
  BY <1>1
<1>3. u[1] = d /\ \A i \in 2 .. Len(s) + 1 : u[i] = s[i - 1]
  BY <1>1
<1>4. Last(u) = Last(s)
  BY <1>1, <1>2, <1>3 DEF Last
<1> HIDE DEF u
<1>5. PrependOf(u, d, s, T)
  BY <1>1, <1>2, <1>3, <1>4 DEF PrependOf
<1> QED  BY <1>5 DEF u

SumsTo(s, f, n) == \E v : Sums(s, f, v) /\ v[Len(s)] = n

LEMMA SumsPrepended ==
    ASSUME NEW T, NEW s \in Seq(T), s # <<>>, NEW d \in T, NEW u, PrependOf(u, d, s, T),
           NEW f \in [T -> Nat], NEW w, Sums(s, f, w)
    PROVE  SumsTo(u, f, f[d] + w[Len(s)])
<1>0. PICK n \in Nat : n = Len(s)
  OBVIOUS
<1>1. /\ Len(u) = n + 1 /\ u[1] = d /\ n > 0
      /\ \A i \in 2 .. n + 1 : u[i] = s[i - 1]
  BY <1>0 DEF PrependOf
<1>2. /\ w \in [0 .. n -> Nat] /\ w[0] = 0
      /\ \A i \in 1 .. n : w[i] = w[i - 1] + f[s[i]]
  BY <1>0 DEF Sums
<1>3. \A i \in 1 .. n : f[s[i]] \in Nat
  BY <1>0
<1>4. PICK m \in Nat : m = f[d]
  OBVIOUS
<1>5. PICK v : v = [i \in 0 .. n + 1 |-> IF i = 0 THEN 0 ELSE m + w[i - 1]]
  OBVIOUS
<1>6. \A i \in 1 .. n + 1 : i - 1 \in 0 .. n /\ w[i - 1] \in Nat
  BY <1>2
<1>7. v \in [0 .. n + 1 -> Nat] /\ v[0] = 0 /\ \A i \in 1 .. n + 1 : v[i] = m + w[i - 1]
  BY <1>5, <1>6
<1>8. ASSUME NEW i \in 1 .. n + 1 PROVE v[i] = v[i - 1] + f[u[i]]
  <2>1. CASE i = 1
    BY <1>1, <1>2, <1>4, <1>7, <2>1
  <2>2. CASE i # 1
    <3>1. PICK j \in 1 .. n : i = j + 1
      BY <2>2
    <3>2. v[i] = m + w[j] /\ v[i - 1] = m + w[j - 1] /\ u[i] = s[j]
      BY <1>1, <1>7, <3>1
    <3>3. w[j] = w[j - 1] + f[s[j]] /\ w[j - 1] \in Nat /\ f[s[j]] \in Nat
      BY <1>2, <1>3, <3>1
    <3>4. PICK a \in Nat, b \in Nat : a = w[j - 1] /\ b = f[s[j]]
      BY <3>3
    <3>5. v[i] = m + (a + b) /\ v[i - 1] = m + a /\ f[u[i]] = b
      BY <3>2, <3>3, <3>4
    <3> QED  BY <3>5
  <2> QED  BY <2>1, <2>2
<1>9. Sums(u, f, v)
  BY <1>1, <1>7, <1>8 DEF Sums
<1>10. v[n + 1] = m + w[n]
  BY <1>7
<1> QED  BY <1>0, <1>1, <1>4, <1>9, <1>10 DEF SumsTo

LEMMA TracePath ==
    ASSUME SortInvariant, PathInvariant, NEW d \in graph.tasks, Trace(d)
    PROVE  PathInvariant'
<1>0. /\ PathTypes /\ Passed /\ Tight /\ pc = "trace" /\ path # <<>>
      /\ path \in Seq(graph.tasks) /\ Len(path) \in Nat /\ Len(path) > 0
      /\ earliestFinish \in [graph.tasks -> Nat]
  BY DEF PathInvariant, Traced, Trace, PathTypes
<1>1. PICK first : first = path[1]
  OBVIOUS
<1>2. /\ UNCHANGED <<graph, pc, queue, nextQueue, level, levels, earliestFinish, cursor, total>>
      /\ d \in graph.deps[first] /\ path' = <<d>> \o path
      /\ earliestFinish[d] = LatestFinish(graph.deps[first])
  BY <1>1 DEF Trace, sorting
<1>3. /\ path' \in Seq(graph.tasks) /\ Len(path') = Len(path) + 1 /\ path'[1] = d
      /\ \A i \in 2 .. Len(path) + 1 : path'[i] = path[i - 1]
      /\ path' # <<>> /\ Last(path') = Last(path)
  <2>1. PrependOf(path', d, path, graph.tasks)
    BY <1>0, <1>2, Prepended
  <2> QED  BY <2>1 DEF PrependOf
<1>4. first \in graph.tasks /\ Last(path) \in graph.tasks
  BY <1>0, <1>1 DEF Last
<1>5. /\ earliestFinish[first] = earliestFinish[d] + graph.minutes[first]
      /\ earliestFinish[d] \in Nat /\ earliestFinish[first] \in Nat
      /\ earliestFinish[Last(path)] \in Nat
      /\ graph.minutes[first] \in Nat /\ graph.minutes[d] \in Nat
  BY <1>0, <1>2, <1>4, LevelFacts DEF Passed, Finished
<1>6. PICK w : Spans(path, w)
  BY <1>0 DEF PathInvariant, Traced
<1>7. /\ IsChain(path) /\ earliestFinish[Last(path)] = LatestFinish(graph.tasks)
      /\ Uniform => Len(path) + earliestFinish[first] = earliestFinish[Last(path)] + 1
      /\ graph.tasks # {}
  BY <1>0, <1>1 DEF PathInvariant, Traced
<1>8. /\ Sums(path, graph.minutes, w) /\ w[Len(path)] \in Nat
      /\ w[Len(path)] + earliestFinish[first] = earliestFinish[Last(path)] + graph.minutes[first]
  BY <1>0, <1>1, <1>6 DEF Spans, Sums
<1>9. PICK v : Sums(path', graph.minutes, v) /\ v[Len(path')] = graph.minutes[d] + w[Len(path)]
  <2>1. PrependOf(path', d, path, graph.tasks)
    BY <1>0, <1>2, Prepended
  <2>2. SumsTo(path', graph.minutes, graph.minutes[d] + w[Len(path)])
    BY <1>0, <1>8, <2>1, LevelFacts, SumsPrepended
  <2> QED  BY <2>2 DEF SumsTo
<1>10. Spans(path, v)'
  <2>1. PICK x \in Nat, e \in Nat, l \in Nat, g \in Nat, m \in Nat :
            /\ x = w[Len(path)] /\ e = earliestFinish[d] /\ l = earliestFinish[Last(path)]
            /\ g = graph.minutes[first] /\ m = graph.minutes[d]
    BY <1>5, <1>8
  <2>2. x + (e + g) = l + g
    BY <1>5, <1>8, <2>1
  <2>3. v[Len(path')] + earliestFinish[d] = earliestFinish[Last(path)] + graph.minutes[d]
    <3>1. v[Len(path')] = m + x
      BY <1>9, <2>1
    <3>2. (m + x) + e = l + m
      BY <2>2
    <3> QED  BY <2>1, <3>1, <3>2
  <2> QED  BY <1>2, <1>3, <1>9, <2>3 DEF Spans
<1>11. IsChain(path)'
  <2> SUFFICES ASSUME NEW i \in 1 .. Len(path) PROVE path'[i] \in graph.deps[path'[i + 1]]
    BY <1>0, <1>2, <1>3 DEF IsChain
  <2>1. path'[i + 1] = path[i]
    BY <1>0, <1>3
  <2>2. CASE i = 1
    BY <1>1, <1>2, <1>3, <2>1, <2>2
  <2>3. CASE i # 1
    <3>1. PICK j \in 1 .. Len(path) - 1 : i = j + 1
      BY <1>0, <2>3
    <3>2. path[j] \in graph.deps[path[j + 1]]
      BY <1>7 DEF IsChain
    <3>3. i \in 2 .. Len(path) + 1 /\ i - 1 = j
      BY <1>0, <3>1
    <3>4. path'[i] = path[j]
      BY <1>3, <3>3
    <3> QED  BY <2>1, <3>1, <3>2, <3>4
  <2> QED  BY <2>2, <2>3
<1>12. ASSUME Uniform PROVE Len(path') + earliestFinish[d] = earliestFinish[Last(path)] + 1
  <2>1. PICK n \in Nat, e \in Nat, l \in Nat :
            /\ n = Len(path) /\ e = earliestFinish[d] /\ l = earliestFinish[Last(path)]
    BY <1>0, <1>5
  <2>2. graph.minutes[first] = 1
    BY <1>4, <1>12 DEF Uniform
  <2>3. n + (e + 1) = l + 1
    BY <1>5, <1>7, <1>12, <2>1, <2>2
  <2>4. (n + 1) + e = l + 1
    BY <2>3
  <2> QED  BY <1>3, <2>1, <2>4
<1>13. Traced'
  <2>1. LatestFinish(graph.tasks)' = LatestFinish(graph.tasks)
    BY <1>2 DEF LatestFinish
  <2> QED
    BY <1>0, <1>2, <1>3, <1>7, <1>10, <1>11, <1>12, <2>1, SMTT(40) DEF Traced, Uniform
<1>14. Tight' /\ PathTypes'
  BY <1>0, <1>2, <1>3, TightStays DEF PathTypes
<1>15. Passed'
  <2>1. \A t \in graph.tasks : Finished(t)'
    BY <1>0, <1>2, FinishedStays, LevelFacts DEF Passed
  <2> QED  BY <1>0, <1>2, <2>1 DEF Passed
<1>16. Estimated'
  BY <1>0, <1>2 DEF Estimated
<1> QED  BY <1>13, <1>14, <1>15, <1>16 DEF PathInvariant

LEMMA EndTracePath ==
    ASSUME SortInvariant, PathInvariant, EndTrace
    PROVE  PathInvariant'
<1>0. /\ PathTypes /\ Passed /\ Tight /\ Traced /\ pc = "trace" /\ total = 0 /\ cursor = 1
  BY DEF PathInvariant, Passed, EndTrace
<1>1. /\ UNCHANGED <<graph, queue, nextQueue, level, levels, earliestFinish, path, cursor, total>>
      /\ pc' = "estimate" /\ graph.deps[path[1]] = {}
  BY DEF EndTrace, sorting
<1>2. Tight' /\ PathTypes'
  BY <1>0, <1>1, TightStays DEF PathTypes
<1>3. Passed'
  <2>1. \A t \in graph.tasks : Finished(t)'
    BY <1>0, <1>1, FinishedStays, LevelFacts DEF Passed
  <2> QED  BY <1>1, <2>1 DEF Passed
<1>4. Traced'
  <2>1. LatestFinish(graph.tasks)' = LatestFinish(graph.tasks)
    BY <1>1 DEF LatestFinish
  <2> QED  BY <1>0, <1>1, <2>1 DEF Traced, Uniform, Spans, Last, IsChain
<1>5. Estimated'
  <2>1. Before(cursor)' = {}
    BY <1>0, <1>1, BeforeEnds DEF Before
  <2>2. MinutesOf' = MinutesOf
    BY <1>1 DEF MinutesOf
  <2>3. MinutesOf[{}] = 0
    BY MinutesOfSums DEF SumSteps
  <2>4. (total <= MinutesOf[Before(cursor)])'
    BY <1>0, <1>1, <2>1, <2>2, <2>3
  <2>5. total' = cursor' - 1
    BY <1>0, <1>1
  <2> QED  BY <1>1, <2>1, <2>4, <2>5 DEF Estimated
<1> QED  BY <1>2, <1>3, <1>4, <1>5 DEF PathInvariant

\* The longest task of a level, and what the level adds to the sum.
LEMMA LevelMinutes ==
    ASSUME SortInvariant, Tight, NEW n \in 1 .. Len(levels)
    PROVE  /\ Largest({graph.minutes[t] : t \in levels[n]}) \in Nat
           /\ \A t \in levels[n] :
                  graph.minutes[t] <= Largest({graph.minutes[u] : u \in levels[n]})
           /\ Uniform => Largest({graph.minutes[t] : t \in levels[n]}) = 1
           /\ MinutesOf[Before(n)] + Largest({graph.minutes[t] : t \in levels[n]})
                  <= MinutesOf[Before(n + 1)]
           /\ MinutesOf[Before(n)] \in Nat /\ MinutesOf[Before(n + 1)] \in Nat
<1> DEFINE V == {graph.minutes[t] : t \in levels[n]}
           m == Largest(V)
<1>1. /\ levels[n] \in SUBSET graph.tasks /\ levels[n] # {} /\ n \in Nat
      /\ Before(n) \in SUBSET graph.tasks /\ Before(n + 1) = Before(n) \cup levels[n]
      /\ levels[n] \cap Before(n) = {}
  BY LevelFacts, BeforeGrows DEF Tight, Before
<1>2. V \in SUBSET Nat /\ IsFiniteSet(V) /\ V # {}
  <2>1. FiniteValues(graph.minutes, levels[n])
    BY <1>1, LevelFacts, ValuesFinite
  <2>2. PICK t \in levels[n] : TRUE
    BY <1>1
  <2> QED  BY <2>1, <2>2 DEF FiniteValues
<1>3. IsLargest(m, V)
  <2> HIDE DEF V
  <2> QED  BY <1>2, LargestIsLargest
<1>4. PICK t \in levels[n] : m = graph.minutes[t]
  BY <1>3 DEF IsLargest
<1>5. \A u \in levels[n] : graph.minutes[u] <= m
  BY <1>3 DEF IsLargest
<1>6. m \in Nat
  BY <1>2, <1>3 DEF IsLargest
<1> HIDE DEF V, m
<1> DEFINE W == Before(n) \cup {t}
<1>7. W \in SUBSET graph.tasks /\ W \in SUBSET Before(n + 1) /\ Before(n + 1) \in SUBSET graph.tasks
      /\ W \ {t} = Before(n) /\ t \in W
  BY <1>1, <1>4
<1> HIDE DEF W
<1>8. SumSteps(SUBSET graph.tasks, graph.minutes, MinutesOf)
  BY MinutesOfSums
<1>9. MinutesOf[W] = graph.minutes[t] + MinutesOf[W \ {t}]
  <2>1. IsFiniteSet(graph.tasks) /\ graph.minutes \in [graph.tasks -> Nat]
    BY LevelFacts
  <2>2. W \in SUBSET graph.tasks /\ t \in W
    BY <1>7
  <2>3. Splits(graph.minutes, MinutesOf, W, t)
    BY <1>8, <2>1, <2>2, SumAnyOrder
  <2> QED  BY <2>3 DEF Splits
<1>10. MinutesOf[W] <= MinutesOf[Before(n + 1)]
  BY <1>7, <1>8, LevelFacts, SumMonotone
<1>11. MinutesOf[W] \in Nat /\ MinutesOf[Before(n)] \in Nat /\ MinutesOf[Before(n + 1)] \in Nat
  BY <1>1, <1>7, <1>8 DEF SumSteps
<1>12. MinutesOf[Before(n)] + m <= MinutesOf[Before(n + 1)]
  <2>1. MinutesOf[W] = m + MinutesOf[Before(n)]
    BY <1>4, <1>7, <1>9
  <2> QED  BY <1>6, <1>10, <1>11, <2>1
<1>13. Uniform => m = 1
  BY <1>1, <1>4 DEF Uniform
<1> QED  BY <1>5, <1>6, <1>11, <1>12, <1>13 DEF m, V

LEMMA EstimateLevelPath ==
    ASSUME SortInvariant, PathInvariant, EstimateLevel
    PROVE  PathInvariant'
<1>0. /\ PathTypes /\ Passed /\ Tight /\ Traced /\ Estimated /\ pc = "estimate"
      /\ cursor \in 1 .. Len(levels) /\ Len(levels) \in Nat /\ cursor \in Nat /\ total \in Nat
  BY LevelFacts DEF PathInvariant, PathTypes, EstimateLevel
<1>1. PICK m : m = Largest({graph.minutes[t] : t \in levels[cursor]})
  OBVIOUS
<1>2. /\ UNCHANGED <<graph, pc, queue, nextQueue, level, levels, earliestFinish, path>>
      /\ total' = total + m /\ cursor' = cursor + 1
  BY <1>1 DEF EstimateLevel, sorting
<1>3. /\ m \in Nat /\ \A t \in levels[cursor] : graph.minutes[t] <= m
      /\ Uniform => m = 1
      /\ MinutesOf[Before(cursor)] + m <= MinutesOf[Before(cursor + 1)]
      /\ MinutesOf[Before(cursor)] \in Nat /\ MinutesOf[Before(cursor + 1)] \in Nat
  BY <1>0, <1>1, LevelMinutes
<1>4. Tight' /\ PathTypes'
  BY <1>0, <1>2, <1>3, TightStays DEF PathTypes
<1>5. \A t \in graph.tasks : Finished(t)
  BY <1>0 DEF Passed
<1>6. Passed'
  <2>1. \A t \in graph.tasks : Finished(t)'
    BY <1>2, <1>5, FinishedStays, LevelFacts
  <2> QED  BY <1>0, <1>2, <2>1 DEF Passed
<1>7. Traced'
  <2>1. LatestFinish(graph.tasks)' = LatestFinish(graph.tasks)
    BY <1>2 DEF LatestFinish
  <2> QED  BY <1>0, <1>2, <2>1 DEF Traced, Uniform, Spans, Last, IsChain
<1>8. Estimated'
  <2>1. Before(cursor)' = Before(cursor + 1) /\ MinutesOf' = MinutesOf
    BY <1>2 DEF Before, MinutesOf
  <2>2. ASSUME NEW t \in Before(cursor + 1) PROVE earliestFinish[t] <= total + m
    <3>1. t \in Before(cursor) \/ t \in levels[cursor]
      BY <1>0, BeforeGrows
    <3>2. t \in graph.tasks /\ levels[cursor] \subseteq graph.tasks /\ Before(cursor) \subseteq graph.tasks
      BY <1>0, <3>1, LevelFacts DEF Before
    <3>3. earliestFinish[t] \in Nat
      BY <1>0, <3>2 DEF PathTypes
    <3>4. CASE t \in Before(cursor)
      BY <1>0, <1>3, <3>3, <3>4 DEF Estimated
    <3>5. CASE t \in levels[cursor]
      <4>1. graph.deps[t] \in SUBSET graph.tasks /\ graph.deps[t] \subseteq Before(cursor)
        BY <1>0, <3>2, <3>5, LevelFacts
      <4>2. /\ LatestFinish(graph.deps[t]) \in Nat
            /\ LatestFinish(graph.deps[t]) = 0
               \/ \E d \in graph.deps[t] : LatestFinish(graph.deps[t]) = earliestFinish[d]
        BY <1>0, <4>1, LatestFinishIs DEF PathTypes
      <4>3. LatestFinish(graph.deps[t]) <= total
        BY <1>0, <4>1, <4>2 DEF Estimated
      <4>4. earliestFinish[t] = LatestFinish(graph.deps[t]) + graph.minutes[t]
        BY <1>5, <3>2 DEF Finished
      <4>5. graph.minutes[t] \in Nat /\ graph.minutes[t] <= m
        BY <1>3, <3>2, <3>5, LevelFacts
      <4> QED  BY <1>0, <1>3, <4>2, <4>3, <4>4, <4>5
    <3> QED  BY <3>1, <3>4, <3>5
  <2>3. total + m <= MinutesOf[Before(cursor + 1)]
    BY <1>0, <1>3 DEF Estimated
  <2>4. (\A t \in Before(cursor) : earliestFinish[t] <= total)'
    BY <1>2, <2>1, <2>2
  <2>5. (total <= MinutesOf[Before(cursor)])'
    BY <1>2, <2>1, <2>3
  <2>6. (Uniform => total = cursor - 1)'
    <3>1. SUFFICES ASSUME Uniform PROVE total' = cursor' - 1
      BY <1>2 DEF Uniform
    <3>2. total = cursor - 1 /\ m = 1
      BY <1>0, <1>3, <3>1 DEF Estimated
    <3> QED  BY <1>0, <1>2, <3>2
  <2> QED  BY <1>0, <1>2, <2>4, <2>5, <2>6 DEF Estimated
<1> QED  BY <1>4, <1>6, <1>7, <1>8 DEF PathInvariant

\* Steps that change nothing a pass depends on, but perhaps end the estimate.
LEMMA PathStays ==
    ASSUME SortInvariant, PathInvariant,
           UNCHANGED <<graph, queue, nextQueue, level, levels, earliestFinish, path, cursor, total>>,
           pc' = pc \/ (pc = "estimate" /\ pc' = "done" /\ cursor > Len(levels))
    PROVE  PathInvariant'
<1>0. PathTypes /\ Passed /\ Tight /\ Traced /\ Estimated
  BY DEF PathInvariant
<1>1. Tight' /\ PathTypes'
  BY <1>0, TightStays DEF PathTypes
<1>2. Before(cursor)' = Before(cursor) /\ MinutesOf' = MinutesOf
      /\ LatestFinish(graph.tasks)' = LatestFinish(graph.tasks)
  BY DEF Before, MinutesOf, LatestFinish
<1>3. \A t \in graph.tasks : Finished(t) => Finished(t)'
  BY FinishedStays, LevelFacts
<1>4. Passed'
  <2>1. Before(cursor) \subseteq graph.tasks
    BY <1>0, LevelFacts DEF Before, PathTypes
  <2> QED  BY <1>0, <1>2, <1>3, <2>1 DEF Passed
<1>5. Traced'
  BY <1>0, <1>2 DEF Traced, Uniform, Spans, Last, IsChain
<1>6. Estimated'
  <2>1. pc \in {"estimate", "done"} => (\A t \in Before(cursor) : earliestFinish[t] <= total)'
    BY <1>0, <1>2 DEF Estimated
  <2>2. pc \in {"estimate", "done"} => (total <= MinutesOf[Before(cursor)])'
    BY <1>0, <1>2 DEF Estimated
  <2>3. pc' = "done" => cursor' = Len(levels') + 1
    BY <1>0, LevelFacts DEF Estimated, PathTypes
  <2>4. pc \in {"estimate", "done"} => (Uniform => total = cursor - 1)'
    BY <1>0 DEF Estimated, Uniform
  <2> QED  BY <2>1, <2>2, <2>3, <2>4 DEF Estimated
<1> QED  BY <1>1, <1>4, <1>5, <1>6 DEF PathInvariant

\* The invariant of the passes, for every graph that is sorted.
THEOREM PathInvariance == Spec => []PathInvariant
<1>1. Init => PathInvariant
  BY PathInvariantInit
<1>2. SortInvariant /\ PathInvariant /\ [Next]_vars => PathInvariant'
  <2> SUFFICES ASSUME SortInvariant, PathInvariant, [Next]_vars PROVE PathInvariant'
    OBVIOUS
  <2>0. PathTypes /\ Passed /\ Tight /\ Len(levels) \in Nat /\ levels \in Seq(SUBSET graph.tasks)
    BY LevelFacts DEF PathInvariant
  <2>1. ASSUME NEW t \in graph.tasks, Drain(t) PROVE PathInvariant'
    <3>1. /\ UNCHANGED <<graph, pc, levels, earliestFinish, path, cursor, total>> /\ pc = "sort"
      BY <2>1 DEF Drain
    <3>2. Tight'
      BY <2>0, <2>1, TightDrain
    <3> QED  BY <2>0, <3>1, <3>2, SortStepPasses DEF PathInvariant
  <2>2. CASE EndWave
    <3>1. /\ UNCHANGED <<graph, pc, earliestFinish, path, cursor, total>> /\ pc = "sort"
          /\ levels' = Append(levels, level)
      BY <2>2 DEF EndWave
    <3>2. Len(levels') = Len(levels) + 1
      BY <2>0, <3>1 DEF SortInvariant, SortTypes
    <3>3. Tight'
      BY <2>0, <2>2, TightEndWave
    <3> QED  BY <2>0, <3>1, <3>2, <3>3, SortStepPasses DEF PathInvariant
  <2>3. CASE EndSort
    BY <2>3, EndSortPath
  <2>4. CASE \E t \in graph.tasks : Trace(t)
    BY <2>4, TracePath
  <2>5. CASE FinishLevel
    BY <2>5, FinishLevelPath
  <2>6. CASE EndPath
    BY <2>6, EndPathPath
  <2>7. CASE EndTrace
    BY <2>7, EndTracePath
  <2>8. CASE EstimateLevel
    BY <2>8, EstimateLevelPath
  <2>9. CASE EndEstimate
    BY <2>9, PathStays DEF EndEstimate, sorting
  <2>10. CASE UNCHANGED vars
    BY <2>10, PathStays DEF vars
  <2> QED
    BY <2>1, <2>2, <2>3, <2>4, <2>5, <2>6, <2>7, <2>8, <2>9, <2>10 DEF Next
<1> QED  BY <1>1, <1>2, SortInvariance, PTL DEF Spec

\* Where all tasks take a minute, a task finishes at the number of its level.
LEMMA FinishIsLevel ==
    ASSUME SortInvariant, PathInvariant, pc \in {"trace", "estimate", "done"}, Uniform,
           NEW n \in 1 .. Len(levels), NEW u \in levels[n]
    PROVE  earliestFinish[u] = n
<1> DEFINE Bad == {i \in 1 .. Len(levels) : \E t \in levels[i] : earliestFinish[t] # i}
<1>0. /\ Tight /\ Len(levels) \in Nat /\ earliestFinish \in [graph.tasks -> Nat]
      /\ \A t \in graph.tasks : Finished(t)
  BY LevelFacts DEF PathInvariant, PathTypes, Passed
<1>1. Bad = {}
  <2> SUFFICES ASSUME Bad # {} PROVE FALSE
    OBVIOUS
  <2>1. Bad \in SUBSET Nat
    OBVIOUS
  <2>2. PICK i \in Bad : \A k \in Bad : i <= k
    <3> HIDE DEF Bad
    <3> QED  BY <2>1, LeastNatural
  <2>3. PICK t \in levels[i] : earliestFinish[t] # i
    OBVIOUS
  <2>4. /\ t \in graph.tasks /\ graph.deps[t] \subseteq Before(i)
        /\ graph.deps[t] \in SUBSET graph.tasks
    BY LevelFacts
  <2>5. ASSUME NEW d \in graph.deps[t] PROVE earliestFinish[d] \in Nat /\ earliestFinish[d] <= i - 1
    <3>1. PICK j \in 1 .. i - 1 : d \in levels[j]
      BY <2>4 DEF Before
    <3>2. j \in 1 .. Len(levels) /\ j \notin Bad
      BY <1>0, <2>2
    <3>3. earliestFinish[d] = j
      BY <3>1, <3>2
    <3> QED  BY <3>3
  <2>6. PICK f : f = LatestFinish(graph.deps[t])
    OBVIOUS
  <2>7. /\ f \in Nat /\ \A d \in graph.deps[t] : earliestFinish[d] <= f
        /\ f = 0 \/ \E d \in graph.deps[t] : f = earliestFinish[d]
    BY <1>0, <2>4, <2>6, LatestFinishIs
  <2>8. f <= i - 1
    BY <2>5, <2>7
  <2>9. i - 1 <= f
    <3>1. CASE i = 1
      BY <2>7, <3>1
    <3>2. CASE i # 1
      <4>1. i - 1 \in 1 .. Len(levels) /\ i \in 2 .. Len(levels) /\ i - 1 \notin Bad
        BY <1>0, <2>2, <3>2
      <4>2. PICK d \in graph.deps[t] \cap levels[i - 1] : TRUE
        BY <1>0, <4>1 DEF Tight
      <4>3. earliestFinish[d] = i - 1
        BY <4>1, <4>2
      <4> QED  BY <2>7, <4>2, <4>3
    <3> QED  BY <3>1, <3>2
  <2>10. earliestFinish[t] = f + 1
    BY <1>0, <2>4, <2>6 DEF Finished, Uniform
  <2> QED  BY <2>3, <2>7, <2>8, <2>9, <2>10
<1> QED  BY <1>1

\* The forward pass computes the longest chain to each task.
LEMMA FinishIsLongest ==
    ASSUME SortInvariant, PathInvariant, pc \in {"trace", "estimate", "done"},
           NEW u \in graph.tasks
    PROVE  LongestTo[u] = earliestFinish[u]
<1> DEFINE Step(g) == [t \in graph.tasks |->
                          graph.minutes[t] + Largest({0} \cup {g[d] : d \in graph.deps[t]})]
           Bad == {i \in 1 .. Len(levels) :
                      \E t \in levels[i] : LongestTo[t] # earliestFinish[t]}
<1>0. /\ Len(levels) \in Nat /\ earliestFinish \in [graph.tasks -> Nat]
      /\ \A t \in graph.tasks : Finished(t)
      /\ Placed = graph.tasks
  BY LevelFacts DEF PathInvariant, PathTypes, Passed, SortInvariant, Loops
<1>1. earliestFinish = Step(earliestFinish)
  <2>1. ASSUME NEW t \in graph.tasks
        PROVE  earliestFinish[t] = graph.minutes[t]
                    + Largest({0} \cup {earliestFinish[d] : d \in graph.deps[t]})
    <3>1. graph.deps[t] \in SUBSET graph.tasks /\ graph.minutes[t] \in Nat
      BY LevelFacts
    <3>2. LatestFinish(graph.deps[t]) \in Nat
      BY <1>0, <3>1, LatestFinishIs
    <3>3. earliestFinish[t] = graph.minutes[t] + LatestFinish(graph.deps[t])
      BY <1>0, <3>1, <3>2 DEF Finished
    <3> QED  BY <3>3 DEF LatestFinish
  <2> QED  BY <1>0, <2>1
<1>2. LongestTo = CHOOSE g : g = Step(g)
  BY DEF LongestTo
<1>3. LongestTo = Step(LongestTo)
  <2> HIDE DEF Step
  <2> QED  BY <1>1, <1>2
<1>4. Bad = {}
  <2> SUFFICES ASSUME Bad # {} PROVE FALSE
    OBVIOUS
  <2>1. Bad \in SUBSET Nat
    OBVIOUS
  <2>2. PICK i \in Bad : \A k \in Bad : i <= k
    <3> HIDE DEF Bad
    <3> QED  BY <2>1, LeastNatural
  <2>3. PICK t \in levels[i] : LongestTo[t] # earliestFinish[t]
    OBVIOUS
  <2>4. t \in graph.tasks /\ graph.deps[t] \subseteq Before(i)
    BY LevelFacts
  <2>5. ASSUME NEW d \in graph.deps[t] PROVE LongestTo[d] = earliestFinish[d]
    <3>1. PICK j \in 1 .. i - 1 : d \in levels[j]
      BY <2>4 DEF Before
    <3>2. j \in 1 .. Len(levels) /\ j \notin Bad
      BY <1>0, <2>2
    <3> QED  BY <3>1, <3>2
  <2>6. {LongestTo[d] : d \in graph.deps[t]} = {earliestFinish[d] : d \in graph.deps[t]}
    BY <2>5
  <2>7. LongestTo[t] = graph.minutes[t] + Largest({0} \cup {LongestTo[d] : d \in graph.deps[t]})
    BY <1>3, <2>4
  <2>8. earliestFinish[t] =
            graph.minutes[t] + Largest({0} \cup {earliestFinish[d] : d \in graph.deps[t]})
    BY <1>1, <2>4
  <2> QED  BY <2>3, <2>6, <2>7, <2>8
<1>5. PICK i \in 1 .. Len(levels) : u \in levels[i]
  BY <1>0 DEF Placed
<1> QED  BY <1>4, <1>5

\* What the whole path weighs.
LEMMA PathWeight ==
    ASSUME SortInvariant, PathInvariant, pc \in {"estimate", "done"}
    PROVE  /\ path = <<>> => Weight(path) = 0
           /\ path # <<>> => /\ path[1] \in graph.tasks /\ Last(path) \in graph.tasks
                             /\ earliestFinish[path[1]] = graph.minutes[path[1]]
                             /\ Weight(path) = earliestFinish[Last(path)]
                             /\ earliestFinish[Last(path)] = LatestFinish(graph.tasks)
<1>0. /\ path \in Seq(graph.tasks) /\ earliestFinish \in [graph.tasks -> Nat]
      /\ \A t \in graph.tasks : Finished(t)
      /\ Traced
  BY DEF PathInvariant, PathTypes, Passed
<1>1. CASE path = <<>>
  <2>1. Len(path) = 0
    BY <1>1
  <2>2. PICK w : w = [i \in 0 .. 0 |-> 0]
    OBVIOUS
  <2>3. Sums(path, graph.minutes, w)
    BY <2>1, <2>2 DEF Sums
  <2>4. Weight(path) = w[Len(path)]
    BY <1>0, <2>3, WeightIsSum
  <2> QED  BY <1>1, <2>1, <2>2, <2>4
<1>2. CASE path # <<>>
  <2>1. PICK w : Spans(path, w)
    BY <1>0, <1>2 DEF Traced
  <2>2. Weight(path) = w[Len(path)] /\ w[Len(path)] \in Nat
    <3>1. Sums(path, graph.minutes, w)
      BY <2>1 DEF Spans
    <3>2. Weight(path) = w[Len(path)]
      BY <1>0, <3>1, WeightIsSum
    <3>3. Len(path) \in 0 .. Len(path)
      BY <1>0
    <3> QED  BY <3>1, <3>2, <3>3 DEF Sums
  <2>3. path[1] \in graph.tasks /\ Last(path) \in graph.tasks
    BY <1>0, <1>2 DEF Last
  <2>4. graph.deps[path[1]] = {} /\ earliestFinish[Last(path)] = LatestFinish(graph.tasks)
    BY <1>0, <1>2 DEF Traced
  <2>5. LatestFinish({}) = 0
    BY <1>0, LatestFinishIs
  <2>6. earliestFinish[path[1]] = graph.minutes[path[1]]
    <3>1. LatestFinish(graph.deps[path[1]]) = 0
      BY <2>4, <2>5
    <3>2. PICK m \in Nat : m = graph.minutes[path[1]]
      BY <2>3, LevelFacts
    <3>3. earliestFinish[path[1]] = LatestFinish(graph.deps[path[1]]) + graph.minutes[path[1]]
      BY <1>0, <2>3 DEF Finished
    <3> QED  BY <3>1, <3>2, <3>3
  <2>7. w[Len(path)] + earliestFinish[path[1]]
            = earliestFinish[Last(path)] + graph.minutes[path[1]]
    BY <2>1 DEF Spans
  <2>8. earliestFinish[path[1]] \in Nat /\ earliestFinish[Last(path)] \in Nat
    BY <1>0, <2>3
  <2> QED  BY <1>2, <2>2, <2>3, <2>4, <2>6, <2>7, <2>8
<1> QED  BY <1>1, <1>2

\* The critical path is a chain that no chain of the graph is longer than, and
\* the estimate lies between it and the sum of all tasks, for every graph.
THEOREM CriticalPathAlwaysLongest == Spec => []CriticalPathLongest
<1>1. ASSUME SortInvariant, PathInvariant PROVE CriticalPathLongest
  <2> SUFFICES ASSUME pc \in {"estimate", "done"}
               PROVE  /\ IsChain(path)
                      /\ graph.tasks # {} => path # <<>> /\ graph.deps[path[1]] = {}
                      /\ IF IsGenerated THEN Len(path) = Len(levels)
                         ELSE \A t \in graph.tasks : LongestTo[t] <= Weight(path)
                      /\ pc = "done" => EstimateCoversPath
    BY DEF CriticalPathLongest
  <2>0. /\ Tight /\ Traced /\ Estimated /\ Placed = graph.tasks
        /\ Len(levels) \in Nat /\ levels \in Seq(SUBSET graph.tasks)
        /\ earliestFinish \in [graph.tasks -> Nat] /\ total \in Nat /\ path \in Seq(graph.tasks)
    BY <1>1, LevelFacts DEF PathInvariant, PathTypes, SortInvariant, Loops
  <2>1. /\ path = <<>> => Weight(path) = 0
        /\ path # <<>> => /\ path[1] \in graph.tasks /\ Last(path) \in graph.tasks
                          /\ earliestFinish[path[1]] = graph.minutes[path[1]]
                          /\ Weight(path) = earliestFinish[Last(path)]
                          /\ earliestFinish[Last(path)] = LatestFinish(graph.tasks)
    BY <1>1, PathWeight
  <2>2. IsChain(path) /\ (path = <<>> <=> graph.tasks = {})
        /\ (path # <<>> => graph.deps[path[1]] = {})
    BY <2>0 DEF Traced
  <2>3. \A t \in graph.tasks : earliestFinish[t] <= LatestFinish(graph.tasks)
    BY <1>1, <2>0, LatestFinishIs
  <2>4. \A t \in graph.tasks : LongestTo[t] <= Weight(path)
    BY <1>1, <2>1, <2>2, <2>3, FinishIsLongest
  <2>5. ASSUME IsGenerated
        PROVE  Uniform /\ Len(path) = Len(levels) /\ Weight(path) = Len(levels)
    <3>1. PICK plan \in Plans : graph = Generate(plan)
      BY <2>5 DEF IsGenerated, GeneratedGraphs
    <3>2. Uniform
      BY <3>1 DEF Uniform, Generate, EstimatedMinutes
    <3>3. Task("specification", "architect", <<"prd">>) \in graph.tasks
      BY <3>1 DEF Generate, TasksOf, SpecificationTasks
    <3>4. path # <<>> /\ Len(levels) > 0 /\ Len(path) \in Nat
      BY <2>0, <2>2, <3>3 DEF Placed
    <3>5. Len(path) + earliestFinish[path[1]] = earliestFinish[Last(path)] + 1
      BY <2>0, <3>2, <3>4 DEF Traced
    <3>6. earliestFinish[path[1]] = 1
      BY <2>1, <3>2, <3>4 DEF Uniform
    <3>7. PICK i \in 1 .. Len(levels) : Last(path) \in levels[i]
      BY <2>0, <2>1, <3>4 DEF Placed
    <3>8. earliestFinish[Last(path)] = i
      BY <1>1, <3>2, <3>7, FinishIsLevel
    <3>9. PICK t \in levels[Len(levels)] : TRUE
      <4>1. Len(levels) \in 1 .. Len(levels)
        BY <2>0, <3>4
      <4>2. levels[Len(levels)] # {}
        BY <2>0, <4>1 DEF Tight
      <4> QED  BY <4>2
    <3>10. t \in graph.tasks /\ earliestFinish[t] = Len(levels)
      BY <1>1, <2>0, <3>2, <3>4, FinishIsLevel
    <3>11. Len(levels) <= i
      BY <2>1, <2>3, <3>4, <3>8, <3>10
    <3>12. i = Len(levels)
      BY <2>0, <3>7, <3>11
    <3> QED  BY <2>0, <2>1, <3>2, <3>4, <3>5, <3>6, <3>8, <3>12
  <2>6. ASSUME pc = "done" PROVE EstimateCoversPath
    <3>1. cursor = Len(levels) + 1
      BY <2>0, <2>6 DEF Estimated
    <3>2. Before(cursor) = graph.tasks
      BY <1>1, <2>0, <3>1, BeforeEnds
    <3>3. total <= MinutesOf[graph.tasks] /\ \A t \in graph.tasks : earliestFinish[t] <= total
      BY <2>0, <3>2 DEF Estimated
    <3>4. Weight(path) <= total
      BY <2>0, <2>1, <3>3
    <3>5. Weight(path) \in Nat
      BY <2>0, <2>1
    <3>6. ASSUME IsGenerated PROVE total = Weight(path)
      <4>1. Uniform /\ Weight(path) = Len(levels)
        BY <2>5, <3>6
      <4>2. total = cursor - 1
        BY <2>0, <2>6, <4>1 DEF Estimated
      <4> QED  BY <2>0, <3>1, <4>1, <4>2
    <3> QED  BY <2>0, <3>3, <3>4, <3>5, <3>6 DEF EstimateCoversPath
  <2> QED  BY <2>2, <2>4, <2>5, <2>6
<1> QED  BY <1>1, SortInvariance, PathInvariance, PTL

\* Every variable keeps its type; in particular no in-degree falls below zero.
THEOREM GraphTypeCorrect == Spec => []TypeOK
<1>1. ASSUME SortInvariant, PathInvariant PROVE TypeOK
  <2>1. processed \in Nat
    BY <1>1, DoneFinite, FS_CardinalityType DEF SortInvariant, Loops
  <2>2. cursor \in Nat \ {0}
    BY <1>1, LevelFacts DEF PathInvariant, PathTypes
  <2> QED  BY <1>1, <2>1, <2>2 DEF SortInvariant, SortTypes, PathInvariant, PathTypes, TypeOK
<1> QED  BY <1>1, SortInvariance, PathInvariance, PTL
===============================================================================
