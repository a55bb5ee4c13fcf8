-------------------------- MODULE OrchestrationProofs --------------------------
(***************************************************************************)
(* The two parts of the orchestration core that run over a server: the     *)
(* task graph over its row in the database, the event bus over Redis.      *)
(*                                                                         *)
(* The stored graph: updates which overwrite each other never start a task *)
(* early, and the row is true as long as none does, for any graphs,        *)
(* policies and number of database errors.  A graph that is stored may     *)
(* have been loaded long before.  What an update claims of the others is   *)
(* therefore old, but an end, once it was reached, stays: the invariant    *)
(* says of the row and of every graph that a worker holds that each end it *)
(* claims was reached.  With this a task below one that failed never       *)
(* starts, so that nothing but the blocking writes its status.             *)
(*                                                                         *)
(* The bus: a handler is called with the events of its channel in order,   *)
(* each once, the history keeps the newest, and a registered handler has a *)
(* listener, for any events, handlers, listeners and number of failures.   *)
(* What a connection still holds is the end of its channel, which gives    *)
(* its listener a position; no handler was called with anything beyond it, *)
(* and those still to be called are one event behind.  That a single       *)
(* listener moves the position rests on who holds, cancels and closes the  *)
(* listeners, where most of the work is.                                   *)
(***************************************************************************)
EXTENDS TaskGraphStoreProperties, EventBusProperties, FiniteSetTheorems, WellFoundedInduction, TLAPS

-----------------------------------------------------------------------------
(* THE STORED TASK GRAPH                                                    *)

\* A task below one that has failed.
Below(u) == \E t \in Tasks : outcome[t] = "failed" /\ u \in Downstream(t)

\* Statuses that claim no end that was not reached, and no failure above.
Truthful(status) ==
    \A u \in Tasks :
        /\ status[u] = "completed" => outcome[u] = "completed"
        /\ status[u] = "failed" => outcome[u] = "failed"
        /\ status[u] = "blocked" => Below(u)

Truth ==
    /\ Truthful(row.status) /\ Aggregates(row)
    /\ \A t \in Tasks : Truthful(copy[t].status) /\ Truthful(graph[t])

\* What a worker is doing, whether or not it waits for an update meanwhile.
Updating(t) == pc[t] \in {"load", "store"}
Stage(t) == IF Updating(t) THEN update[t].then ELSE pc[t]

\* The end of a task is settled from its last update on.
Settled(t) ==
    /\ Stage(t) \in {"waiting", "running", "resend", "discarded"} => outcome[t] = "open"
    /\ Stage(t) \in {"publish", "block"} => outcome[t] = "failed"
    /\ Stage(t) = "done" => outcome[t] \in {"completed", "failed"}
    /\ outcome[t] # "failed" => visited[t] = {}

\* A failure is announced before the tasks below are blocked.
Announced(t) ==
    /\ Stage(t) \notin {"block", "done", "aborted"} => announced[t] = 0 /\ visited[t] = {}
    /\ Stage(t) = "block" => announced[t] = 1

\* An update reports the worker's own task, or blocks one below it.
Reports(t) ==
    Updating(t) =>
        \/ /\ update[t].task = t
           /\ <<update[t].status, update[t].then>> \in
                 {<<"running", "running">>, <<"retrying", "resend">>,
                  <<"completed", "done">>, <<"failed", "publish">>}
           /\ update[t].status \in {"completed", "failed"} => outcome[t] = update[t].status
        \/ /\ update[t].status = "blocked" /\ update[t].then = "block"
           /\ update[t].task \in visited[t]

\* The search has found the tasks that t blocks and those that a visited task
\* blocks, and none that is not below t.
Searching(t) ==
    Stage(t) = "block" =>
        /\ visited[t] \cup toProcess[t] \subseteq Downstream(t)
        /\ Blocking(t) \subseteq visited[t] \cup toProcess[t]
        /\ \A v \in visited[t] : Blocking(v) \subseteq visited[t] \cup toProcess[t]

Local(t) == Settled(t) /\ Announced(t) /\ Reports(t) /\ Searching(t)

\* What the row says of a worker's task and of those it has blocked, while no
\* update was overwritten.
Stored(t) ==
    /\ pc[t] = "publish" \/ Stage(t) = "block" => row.status[t] = "failed"
    /\ pc[t] = "done" => row.status[t] = outcome[t]
    /\ pc[t] = "done" /\ outcome[t] = "failed" =>
          \A u \in Downstream(t) : row.status[u] = "blocked"
    /\ Stage(t) = "block" =>
          \A v \in visited[t] :
              row.status[v] = "blocked" \/ (Updating(t) /\ update[t].task = v)

StoreInvariant ==
    /\ TypeOK
    /\ StartsAfterDependencies
    /\ Truth
    /\ \A t \in Tasks : Local(t)
    /\ ~lost => \A t \in Tasks : Stored(t)

-----------------------------------------------------------------------------
(* The tasks below a task.                                                  *)

LEMMA DownstreamClosed ==
    ASSUME NEW t \in Tasks
    PROVE  /\ Downstream(t) \subseteq Tasks
           /\ Blocking(t) \subseteq Downstream(t)
           /\ \A v \in Downstream(t) : Blocking(v) \subseteq Downstream(t)
<1>1. \A v \in Tasks : Blocking(v) \subseteq Tasks
  BY DEF Blocking
<1>2. Downstream(t) \subseteq Tasks
  BY DEF Downstream
<1>3. Blocking(t) \subseteq Downstream(t)
  BY <1>1 DEF Downstream
<1>4. ASSUME NEW v \in Downstream(t), NEW w \in Blocking(v)
      PROVE  w \in Downstream(t)
  BY <1>1, <1>2, <1>4 DEF Downstream
<1> QED  BY <1>2, <1>3, <1>4

LEMMA DownstreamLeast ==
    ASSUME NEW t \in Tasks, NEW S \in SUBSET Tasks,
           Blocking(t) \subseteq S, \A v \in S : Blocking(v) \subseteq S
    PROVE  Downstream(t) \subseteq S
BY DEF Downstream

\* Nothing below a task that has not completed has started: all that waits is closed
\* under blocking.
LEMMA BelowWaits ==
    ASSUME StoreInvariant, NEW t \in Tasks, outcome[t] # "completed"
    PROVE  \A u \in Downstream(t) : pc[u] = "waiting"
<1> DEFINE Waiting == {v \in Tasks : pc[v] = "waiting"}
<1>1. \A v \in Tasks : outcome[v] # "completed" => Blocking(v) \subseteq Waiting
  BY DEF StoreInvariant, StartsAfterDependencies, Blocking
<1>2. \A v \in Waiting : outcome[v] # "completed"
  <2>1. \A v \in Waiting : Stage(v) = "waiting"
    BY DEF Stage, Updating
  <2> QED  BY <2>1 DEF StoreInvariant, Local, Settled
<1>3. Downstream(t) \subseteq Waiting
  <2> HIDE DEF Waiting
  <2>1. Waiting \in SUBSET Tasks
    BY DEF Waiting
  <2>2. \A v \in Waiting : Blocking(v) \subseteq Waiting
    BY <1>1, <1>2, <2>1
  <2> QED  BY <1>1, <2>1, <2>2, DownstreamLeast
<1> QED  BY <1>3

-----------------------------------------------------------------------------
(* What every step leaves as it is.                                         *)

\* An end that was reached stays.
EndsStay ==
    /\ deps' = deps
    /\ \A u \in Tasks : outcome[u] # "open" => outcome'[u] = outcome[u]

\* A worker that a step of another one leaves alone.
Untouched(u) ==
    /\ pc'[u] = pc[u] /\ update'[u] = update[u] /\ outcome'[u] = outcome[u]
    /\ visited'[u] = visited[u] /\ toProcess'[u] = toProcess[u]
    /\ announced'[u] = announced[u]

LEMMA SameDownstream ==
    ASSUME deps' = deps, NEW t \in Tasks
    PROVE  Downstream(t)' = Downstream(t) /\ Blocking(t)' = Blocking(t)
BY DEF Downstream, Blocking

LEMMA BelowStays ==
    ASSUME EndsStay, NEW u \in Tasks, Below(u)
    PROVE  Below(u)'
<1>1. PICK t \in Tasks : outcome[t] = "failed" /\ u \in Downstream(t)
  BY DEF Below
<1>2. outcome'[t] = "failed" /\ u \in Downstream(t)'
  BY <1>1, SameDownstream DEF EndsStay
<1> QED  BY <1>2 DEF Below

\* What was truthful before a step is so after it.
LEMMA TruthStays ==
    ASSUME EndsStay, NEW status, Truthful(status)
    PROVE  \A u \in Tasks :
              /\ status[u] = "completed" => outcome'[u] = "completed"
              /\ status[u] = "failed" => outcome'[u] = "failed"
              /\ status[u] = "blocked" => Below(u)'
BY BelowStays DEF EndsStay, Truthful

LEMMA UntouchedKeeps ==
    ASSUME TypeOK, deps' = deps, NEW u \in Tasks, Untouched(u), Local(u)
    PROVE  Local(u)'
<1>1. Stage(u)' = Stage(u) /\ Updating(u)' = Updating(u)
  BY DEF Untouched, Stage, Updating
<1>2. Settled(u)' /\ Announced(u)'
  BY <1>1 DEF Local, Untouched, Settled, Announced
<1>3. Reports(u)'
  BY <1>1 DEF Local, Untouched, Reports
<1>4. Searching(u)'
  BY <1>1, SameDownstream DEF Local, Untouched, Searching, TypeOK
<1> QED  BY <1>2, <1>3, <1>4 DEF Local

LEMMA StartedStays ==
    ASSUME EndsStay, StartsAfterDependencies,
           deps \in Edges,
           \A u \in Tasks : pc[u] = "waiting" => pc'[u] = "waiting"
    PROVE  StartsAfterDependencies'
<1>1. deps \in [Tasks -> SUBSET Tasks]
  BY StoreAssumption
<1> QED  BY <1>1 DEF EndsStay, StartsAfterDependencies

LEMMA SameTruth ==
    ASSUME Truth, EndsStay, UNCHANGED <<row, copy, graph>>
    PROVE  Truth'
BY TruthStays DEF Truth, Truthful, Aggregates

LEMMA UntouchedStored ==
    ASSUME TypeOK, UNCHANGED <<deps, row>>, NEW u \in Tasks, Untouched(u), Stored(u)
    PROVE  Stored(u)'
<1>1. Stage(u)' = Stage(u) /\ Updating(u)' = Updating(u)
  BY DEF Untouched, Stage, Updating
<1> QED  BY <1>1, SameDownstream DEF Untouched, Stored

\* A step of worker t that leaves the row alone keeps the invariant, if it keeps what
\* the invariant says of t.
LEMMA StepKeeps ==
    ASSUME StoreInvariant, NEW t \in Tasks,
           UNCHANGED <<deps, row, lost>>, \A u \in Tasks \ {t} : Untouched(u),
           TypeOK', StartsAfterDependencies', Truth',
           Local(t)', ~lost => Stored(t)'
    PROVE  StoreInvariant'
<1>1. ASSUME NEW u \in Tasks PROVE Local(u)'
  BY UntouchedKeeps DEF StoreInvariant
<1>2. ASSUME ~lost, NEW u \in Tasks PROVE Stored(u)'
  BY <1>2, UntouchedStored DEF StoreInvariant
<1> QED  BY <1>1, <1>2 DEF StoreInvariant

-----------------------------------------------------------------------------
(* The worker's steps.                                                      *)

LEMMA StartKeeps ==
    ASSUME StoreInvariant, NEW t \in Tasks, Start(t)
    PROVE  StoreInvariant'
<1> USE DEF Start, CallUpdate, Goto, retrying, blocking
<1>0. TypeOK /\ EndsStay /\ deps \in [Tasks -> SUBSET Tasks]
  BY StoreAssumption DEF StoreInvariant, TypeOK, EndsStay
<1>1. /\ pc'[t] = "load" /\ update'[t] = [task |-> t, status |-> "running", then |-> "running"]
      /\ \A u \in Tasks \ {t} : Untouched(u)
  BY <1>0 DEF TypeOK, Untouched
<1>2. TypeOK'
  BY <1>0 DEF TypeOK, Statuses
<1>3. StartsAfterDependencies'
  <2>1. \A d \in deps[t] : outcome[d] = "completed"
    BY <1>0 DEF StoreInvariant, Truth, Truthful, ReadyTasks
  <2> QED  BY <1>0, <1>1, <2>1 DEF StoreInvariant, StartsAfterDependencies, Untouched
<1>4. Truth'
  BY <1>0, SameTruth DEF StoreInvariant
<1>5. Stage(t) = "waiting" /\ Stage(t)' = "running" /\ Updating(t)'
  BY <1>0, <1>1 DEF Stage, Updating
<1>6. Local(t)'
  BY <1>0, <1>1, <1>5 DEF StoreInvariant, Local, Settled, Announced, Reports, Searching
<1>7. Stored(t)'
  BY <1>1, <1>5 DEF Stored
<1> QED  BY <1>1, <1>2, <1>3, <1>4, <1>6, <1>7, StepKeeps

LEMMA SucceedKeeps ==
    ASSUME StoreInvariant, NEW t \in Tasks, Succeed(t)
    PROVE  StoreInvariant'
<1> USE DEF Succeed, CallUpdate, Goto, blocking
<1>0. TypeOK /\ Stage(t) = "running"
  BY DEF StoreInvariant, Stage, Updating
<1>1. /\ pc'[t] = "load" /\ update'[t] = [task |-> t, status |-> "completed", then |-> "done"]
      /\ outcome[t] = "open" /\ outcome'[t] = "completed"
      /\ \A u \in Tasks \ {t} : Untouched(u)
  BY <1>0 DEF StoreInvariant, Local, Settled, TypeOK, Untouched
<1>2. EndsStay
  BY <1>0, <1>1 DEF EndsStay, Untouched
<1>3. TypeOK'
  BY <1>0 DEF TypeOK, Statuses
<1>4. StartsAfterDependencies' /\ Truth'
  BY <1>0, <1>1, <1>2, StartedStays, SameTruth DEF StoreInvariant, TypeOK, Untouched
<1>5. Stage(t)' = "done" /\ Updating(t)'
  BY <1>1 DEF Stage, Updating
<1>6. Local(t)'
  BY <1>0, <1>1, <1>5 DEF StoreInvariant, Local, Settled, Announced, Reports, Searching
<1>7. Stored(t)'
  BY <1>1, <1>5 DEF Stored
<1> QED  BY <1>1, <1>3, <1>4, <1>6, <1>7, StepKeeps

LEMMA ScheduleRetryKeeps ==
    ASSUME StoreInvariant, NEW t \in Tasks, ScheduleRetry(t)
    PROVE  StoreInvariant'
<1> USE DEF ScheduleRetry, ShouldRetry, CallUpdate, Goto, blocking
<1>0. TypeOK /\ EndsStay /\ Stage(t) = "running"
  BY DEF StoreInvariant, Stage, Updating, EndsStay
<1>1. /\ pc'[t] = "load" /\ update'[t] = [task |-> t, status |-> "retrying", then |-> "resend"]
      /\ \A u \in Tasks \ {t} : Untouched(u)
  BY <1>0 DEF TypeOK, Untouched
<1>2. TypeOK'
  <2>1. count' \in [Tasks -> Nat] /\ \A u \in Tasks : count'[u] <= MaxRetries[u]
    BY <1>0, StoreAssumption DEF TypeOK
  <2> QED  BY <1>0, <2>1 DEF TypeOK, Statuses
<1>3. StartsAfterDependencies' /\ Truth'
  BY <1>0, <1>1, StartedStays, SameTruth DEF StoreInvariant, TypeOK, Untouched
<1>4. Stage(t)' = "resend" /\ Updating(t)'
  BY <1>1 DEF Stage, Updating
<1>5. Local(t)'
  BY <1>0, <1>1, <1>4 DEF StoreInvariant, Local, Settled, Announced, Reports, Searching
<1>6. Stored(t)'
  BY <1>1, <1>4 DEF Stored
<1> QED  BY <1>1, <1>2, <1>3, <1>5, <1>6, StepKeeps

LEMMA ResendKeeps ==
    ASSUME StoreInvariant, NEW t \in Tasks, Resend(t)
    PROVE  StoreInvariant'
<1> USE DEF Resend, CallUpdate, Goto, blocking, retrying
<1>0. TypeOK /\ EndsStay /\ Stage(t) = "resend"
  BY DEF StoreInvariant, Stage, Updating, EndsStay
<1>1. \/ pc'[t] = "discarded"
      \/ pc'[t] = "load" /\ update'[t] = [task |-> t, status |-> "running", then |-> "running"]
  BY <1>0 DEF TypeOK
<1>2. \A u \in Tasks \ {t} : Untouched(u)
  BY <1>0 DEF TypeOK, Untouched
<1>3. TypeOK'
  <2>1. CASE t \in ByCelery
    BY <1>0, <2>1 DEF TypeOK
  <2>2. CASE t \notin ByCelery
    <3>1. /\ pc' = [pc EXCEPT ![t] = "load"]
          /\ update' = [update EXCEPT ![t] = [task |-> t, status |-> "running", then |-> "running"]]
      BY <2>2
    <3>2. "running" \in Statuses
      BY DEF Statuses
    <3> QED  BY <1>0, <3>1, <3>2 DEF TypeOK
  <2> QED  BY <2>1, <2>2
<1>4. StartsAfterDependencies' /\ Truth'
  BY <1>0, <1>1, <1>2, StartedStays, SameTruth DEF StoreInvariant, TypeOK, Untouched
<1>5. \/ Stage(t)' = "discarded" /\ ~Updating(t)'
      \/ Stage(t)' = "running" /\ Updating(t)'
  BY <1>1 DEF Stage, Updating
<1>6. Local(t)'
  BY <1>0, <1>1, <1>5 DEF StoreInvariant, Local, Settled, Announced, Reports, Searching, Updating
<1>7. Stored(t)'
  BY <1>1, <1>5 DEF Stored
<1> QED  BY <1>2, <1>3, <1>4, <1>6, <1>7, StepKeeps

LEMMA LoadGraphKeeps ==
    ASSUME StoreInvariant, NEW t \in Tasks, LoadGraph(t)
    PROVE  StoreInvariant'
<1> USE DEF LoadGraph, Goto, blocking, retrying
<1>0. TypeOK /\ EndsStay
  BY DEF StoreInvariant, EndsStay
<1>1. pc[t] = "load" /\ pc'[t] = "store" /\ \A u \in Tasks \ {t} : Untouched(u)
  BY <1>0 DEF TypeOK, Untouched
<1>2. TypeOK'
  BY <1>0 DEF TypeOK
<1>3. StartsAfterDependencies'
  BY <1>0, <1>1, StartedStays DEF StoreInvariant, TypeOK, Untouched
<1>4. Truth'
  <2>1. \A u \in Tasks : copy'[u] \in {copy[u], row}
    BY <1>0 DEF TypeOK
  <2> QED  BY <1>0, <2>1, TruthStays DEF StoreInvariant, Truth, Truthful, Aggregates
<1>5. Stage(t)' = Stage(t) /\ Updating(t) /\ Updating(t)'
  BY <1>1 DEF Stage, Updating
<1>6. Local(t)'
  BY <1>0, <1>5, SameDownstream DEF StoreInvariant, TypeOK,
     Local, Settled, Announced, Reports, Searching
<1>7. ~lost => Stored(t)'
  BY <1>1, <1>5 DEF StoreInvariant, Stored
<1> QED  BY <1>1, <1>2, <1>3, <1>4, <1>6, <1>7, StepKeeps

LEMMA DatabaseErrorKeeps ==
    ASSUME StoreInvariant, NEW t \in Tasks, DatabaseError(t)
    PROVE  StoreInvariant'
<1> USE DEF DatabaseError, Goto, blocking, retrying
<1>0. TypeOK /\ EndsStay
  BY DEF StoreInvariant, EndsStay
<1>1. pc[t] # "waiting" /\ pc'[t] = "aborted" /\ \A u \in Tasks \ {t} : Untouched(u)
  BY <1>0 DEF TypeOK, Untouched
<1>2. TypeOK'
  BY <1>0, StoreAssumption DEF TypeOK
<1>3. StartsAfterDependencies' /\ Truth'
  BY <1>0, <1>1, StartedStays, SameTruth DEF StoreInvariant, TypeOK, Untouched
<1>4. Stage(t)' = "aborted" /\ ~Updating(t)'
  BY <1>1 DEF Stage, Updating
<1>5. Local(t)' /\ Stored(t)'
  BY <1>0, <1>1, <1>4 DEF StoreInvariant, Local, Settled, Announced, Reports, Searching, Stored
<1> QED  BY <1>1, <1>2, <1>3, <1>5, StepKeeps

LEMMA HandlePermanentFailureKeeps ==
    ASSUME StoreInvariant, NEW t \in Tasks, HandlePermanentFailure(t)
    PROVE  StoreInvariant'
<1> USE DEF HandlePermanentFailure, CallUpdate, Goto
<1>0. TypeOK /\ Stage(t) = "running"
  BY DEF StoreInvariant, Stage, Updating
<1>1. /\ pc'[t] = "load" /\ update'[t] = [task |-> t, status |-> "failed", then |-> "publish"]
      /\ outcome[t] = "open" /\ outcome'[t] = "failed"
      /\ \A u \in Tasks \ {t} : Untouched(u)
  BY <1>0 DEF StoreInvariant, Local, Settled, TypeOK, Untouched
<1>2. EndsStay
  BY <1>0, <1>1 DEF EndsStay, Untouched
<1>3. TypeOK'
  <2>1. [row.status EXCEPT ![t] = "failed"] \in [Tasks -> Statuses]
    BY <1>0 DEF TypeOK, Graph, Statuses
  <2> QED  BY <1>0, <2>1 DEF TypeOK, Statuses
<1>4. StartsAfterDependencies'
  BY <1>0, <1>1, <1>2, StartedStays DEF StoreInvariant, TypeOK, Untouched
<1>5. Truth'
  <2>1. \A u \in Tasks \ {t} : graph'[u] = graph[u]
    BY <1>0 DEF TypeOK
  <2>2. graph'[t] = [row.status EXCEPT ![t] = "failed"] /\ row.status \in [Tasks -> Statuses]
    BY <1>0 DEF TypeOK, Graph
  <2>3. Truthful(graph[t])'
    BY <1>1, <1>2, <2>2, TruthStays, SMTT(30) DEF StoreInvariant, Truth, Truthful
  <2> QED  BY <1>2, <2>1, <2>3, TruthStays, SMTT(30) DEF StoreInvariant, Truth, Truthful, Aggregates
<1>6. Stage(t)' = "publish" /\ Updating(t)'
  BY <1>1 DEF Stage, Updating
<1>7. Local(t)'
  BY <1>0, <1>1, <1>6 DEF StoreInvariant, Local, Settled, Announced, Reports, Searching
<1>8. Stored(t)'
  BY <1>1, <1>6 DEF Stored
<1> QED  BY <1>1, <1>3, <1>4, <1>5, <1>7, <1>8, StepKeeps

LEMMA PublishFailureKeeps ==
    ASSUME StoreInvariant, NEW t \in Tasks, PublishFailure(t)
    PROVE  StoreInvariant'
<1> USE DEF PublishFailure, Goto
<1>0. TypeOK /\ EndsStay /\ Stage(t) = "publish" /\ ~Updating(t)
  BY DEF StoreInvariant, Stage, Updating, EndsStay
<1>1. /\ pc'[t] = "block" /\ toProcess'[t] = Blocking(t)
      /\ announced[t] = 0 /\ visited[t] = {} /\ announced'[t] = 1
      /\ \A u \in Tasks \ {t} : Untouched(u)
  BY <1>0, SMTT(30) DEF StoreInvariant, Local, Announced, TypeOK, Untouched
<1>2. TypeOK'
  <2>1. Blocking(t) \subseteq Tasks
    BY DEF Blocking
  <2> QED  BY <1>0, <1>1, <2>1 DEF TypeOK
<1>3. StartsAfterDependencies' /\ Truth'
  BY <1>0, <1>1, StartedStays, SameTruth DEF StoreInvariant, TypeOK, Untouched
<1>4. Stage(t)' = "block" /\ ~Updating(t)'
  BY <1>1 DEF Stage, Updating
<1>5. Searching(t)'
  BY <1>0, <1>1, <1>4, DownstreamClosed, SameDownstream DEF Searching, EndsStay
<1>6. Local(t)'
  BY <1>0, <1>1, <1>4, <1>5 DEF StoreInvariant, Local, Settled, Announced, Reports
<1>7. ~lost => Stored(t)'
  BY <1>0, <1>1, <1>4 DEF StoreInvariant, Stored
<1> QED  BY <1>1, <1>2, <1>3, <1>6, <1>7, StepKeeps

\* A graph that was changed has the aggregates of its own statuses.
LEMMA ChangedIsGraph ==
    ASSUME NEW g \in Graph, NEW u \in Tasks, NEW s \in Statuses
    PROVE  /\ Changed(g, u, s) \in Graph /\ Aggregates(Changed(g, u, s))
           /\ Changed(g, u, s).status = [g.status EXCEPT ![u] = s]
<1> DEFINE status == [g.status EXCEPT ![u] = s]
           ended(kind) == {t \in Tasks : status[t] = kind}
<1>1. status \in [Tasks -> Statuses]
  BY DEF Graph
<1>2. ASSUME NEW kind PROVE Cardinality(ended(kind)) \in 0 .. Cardinality(Tasks)
  <2>1. ended(kind) \subseteq Tasks /\ IsFiniteSet(Tasks)
    BY StoreAssumption
  <2> HIDE DEF ended
  <2>2. IsFiniteSet(ended(kind)) /\ Cardinality(ended(kind)) <= Cardinality(Tasks)
    BY <2>1, FS_Subset
  <2>3. Cardinality(ended(kind)) \in Nat /\ Cardinality(Tasks) \in Nat
    BY <2>1, <2>2, FS_CardinalityType
  <2> QED  BY <2>2, <2>3
<1>3. Changed(g, u, s) = [status |-> status, completed |-> Cardinality(ended("completed")),
                          failed |-> Cardinality(ended("failed"))]
  BY DEF Changed
<1>4. Changed(g, u, s) \in Graph
  <2> HIDE DEF status, ended
  <2> QED  BY <1>1, <1>2, <1>3 DEF Graph
<1>5. Aggregates(Changed(g, u, s))
  BY <1>3 DEF Aggregates
<1> QED  BY <1>3, <1>4, <1>5

\* What an update is about to store is so.
LEMMA ReportIsTrue ==
    ASSUME StoreInvariant, NEW t \in Tasks, Updating(t)
    PROVE  LET u == update[t].task IN
           /\ u \in Tasks /\ update[t].status \in Statuses
           /\ update[t].status = "completed" => u = t /\ outcome[t] = "completed"
           /\ update[t].status = "failed" => u = t /\ outcome[t] = "failed"
           /\ update[t].status = "blocked" =>
                 /\ Stage(t) = "block" /\ outcome[t] = "failed"
                 /\ u \in visited[t] /\ u \in Downstream(t) /\ pc[u] = "waiting"
<1>1. update[t].task \in Tasks /\ update[t].status \in Statuses
  BY DEF StoreInvariant, TypeOK
<1>2. Reports(t) /\ Settled(t) /\ Searching(t)
  BY DEF StoreInvariant, Local
<1>3. CASE update[t].status = "blocked"
  <2>1. Stage(t) = "block" /\ update[t].task \in visited[t]
    BY <1>2, <1>3 DEF Reports, Stage
  <2>2. outcome[t] = "failed" /\ update[t].task \in Downstream(t)
    BY <1>2, <2>1 DEF Settled, Searching
  <2> QED  BY <1>1, <1>3, <2>1, <2>2, BelowWaits
<1>4. CASE update[t].status # "blocked"
  BY <1>1, <1>2, <1>4 DEF Reports
<1> QED  BY <1>3, <1>4

LEMMA PersistGraphKeeps ==
    ASSUME StoreInvariant, NEW t \in Tasks, PersistGraph(t)
    PROVE  StoreInvariant'
<1> DEFINE w == update[t].task
           s == update[t].status
<1> USE DEF PersistGraph, Goto, blocking, retrying
<1>0. /\ TypeOK /\ EndsStay /\ Updating(t)
      /\ copy[t] \in Graph /\ w \in Tasks /\ s \in Statuses
  BY DEF StoreInvariant, EndsStay, TypeOK, Updating
<1>1. /\ pc[t] = "store" /\ pc'[t] = update[t].then /\ \A u \in Tasks \ {t} : Untouched(u)
  BY <1>0 DEF TypeOK, Untouched
<1>2. row' \in Graph /\ Aggregates(row') /\ row'.status = [copy[t].status EXCEPT ![w] = s]
  BY <1>0, ChangedIsGraph
<1>3. TypeOK'
  <2>1. update[t].then \in {"waiting", "running", "resend", "publish", "block", "done"}
    BY <1>0 DEF TypeOK
  <2>2. pc' \in [Tasks -> {"waiting", "load", "store", "running", "resend", "publish",
                           "block", "done", "discarded", "aborted"}]
    BY <1>0, <2>1 DEF TypeOK
  <2>3. lost' \in BOOLEAN
    BY <1>0 DEF TypeOK
  <2> QED  BY <1>0, <1>2, <2>2, <2>3 DEF TypeOK
<1>4. StartsAfterDependencies'
  BY <1>0, <1>1, StartedStays DEF StoreInvariant, TypeOK, Untouched
<1>5. /\ s = "completed" => w = t /\ outcome[t] = "completed"
      /\ s = "failed" => w = t /\ outcome[t] = "failed"
      /\ s = "blocked" => /\ Stage(t) = "block" /\ outcome[t] = "failed"
                          /\ w \in visited[t] /\ w \in Downstream(t) /\ pc[w] = "waiting"
  BY <1>0, ReportIsTrue
<1>6. Truth'
  <2>1. Truthful(copy[t].status) /\ copy[t].status \in [Tasks -> Statuses]
    BY <1>0 DEF StoreInvariant, Truth, Graph
  <2>2. s = "blocked" => Below(w)
    BY <1>5 DEF Below
  <2>3. Truthful(row'.status)
    BY <1>0, <1>2, <1>5, <2>1, <2>2 DEF Truthful
  <2>4. Truthful(row.status)'
    BY <1>0, <2>3, TruthStays DEF Truthful
  <2> QED  BY <1>0, <1>2, <2>4, TruthStays DEF StoreInvariant, Truth, Truthful, Aggregates
<1>7. /\ Stage(t)' = Stage(t) /\ Stage(t) = pc'[t] /\ ~Updating(t)' /\ Stage(t) # "waiting"
  <2>1. update[t].then \notin {"load", "store", "waiting"}
    BY <1>0 DEF StoreInvariant, Local, Reports
  <2> QED  BY <1>0, <1>1, <2>1 DEF Stage, Updating
<1>8. ASSUME NEW u \in Tasks PROVE Local(u)'
  <2>1. CASE u = t
    BY <1>0, <1>7, <2>1, SameDownstream DEF StoreInvariant, TypeOK,
       Local, Settled, Announced, Reports, Searching
  <2>2. CASE u # t
    BY <1>0, <1>1, <2>2, UntouchedKeeps DEF StoreInvariant
  <2> QED  BY <2>1, <2>2
<1>9. ASSUME ~lost', NEW u \in Tasks PROVE Stored(u)'
  <2>1. /\ Stored(u) /\ Stored(t)
        /\ \A v \in Tasks : row'.status[v] = IF v = w THEN s ELSE row.status[v]
    <3>1. ~lost /\ copy[t] = row
      BY <1>9
    <3>2. row.status \in [Tasks -> Statuses]
      BY <1>0 DEF TypeOK, Graph
    <3> QED  BY <1>0, <1>2, <3>1, <3>2 DEF StoreInvariant
  <2>2. pc[t] # "waiting"
    BY <1>1
  <2>3. CASE u = t
    <3>1. pc[t] # "waiting" /\ Reports(t)
      BY <1>1 DEF StoreInvariant, Local
    <3>2. pc'[t] = "publish" => row'.status[t] = "failed"
      BY <1>0, <1>1, <2>1, <3>1 DEF Reports
    <3>3. Stage(t) = "block" => row'.status[t] = "failed"
      BY <1>0, <1>1, <1>5, <1>7, <2>1, <3>1 DEF Reports, Stored
    <3>4. pc'[t] = "done" => row'.status[t] = outcome[t] /\ outcome[t] = "completed"
      BY <1>0, <1>1, <2>1, <3>1 DEF Reports
    <3>5. Stage(t) = "block" => \A v \in visited[t] : row'.status[v] = "blocked"
      <4>1. Stage(t) = "block" => s = "blocked"
        BY <1>0, <1>1, <1>7, <3>1 DEF Reports
      <4>2. visited[t] \subseteq Tasks
        BY <1>0 DEF TypeOK
      <4> QED  BY <2>1, <4>1, <4>2 DEF Stored
    <3> QED  BY <1>0, <1>7, <2>3, <3>2, <3>3, <3>4, <3>5 DEF Stored, EndsStay
  <2>4. CASE u # t
    <3>1. Untouched(u) /\ Stage(u)' = Stage(u) /\ Updating(u)' = Updating(u)
      BY <1>1, <2>4 DEF Untouched, Stage, Updating
    <3>2. pc[u] # "waiting" => row'.status[u] = row.status[u]
      BY <1>0, <1>5, <2>1, <2>4, ReportIsTrue DEF StoreInvariant, Local, Reports
    <3>3. Stage(u) = "block" => outcome[u] = "failed" /\ visited[u] \subseteq Downstream(u)
      BY DEF StoreInvariant, Local, Settled, Searching
    <3>4. ASSUME outcome[u] = "failed", NEW v \in Downstream(u), row.status[v] = "blocked"
          PROVE  row'.status[v] = "blocked"
      <4>1. v # t /\ v \in Tasks
        BY <2>2, <3>4, BelowWaits, DownstreamClosed
      <4>2. w = v => s = "blocked"
        BY <1>0, <4>1 DEF StoreInvariant, Local, Reports
      <4> QED  BY <2>1, <3>4, <4>1, <4>2
    <3>5. pc[u] = "publish" \/ Stage(u) = "block" => row'.status[u] = "failed"
      BY <2>1, <3>2 DEF Stored, Stage, Updating
    <3>6. pc[u] = "done" => row'.status[u] = outcome[u]
      BY <2>1, <3>2 DEF Stored
    <3>7. pc[u] = "done" /\ outcome[u] = "failed" =>
              \A v \in Downstream(u) : row'.status[v] = "blocked"
      BY <2>1, <3>4 DEF Stored
    <3>8. Stage(u) = "block" =>
              \A v \in visited[u] :
                  row'.status[v] = "blocked" \/ (Updating(u) /\ update[u].task = v)
      BY <2>1, <3>3, <3>4 DEF Stored
    <3> QED
      BY <1>0, <3>1, <3>5, <3>6, <3>7, <3>8, SameDownstream DEF Stored, Untouched, EndsStay
  <2> QED  BY <2>3, <2>4
<1> QED  BY <1>3, <1>4, <1>6, <1>8, <1>9 DEF StoreInvariant

\* The search always blocks: nothing below a task that failed has ended.
LEMMA BlockNextKeeps ==
    ASSUME StoreInvariant, NEW t \in Tasks, NEW u \in Tasks, BlockNext(t, u)
    PROVE  StoreInvariant'
<1> USE DEF Goto, retrying
<1>0. TypeOK /\ EndsStay /\ Stage(t) = "block" /\ ~Updating(t)
  BY DEF StoreInvariant, BlockNext, Stage, Updating, EndsStay
<1>1. /\ outcome[t] = "failed" /\ Searching(t) /\ Announced(t)
      /\ u \in Downstream(t) /\ pc[u] = "waiting" /\ outcome[u] = "open"
  <2>1. outcome[t] = "failed" /\ Searching(t) /\ Announced(t)
    BY <1>0 DEF StoreInvariant, Local, Settled
  <2>2. u \in Downstream(t) /\ pc[u] = "waiting"
    BY <1>0, <2>1, BelowWaits DEF BlockNext, Searching
  <2>3. Stage(u) = "waiting"
    BY <2>2 DEF Stage, Updating
  <2> QED  BY <2>1, <2>2, <2>3 DEF StoreInvariant, Local, Settled
<1>2. graph[t][u] \notin {"completed", "failed"}
  BY <1>1 DEF StoreInvariant, Truth, Truthful
<1>3. /\ visited' = [visited EXCEPT ![t] = @ \cup {u}]
      /\ toProcess' = [toProcess EXCEPT ![t] = (@ \ {u}) \cup Followers(t, u)]
      /\ graph' = [graph EXCEPT ![t][u] = "blocked"]
      /\ update' = [update EXCEPT ![t] = [task |-> u, status |-> "blocked", then |-> "block"]]
      /\ pc' = [pc EXCEPT ![t] = "load"]
      /\ UNCHANGED <<deps, row, copy, count, announced, outcome, lost, dbErrors>>
  BY <1>2 DEF BlockNext, CallUpdate
<1>4. /\ pc[t] = "block" /\ pc'[t] = "load" /\ visited'[t] = visited[t] \cup {u}
      /\ toProcess'[t] = (toProcess[t] \ {u}) \cup Followers(t, u)
      /\ update'[t] = [task |-> u, status |-> "blocked", then |-> "block"]
      /\ \A v \in Tasks \ {t} : Untouched(v)
  BY <1>0, <1>3 DEF TypeOK, Untouched, BlockNext
<1>5. Followers(t, u) \subseteq Tasks
  BY DEF Followers, Blocking
<1>6. TypeOK'
  <2>1. "blocked" \in Statuses
    BY DEF Statuses
  <2>2. graph' \in [Tasks -> [Tasks -> Statuses]]
    BY <1>0, <1>3, <2>1 DEF TypeOK
  <2>3. toProcess' \in [Tasks -> SUBSET Tasks] /\ visited' \in [Tasks -> SUBSET Tasks]
    BY <1>0, <1>3, <1>5 DEF TypeOK
  <2>4. update' \in [Tasks -> [task : Tasks, status : Statuses,
                      then : {"waiting", "running", "resend", "publish", "block", "done"}]]
    BY <1>0, <1>3, <2>1 DEF TypeOK
  <2>5. pc' \in [Tasks -> {"waiting", "load", "store", "running", "resend", "publish",
                           "block", "done", "discarded", "aborted"}]
    BY <1>0, <1>3 DEF TypeOK
  <2> QED  BY <1>0, <1>3, <2>2, <2>3, <2>4, <2>5 DEF TypeOK
<1>7. StartsAfterDependencies'
  BY <1>0, <1>4, StartedStays DEF StoreInvariant, TypeOK, Untouched
<1>8. Truth'
  <2>1. /\ \A v \in Tasks \ {t} : graph'[v] = graph[v]
        /\ \A v \in Tasks : graph'[t][v] = IF v = u THEN "blocked" ELSE graph[t][v]
    BY <1>0, <1>3 DEF TypeOK
  <2>2. Below(u)
    BY <1>1 DEF Below
  <2>3. Truthful(graph[t])'
    BY <1>0, <2>1, <2>2, TruthStays, BelowStays DEF StoreInvariant, Truth, Truthful
  <2> QED
    BY <1>0, <1>3, <2>1, <2>3, TruthStays DEF StoreInvariant, Truth, Truthful, Aggregates
<1>9. Stage(t)' = "block" /\ Updating(t)'
  BY <1>4 DEF Stage, Updating
<1>10. Searching(t)'
  <2>1. Followers(t, u) \subseteq Downstream(t)
    BY <1>1, DownstreamClosed DEF Followers
  <2>2. Blocking(u) \subseteq visited'[t] \cup toProcess'[t]
    BY <1>4 DEF Followers
  <2>3. /\ visited'[t] \cup toProcess'[t] \subseteq Downstream(t)
        /\ visited[t] \cup toProcess[t] \subseteq visited'[t] \cup toProcess'[t]
    BY <1>0, <1>1, <1>4, <2>1 DEF Searching
  <2>4. \A v \in visited'[t] : Blocking(v) \subseteq visited'[t] \cup toProcess'[t]
    BY <1>0, <1>1, <1>4, <2>2, <2>3 DEF Searching
  <2>5. visited'[t] \subseteq Tasks
    BY <1>6 DEF TypeOK
  <2> QED
    BY <1>0, <1>1, <2>3, <2>4, <2>5, SameDownstream DEF Searching, EndsStay
<1>11. Local(t)'
  BY <1>0, <1>1, <1>3, <1>4, <1>9, <1>10 DEF Local, Settled, Announced, Reports
<1>12. ~lost => Stored(t)'
  BY <1>0, <1>3, <1>4, <1>9 DEF StoreInvariant, Stored
<1> QED  BY <1>3, <1>4, <1>6, <1>7, <1>8, <1>11, <1>12, StepKeeps

LEMMA EndBlockingKeeps ==
    ASSUME StoreInvariant, NEW t \in Tasks, EndBlocking(t)
    PROVE  StoreInvariant'
<1> USE DEF EndBlocking, Goto, blocking
<1>0. TypeOK /\ EndsStay /\ Stage(t) = "block" /\ ~Updating(t)
  BY DEF StoreInvariant, Stage, Updating, EndsStay
<1>1. /\ pc'[t] = "done" /\ outcome[t] = "failed" /\ announced[t] = 1
      /\ \A u \in Tasks \ {t} : Untouched(u)
  BY <1>0 DEF StoreInvariant, Local, Settled, Announced, TypeOK, Untouched
<1>2. TypeOK'
  <2>1. announced' \in [Tasks -> 0 .. 2]
    BY <1>0, <1>1 DEF TypeOK
  <2> QED  BY <1>0, <2>1 DEF TypeOK
<1>3. StartsAfterDependencies' /\ Truth'
  BY <1>0, <1>1, StartedStays, SameTruth DEF StoreInvariant, TypeOK, Untouched
<1>4. Stage(t)' = "done" /\ ~Updating(t)'
  BY <1>1 DEF Stage, Updating
<1>5. Local(t)'
  BY <1>0, <1>1, <1>4 DEF StoreInvariant, Local, Settled, Announced, Reports, Searching
<1>6. Downstream(t) \subseteq visited[t]
  <2>1. Searching(t) /\ toProcess[t] = {} /\ visited[t] \in SUBSET Tasks
    BY <1>0 DEF StoreInvariant, Local, TypeOK
  <2> QED  BY <1>0, <2>1, DownstreamLeast DEF Searching
<1>7. ~lost => Stored(t)'
  BY <1>0, <1>1, <1>4, <1>6, SameDownstream DEF StoreInvariant, Stored, EndsStay
<1> QED  BY <1>1, <1>2, <1>3, <1>5, <1>7, StepKeeps

-----------------------------------------------------------------------------
(* The invariant, and what follows from it.                                 *)

LEMMA InitEstablishes == Init => StoreInvariant
<1> SUFFICES ASSUME Init PROVE StoreInvariant
  OBVIOUS
<1> USE DEF Init, NoUpdate
<1>1. row \in Graph /\ Aggregates(row) /\ \A t \in Tasks : row.status[t] = "pending"
  <2>1. {t \in Tasks : row.status[t] = "completed"} = {} /\ {t \in Tasks : row.status[t] = "failed"} = {}
    OBVIOUS
  <2>2. Cardinality({}) = 0 /\ Cardinality(Tasks) \in Nat
    BY StoreAssumption, FS_EmptySet, FS_CardinalityType
  <2>3. row.status \in [Tasks -> Statuses] /\ row.completed = 0 /\ row.failed = 0
    BY DEF Statuses
  <2>4. Aggregates(row)
    BY <2>1, <2>2, <2>3 DEF Aggregates
  <2>5. row = [status |-> row.status, completed |-> 0, failed |-> 0]
    OBVIOUS
  <2> QED  BY <2>2, <2>3, <2>4, <2>5 DEF Graph
<1>2. \A t \in Tasks : copy[t] = row /\ graph[t] = row.status
  OBVIOUS
<1>3. TypeOK
  <2>1. deps \in Edges /\ MaxDbErrors \in Nat /\ MaxRetries \in [Tasks -> Nat]
    BY StoreAssumption
  <2>2. "pending" \in Statuses /\ row.status \in [Tasks -> Statuses]
    BY <1>1 DEF Statuses, Graph
  <2>3. update \in [Tasks -> [task : Tasks, status : Statuses,
                     then : {"waiting", "running", "resend", "publish", "block", "done"}]]
    BY <2>2
  <2>4. count \in [Tasks -> Nat] /\ \A t \in Tasks : count[t] <= MaxRetries[t]
    BY <2>1
  <2>5. copy \in [Tasks -> Graph] /\ graph \in [Tasks -> [Tasks -> Statuses]]
    <3> HIDE DEF Init
    <3>1. copy = [t \in Tasks |-> row] /\ graph = [t \in Tasks |-> row.status]
      BY DEF Init
    <3> QED  BY <1>1, <2>2, <3>1
  <2>6. /\ toProcess \in [Tasks -> SUBSET Tasks] /\ visited \in [Tasks -> SUBSET Tasks]
        /\ announced \in [Tasks -> 0 .. 2] /\ outcome \in [Tasks -> {"open", "completed", "failed"}]
    OBVIOUS
  <2>7. pc \in [Tasks -> {"waiting", "load", "store", "running", "resend", "publish",
                          "block", "done", "discarded", "aborted"}]
    OBVIOUS
  <2>8. lost = FALSE /\ lost \in BOOLEAN
    OBVIOUS
  <2>9. dbErrors \in 0 .. MaxDbErrors
    BY <2>1
  <2> HIDE DEF Init
  <2> QED  BY <1>1, <2>1, <2>3, <2>4, <2>5, <2>6, <2>7, <2>8, <2>9 DEF TypeOK
<1>4. StartsAfterDependencies /\ Truth
  BY <1>1, <1>2 DEF StartsAfterDependencies, Truth, Truthful
<1>5. \A t \in Tasks : Stage(t) = "waiting" /\ ~Updating(t)
  BY DEF Stage, Updating
<1>6. \A t \in Tasks : Local(t) /\ Stored(t)
  BY <1>5 DEF Local, Settled, Announced, Reports, Searching, Stored
<1> QED  BY <1>3, <1>4, <1>6 DEF StoreInvariant

LEMMA NextKeeps == StoreInvariant /\ [Next]_vars => StoreInvariant'
<1> SUFFICES ASSUME StoreInvariant, [Next]_vars PROVE StoreInvariant'
  OBVIOUS
<1>1. CASE Next
  <2>1. PICK t \in Tasks : Worker(t) \/ DatabaseError(t)
    BY <1>1 DEF Next
  <2>2. CASE DatabaseError(t)
    BY <2>2, DatabaseErrorKeeps
  <2>3. CASE Worker(t)
    BY <2>3, StartKeeps, SucceedKeeps, LoadGraphKeeps, PersistGraphKeeps,
       ScheduleRetryKeeps, ResendKeeps, HandlePermanentFailureKeeps,
       PublishFailureKeeps, BlockNextKeeps, EndBlockingKeeps DEF Worker
  <2> QED  BY <2>1, <2>2, <2>3
<1>2. CASE UNCHANGED vars
  <2>1. EndsStay /\ \A u \in Tasks : Untouched(u)
    BY <1>2 DEF EndsStay, Untouched, vars
  <2>2. TypeOK'
    BY <1>2 DEF StoreInvariant, TypeOK, vars
  <2>3. StartsAfterDependencies' /\ Truth'
    BY <1>2, <2>1, SameTruth DEF StoreInvariant, StartsAfterDependencies, vars
  <2>4. ASSUME NEW u \in Tasks PROVE Local(u)' /\ (~lost' => Stored(u)')
    BY <1>2, <2>1, UntouchedKeeps, UntouchedStored DEF StoreInvariant, vars
  <2> QED  BY <2>2, <2>3, <2>4 DEF StoreInvariant
<1> QED  BY <1>1, <1>2

\* The inductive invariant holds in every state the row and its workers reach.
THEOREM StoreInvariance == Spec => []StoreInvariant
BY InitEstablishes, NextKeeps, PTL DEF Spec

\* The variables keep their types: no task is retried more often than its policy
\* allows, and a permanent failure is announced at most twice.
THEOREM StoreTypeCorrect == Spec => []TypeOK
<1>1. StoreInvariant => TypeOK
  BY DEF StoreInvariant
<1> QED  BY <1>1, StoreInvariance, PTL

\* However updates overwrite each other, a task that has been dispatched had all its
\* dependencies complete (get_ready_tasks on a stored graph).
THEOREM AlwaysStartsAfterDependencies == Spec => []StartsAfterDependencies
<1>1. StoreInvariant => StartsAfterDependencies
  BY DEF StoreInvariant
<1> QED  BY <1>1, StoreInvariance, PTL

\* The row has the aggregates of its statuses, and tells the truth about ended,
\* failed and blocked tasks as long as no update was overwritten
\* (update_task_status, _block_downstream_tasks).
THEOREM RowAlwaysTrue == Spec => []SerialRowIsTrue
<1>1. StoreInvariant => SerialRowIsTrue
  <2> SUFFICES ASSUME StoreInvariant PROVE SerialRowIsTrue
    OBVIOUS
  <2>1. Aggregates(row) /\ Truthful(row.status)
    BY DEF StoreInvariant, Truth
  <2>2. ~lost => \A t \in Tasks : Stored(t)
    BY DEF StoreInvariant
  <2> QED  BY <2>1, <2>2 DEF SerialRowIsTrue, Stored, Truthful, Below
<1> QED  BY <1>1, StoreInvariance, PTL

-----------------------------------------------------------------------------
(* THE EVENT BUS                                                            *)

-----------------------------------------------------------------------------
(* The history of the event bus.                                            *)

Progress == {"no", "global", "history", "trim", "yes", "raised", "untrimmed"}

\* The events whose publisher has added them and has not trimmed.
Untrimmed == {e \in Events : publishing[e] \in {"trim", "untrimmed"}}

HistoryInvariant ==
    /\ publishing \in [Events -> Progress]
    /\ recorded \subseteq Events /\ history \subseteq recorded
    /\ Newest(MaxHistory, recorded) \subseteq history
    /\ Cardinality(history) <= MaxHistory + Cardinality(Untrimmed)

\* Only so many can be the newest: all but the oldest of them are newer than it.
LEMMA NewestAreFew ==
    ASSUME NEW n \in Nat, NEW S \in SUBSET Nat, IsFiniteSet(S)
    PROVE  Cardinality(Newest(n, S)) <= n
<1> DEFINE few == Newest(n, S)
<1>1. few \in SUBSET S /\ \A e \in few : Cardinality({f \in S : f > e}) < n
  BY DEF Newest
<1>2. IsFiniteSet(few) /\ Cardinality(few) \in Nat
  <2> HIDE DEF few
  <2> QED  BY <1>1, FS_Subset, FS_CardinalityType
<1> HIDE DEF few
<1>3. CASE few = {}
  BY <1>3, FS_EmptySet DEF few
<1>4. CASE few # {}
  <2>1. PICK m \in few : \A k \in few : ~(k < m)
    <3> DEFINE R == OpToRel(<, Nat)
    <3>1. \A a, b \in Nat : a < b => <<a, b>> \in R
      BY DEF OpToRel
    <3>2. IsWellFoundedOn(R, Nat)
      BY NatLessThanWellFounded
    <3> HIDE DEF R
    <3>3. few \subseteq Nat
      BY <1>1
    <3>4. PICK m \in few : \A k \in few : ~(<<k, m>> \in R)
      BY ONLY <3>2, <3>3, <1>4, WFMin
    <3> QED  BY <3>1, <3>3, <3>4
  <2> DEFINE newer == {f \in S : f > m}
  <2>2. few \ {m} \in SUBSET newer /\ newer \in SUBSET S
    BY <1>1, <2>1
  <2>3. Cardinality(newer) < n
    BY <1>1, <2>1
  <2> HIDE DEF newer
  <2>4. IsFiniteSet(newer) /\ Cardinality(newer) \in Nat
    BY <2>2, FS_Subset, FS_CardinalityType
  <2>5. Cardinality(few \ {m}) <= Cardinality(newer)
    BY <2>2, <2>4, FS_Subset
  <2>6. Cardinality(few \ {m}) = Cardinality(few) - 1
    BY <1>2, <2>1, FS_RemoveElement
  <2> QED  BY <1>2, <2>3, <2>4, <2>5, <2>6 DEF few
<1> QED  BY <1>3, <1>4

\* What is among the newest of a set is so in every subset it is in.
LEMMA NewestOfFewer ==
    ASSUME NEW n \in Nat, NEW S \in SUBSET Events, NEW T \in SUBSET S
    PROVE  Newest(n, S) \cap T \subseteq Newest(n, T)
<1> SUFFICES ASSUME NEW e \in Newest(n, S) \cap T PROVE e \in Newest(n, T)
  OBVIOUS
<1> DEFINE inS == {f \in S : f > e}
           inT == {f \in T : f > e}
<1>1. inT \in SUBSET inS /\ inS \in SUBSET Events
  OBVIOUS
<1>2. Cardinality(inS) < n
  BY DEF Newest
<1> HIDE DEF inS, inT
<1>3. IsFiniteSet(inS)
  BY <1>1, BusAssumption, FS_Subset
<1>4. Cardinality(inT) <= Cardinality(inS) /\ Cardinality(inT) \in Nat /\ Cardinality(inS) \in Nat
  BY <1>1, <1>3, FS_Subset, FS_CardinalityType
<1>5. Cardinality(inT) < n
  BY <1>2, <1>4
<1> QED  BY <1>5 DEF Newest, inT

LEMMA HistoryInit == BusInit => HistoryInvariant
<1> SUFFICES ASSUME BusInit PROVE HistoryInvariant
  OBVIOUS
<1>1. publishing \in [Events -> Progress] /\ recorded = {} /\ history = {}
  BY DEF BusInit, Progress
<1>2. Newest(MaxHistory, recorded) = {}
  BY <1>1 DEF Newest
<1>3. IsFiniteSet(Untrimmed) /\ Cardinality(Untrimmed) \in Nat
  BY BusAssumption, FS_Subset, FS_CardinalityType DEF Untrimmed
<1>4. Cardinality(history) = 0
  BY <1>1, FS_EmptySet
<1> QED  BY <1>1, <1>2, <1>3, <1>4, BusAssumption DEF HistoryInvariant

\* Trim is the only step that takes from the history, and never one of the newest.
LEMMA HistoryNext == HistoryInvariant /\ [BusNext]_busVars => HistoryInvariant'
<1> SUFFICES ASSUME HistoryInvariant, [BusNext]_busVars PROVE HistoryInvariant'
  OBVIOUS
<1>1. /\ publishing \in [Events -> Progress]
      /\ recorded \subseteq Events /\ history \subseteq recorded
      /\ Newest(MaxHistory, recorded) \subseteq history
      /\ Cardinality(history) <= MaxHistory + Cardinality(Untrimmed)
  BY DEF HistoryInvariant
<1>2. IsFiniteSet(Untrimmed) /\ Cardinality(Untrimmed) \in Nat
  BY BusAssumption, FS_Subset, FS_CardinalityType DEF Untrimmed
<1>3. IsFiniteSet(history) /\ Cardinality(history) \in Nat
  BY <1>1, BusAssumption, FS_Subset, FS_CardinalityType
<1>4. MaxHistory \in Nat /\ Events \subseteq Nat /\ IsFiniteSet(Events)
  BY BusAssumption
<1>5. ASSUME publishing' \in [Events -> Progress], Untrimmed' = Untrimmed,
             history' = history, recorded' = recorded
      PROVE  HistoryInvariant'
  BY <1>1, <1>5 DEF HistoryInvariant
<1>6. ASSUME NEW e \in Events, NEW c \in Channels, NEW from, NEW to,
             Broadcast(e, c, from, to), <<from, to>> \in {<<"no", "global">>, <<"global", "history">>}
      PROVE  HistoryInvariant'
  <2>1. publishing' = [publishing EXCEPT ![e] = to] /\ publishing[e] = from
    BY <1>6 DEF Broadcast
  <2>2. publishing' \in [Events -> Progress] /\ Untrimmed' = Untrimmed
    BY <1>1, <1>6, <2>1 DEF Progress, Untrimmed
  <2> QED  BY <1>5, <1>6, <2>2 DEF Broadcast
<1>7. ASSUME NEW e \in Events, AddToHistory(e) PROVE HistoryInvariant'
  <2>1. /\ publishing[e] = "history" /\ publishing' = [publishing EXCEPT ![e] = "trim"]
        /\ history' = history \cup {e} /\ recorded' = recorded \cup {e}
    BY <1>7 DEF AddToHistory
  <2>2. publishing' \in [Events -> Progress] /\ Untrimmed' = Untrimmed \cup {e} /\ e \notin Untrimmed
    BY <1>1, <2>1 DEF Progress, Untrimmed
  <2>3. Cardinality(Untrimmed \cup {e}) = Cardinality(Untrimmed) + 1
    BY <1>2, <2>2, FS_AddElement
  <2>4. Cardinality(history \cup {e}) <= Cardinality(history) + 1 /\ Cardinality(history \cup {e}) \in Nat
    <3>1. e \in history => history \cup {e} = history
      OBVIOUS
    <3>2. e \notin history => Cardinality(history \cup {e}) = Cardinality(history) + 1
      BY <1>3, FS_AddElement
    <3> QED  BY <1>3, <3>1, <3>2
  <2>5. Newest(MaxHistory, recorded \cup {e}) \subseteq history \cup {e}
    <3>1. Newest(MaxHistory, recorded \cup {e}) \cap recorded \subseteq Newest(MaxHistory, recorded)
      BY <1>1, <1>4, NewestOfFewer
    <3>2. Newest(MaxHistory, recorded \cup {e}) \subseteq recorded \cup {e}
      BY DEF Newest
    <3> QED  BY <1>1, <3>1, <3>2
  <2>6. Cardinality(history \cup {e}) <= MaxHistory + Cardinality(Untrimmed \cup {e})
    BY <1>1, <1>2, <1>3, <1>4, <2>3, <2>4
  <2>7. recorded \cup {e} \subseteq Events /\ history \cup {e} \subseteq recorded \cup {e}
    BY <1>1
  <2> QED  BY <2>1, <2>2, <2>5, <2>6, <2>7 DEF HistoryInvariant
<1>8. ASSUME NEW e \in Events, Trim(e) PROVE HistoryInvariant'
  <2> DEFINE kept == Newest(MaxHistory, history)
  <2>1. /\ publishing[e] = "trim" /\ publishing' = [publishing EXCEPT ![e] = "yes"]
        /\ history' = kept /\ recorded' = recorded
    BY <1>8 DEF Trim
  <2>2. publishing' \in [Events -> Progress]
    BY <1>1, <2>1 DEF Progress
  <2>3. Cardinality(Untrimmed') \in Nat
    <3>1. Untrimmed' \in SUBSET Events
      BY DEF Untrimmed
    <3> QED  BY <1>4, <3>1, FS_Subset, FS_CardinalityType
  <2>4. kept \subseteq history
    BY DEF Newest
  <2>5. Newest(MaxHistory, recorded) \subseteq kept
    <3>1. Newest(MaxHistory, recorded) \cap history \subseteq kept
      BY <1>1, <1>4, NewestOfFewer
    <3> QED  BY <1>1, <3>1
  <2>6. Cardinality(kept) <= MaxHistory /\ Cardinality(kept) \in Nat
    <3>1. Cardinality(kept) <= MaxHistory
      BY <1>1, <1>3, <1>4, NewestAreFew
    <3> HIDE DEF kept
    <3> QED  BY <1>3, <2>4, <3>1, FS_Subset, FS_CardinalityType
  <2> HIDE DEF kept
  <2>7. Cardinality(kept) <= MaxHistory + Cardinality(Untrimmed')
    BY <1>4, <2>3, <2>6
  <2> QED  BY <1>1, <2>1, <2>2, <2>4, <2>5, <2>7 DEF HistoryInvariant
<1>9. ASSUME NEW e \in Events, PublishRaises(e) PROVE HistoryInvariant'
  <2>1. /\ publishing[e] \in {"no", "global", "history", "trim"}
        /\ publishing' = [publishing EXCEPT ![e] = IF @ = "trim" THEN "untrimmed" ELSE "raised"]
        /\ history' = history /\ recorded' = recorded
    BY <1>9 DEF PublishRaises
  <2>2. publishing' \in [Events -> Progress] /\ Untrimmed' = Untrimmed
    BY <1>1, <2>1 DEF Progress, Untrimmed
  <2> QED  BY <1>5, <2>1, <2>2
<1>10. CASE ClearHistory
  <2>1. publishing' = publishing /\ history' = {} /\ recorded' = {}
    BY <1>10 DEF ClearHistory
  <2>2. Newest(MaxHistory, {}) = {}
    BY DEF Newest
  <2>3. Untrimmed' = Untrimmed
    BY <2>1 DEF Untrimmed
  <2>4. Cardinality({}) <= MaxHistory + Cardinality(Untrimmed)
    BY <1>2, <1>4, FS_EmptySet
  <2> QED  BY <1>1, <2>1, <2>2, <2>3, <2>4 DEF HistoryInvariant
<1>11. CASE UNCHANGED publisherVars
  BY <1>1, <1>5, <1>11 DEF publisherVars, Untrimmed
<1>12. CASE Publish
  <2>1. "project" \in Channels /\ "global" \in Channels
    BY DEF Channels
  <2> QED  BY <1>6, <1>7, <1>8, <1>9, <1>12, <2>1 DEF Publish, PublishProject, PublishGlobal
<1>13. ASSUME NEW h \in Handlers, Subscribe(h) \/ SubscribeAll(h) PROVE HistoryInvariant'
  BY <1>11, <1>13 DEF Subscribe, SubscribeAll
<1>14. CASE Unsubscribe \/ Exit
  BY <1>11, <1>14 DEF Unsubscribe, Exit
<1>15. ASSUME NEW l \in Listeners, ListenerStep(l) PROVE HistoryInvariant'
  BY <1>11, <1>15 DEF ListenerStep, CreateGlobalTask, StartListening, Receive, HandlerReturns
<1>16. ASSUME NEW l \in Listeners, UnsubscribeInHandler(l) \/ Stops(l) \/ ConnectionFails(l)
       PROVE  HistoryInvariant'
  BY <1>11, <1>16 DEF UnsubscribeInHandler, Stops, ConnectionFails, EndListener
<1>17. CASE UNCHANGED busVars
  BY <1>11, <1>17 DEF busVars, publisherVars
<1> QED  BY <1>10, <1>12, <1>13, <1>14, <1>15, <1>16, <1>17 DEF BusNext

\* The history has the newest of the events that were added to it, however many
\* publishers add and trim at the same time and wherever one fails.
THEOREM HistoryAlwaysNewest == BusSpec => []HistoryIsNewest
<1>1. HistoryInvariant => HistoryIsNewest
  BY DEF HistoryInvariant, HistoryIsNewest, Untrimmed
<1> QED  BY <1>1, HistoryInit, HistoryNext, PTL DEF BusSpec

-----------------------------------------------------------------------------
(* The listeners of the event bus.                                          *)

Phases == {"unused", "connecting", "starting", "listening", "in handler", "done"}

BusTypes ==
    /\ published \in [Channels -> Seq(Events)]
    /\ handlers \in [Channels -> Seq(Handlers)]
    /\ task \in [Channels -> Listeners \cup {None}]
    /\ phase \in [Listeners -> Phases]
    /\ connOf \in [Listeners -> Listeners]
    /\ globalPubsub \in GlobalListeners \cup {None}
    /\ queue \in [Listeners -> Seq(Events) \cup {None}]
    /\ event \in [Listeners -> Events \cup {None}]
    /\ \A l \in Listeners : phase[l] = "in handler" => event[l] \in Events
    /\ todo \in [Listeners -> Seq(Handlers)]
    /\ cancelled \subseteq Running
    /\ seen \in [Handlers -> Seq(Events)]

\* Each channel has its own handlers, each once.
HandlersApart ==
    \A c \in Channels :
        /\ \A i \in DOMAIN handlers[c] : ChannelOf(handlers[c][i]) = c
        /\ \A i, j \in DOMAIN handlers[c] : handlers[c][i] = handlers[c][j] => i = j

\* And its own listeners and connections.
ListenersApart ==
    /\ \A c \in Channels : task[c] # None => ChannelOf(task[c]) = c
    /\ \A l \in ProjectListeners : connOf[l] = l /\ phase[l] # "connecting"
    /\ \A l \in GlobalListeners :
          connOf[l] \in GlobalListeners /\ (phase[l] # "unused" => globalPubsub # None)

\* A connection is open from when its listener made it.
Connected ==
    /\ \A l \in Listeners : phase[l] \in {"unused", "connecting"} => ~Open(l)
    /\ \A l \in ProjectListeners :
          /\ phase[l] = "starting" => ~Open(l)
          /\ phase[l] \in {"listening", "in handler"} => Open(l)

BusInvariant == BusTypes /\ HandlersApart /\ ListenersApart /\ Connected

\* The two channels share no handler and no listener.
LEMMA ChannelNames ==
    /\ Channels = {"project", "global"} /\ None \notin Listeners
    /\ Handlers = ProjectHandlers \cup GlobalHandlers
    /\ Listeners = ProjectListeners \cup GlobalListeners
    /\ \A x \in ProjectHandlers \cup ProjectListeners :
          ChannelOf(x) = "project" /\ x \notin GlobalHandlers \cup GlobalListeners
    /\ \A x \in GlobalHandlers \cup GlobalListeners :
          ChannelOf(x) = "global" /\ x \notin ProjectHandlers \cup ProjectListeners
BY BusAssumption DEF Channels, Handlers, Listeners, ChannelOf

LEMMA TailFacts ==
    ASSUME NEW S, NEW s \in Seq(S), s # <<>>
    PROVE  /\ Head(s) \in S /\ Head(s) = s[1] /\ Tail(s) \in Seq(S)
           /\ Len(s) \in Nat /\ Len(s) >= 1 /\ Len(Tail(s)) = Len(s) - 1
           /\ \A i \in 1 .. Len(s) - 1 : Tail(s)[i] = s[i + 1]
OBVIOUS

LEMMA ElementFacts ==
    ASSUME NEW S, NEW s \in Seq(S)
    PROVE  DOMAIN s = 1 .. Len(s) /\ Len(s) \in Nat /\ \A i \in DOMAIN s : s[i] \in S
OBVIOUS

LEMMA AppendFacts ==
    ASSUME NEW S, NEW s \in Seq(S), NEW e \in S
    PROVE  /\ Append(s, e) \in Seq(S)
           /\ Len(s) \in Nat /\ Len(Append(s, e)) = Len(s) + 1
           /\ DOMAIN s = 1 .. Len(s) /\ DOMAIN Append(s, e) = 1 .. Len(s) + 1
           /\ \A i \in 1 .. Len(s) : Append(s, e)[i] = s[i]
           /\ Append(s, e)[Len(s) + 1] = e
OBVIOUS

\* What a listener that dispatches changes.
LEMMA CallNextTypes ==
    ASSUME BusInvariant, NEW l \in Listeners, phase[l] \in {"listening", "in handler"},
           NEW e \in Events, NEW rest \in Seq(Handlers), CallNext(l, e, rest)
    PROVE  /\ phase' \in [Listeners -> Phases] /\ phase'[l] \in {"listening", "in handler"}
           /\ \A m \in Listeners \ {l} : phase'[m] = phase[m]
           /\ event' \in [Listeners -> Events \cup {None}]
           /\ \A m \in Listeners : phase'[m] = "in handler" => event'[m] \in Events
           /\ todo' \in [Listeners -> Seq(Handlers)]
           /\ seen' \in [Handlers -> Seq(Events)]
<1>1. phase' \in [Listeners -> Phases] /\ phase'[l] \in {"listening", "in handler"}
      /\ \A m \in Listeners \ {l} : phase'[m] = phase[m]
  BY DEF CallNext, BusInvariant, BusTypes, Phases
<1>2. /\ event' \in [Listeners -> Events \cup {None}]
      /\ \A m \in Listeners : phase'[m] = "in handler" => event'[m] \in Events
  BY DEF CallNext, BusInvariant, BusTypes
<1>3. todo' \in [Listeners -> Seq(Handlers)]
  <2>1. rest # <<>> => Tail(rest) \in Seq(Handlers)
    BY TailFacts
  <2> QED  BY <2>1 DEF CallNext, BusInvariant, BusTypes
<1>4. seen' \in [Handlers -> Seq(Events)]
  <2>1. rest # <<>> => Head(rest) \in Handlers
    BY TailFacts
  <2>2. \A h \in Handlers : Append(seen[h], e) \in Seq(Events)
    <3> TAKE h \in Handlers
    <3>1. seen[h] \in Seq(Events)
      BY DEF BusInvariant, BusTypes
    <3> QED  BY <3>1, AppendFacts
  <2> QED  BY <2>1, <2>2 DEF CallNext, BusInvariant, BusTypes
<1> QED  BY <1>1, <1>2, <1>3, <1>4

LEMMA BusStarts == BusInit => BusInvariant
<1> SUFFICES ASSUME BusInit PROVE BusInvariant
  OBVIOUS
<1>1. BusTypes
  BY DEF BusInit, BusTypes, Phases, Running
<1>2. HandlersApart /\ ListenersApart
  BY ChannelNames DEF BusInit, HandlersApart, ListenersApart
<1>3. Connected
  BY ChannelNames DEF BusInit, Connected, Open
<1> QED  BY <1>1, <1>2, <1>3 DEF BusInvariant

\* Publishing only fills the queues.
LEMMA BroadcastBus ==
    ASSUME BusInvariant, NEW e \in Events, NEW c \in Channels, NEW from, NEW to,
           Broadcast(e, c, from, to)
    PROVE  /\ published' = [published EXCEPT ![c] = Append(published[c], e)]
           /\ published' \in [Channels -> Seq(Events)]
           /\ queue' \in [Listeners -> Seq(Events) \cup {None}]
           /\ \A l \in Listeners : /\ Open(l)' = Open(l)
                                   /\ Open(l) /\ ChannelOf(l) = c => queue'[l] = Append(queue[l], e)
                                   /\ ~(Open(l) /\ ChannelOf(l) = c) => queue'[l] = queue[l]
<1>1. published' = [published EXCEPT ![c] = Append(published[c], e)] /\ published[c] \in Seq(Events)
  BY DEF Broadcast, BusInvariant, BusTypes
<1>2. published' \in [Channels -> Seq(Events)]
  <2>1. Append(published[c], e) \in Seq(Events)
    BY <1>1, AppendFacts
  <2>2. published \in [Channels -> Seq(Events)]
    BY DEF BusInvariant, BusTypes
  <2> QED  BY <1>1, <2>1, <2>2
<1>3. ASSUME NEW l \in Listeners
      PROVE  /\ queue'[l] \in Seq(Events) \cup {None}
             /\ Open(l)' = Open(l)
             /\ Open(l) /\ ChannelOf(l) = c => queue'[l] = Append(queue[l], e)
             /\ ~(Open(l) /\ ChannelOf(l) = c) => queue'[l] = queue[l]
  <2>1. queue'[l] = IF Open(l) /\ ChannelOf(l) = c THEN Append(queue[l], e) ELSE queue[l]
    BY DEF Broadcast
  <2>2. Open(l) => queue[l] \in Seq(Events) /\ Append(queue[l], e) \in Seq(Events)
    <3>1. queue[l] \in Seq(Events) \cup {None}
      BY DEF BusInvariant, BusTypes
    <3>2. queue[l] \in Seq(Events) => Append(queue[l], e) \in Seq(Events)
      BY AppendFacts
    <3> QED  BY <3>1, <3>2 DEF Open
  <2>3. None \notin Seq(Events)
    BY BusAssumption
  <2>4. queue[l] \in Seq(Events) \cup {None}
    BY DEF BusInvariant, BusTypes
  <2> QED  BY <2>1, <2>2, <2>3, <2>4 DEF Open
<1>4. queue' \in [Listeners -> Seq(Events) \cup {None}]
  <2>1. queue' = [l \in Listeners |-> queue'[l]]
    BY DEF Broadcast
  <2> QED  BY <1>3, <2>1
<1> QED  BY <1>1, <1>2, <1>3, <1>4

\* A message that is read leaves the connection open.
LEMMA ReceiveBus ==
    ASSUME BusInvariant, NEW l \in Listeners, Receive(l)
    PROVE  /\ connOf[l] \in Listeners /\ queue[connOf[l]] \in Seq(Events) /\ queue[connOf[l]] # <<>>
           /\ Head(queue[connOf[l]]) \in Events
           /\ queue' = [queue EXCEPT ![connOf[l]] = Tail(queue[connOf[l]])]
           /\ queue' \in [Listeners -> Seq(Events) \cup {None}]
           /\ \A m \in Listeners : Open(m)' = Open(m)
           /\ handlers[ChannelOf(l)] \in Seq(Handlers)
<1> DEFINE k == connOf[l]
<1>1. k \in Listeners /\ queue[k] \in Seq(Events) /\ queue[k] # <<>>
  BY DEF Receive, Open, BusInvariant, BusTypes
<1>2. Head(queue[k]) \in Events /\ Tail(queue[k]) \in Seq(Events)
  BY <1>1
<1>3. queue' = [queue EXCEPT ![k] = Tail(queue[k])]
  BY DEF Receive
<1>4. queue' \in [Listeners -> Seq(Events) \cup {None}]
  <2> HIDE DEF k
  <2> QED  BY <1>1, <1>2, <1>3 DEF BusInvariant, BusTypes
<1>5. \A m \in Listeners : Open(m)' = Open(m)
  <2>1. None \notin Seq(Events) /\ queue \in [Listeners -> Seq(Events) \cup {None}]
    BY BusAssumption DEF BusInvariant, BusTypes
  <2> HIDE DEF k
  <2> QED  BY <1>1, <1>2, <1>3, <2>1 DEF Open
<1>6. handlers[ChannelOf(l)] \in Seq(Handlers)
  BY ChannelNames DEF BusInvariant, BusTypes
<1> QED  BY <1>1, <1>2, <1>3, <1>4, <1>5, <1>6

\* A handler is registered once, behind the others.
LEMMA RegisterBus ==
    ASSUME BusInvariant, NEW h \in Handlers, Register(h)
    PROVE  handlers' \in [Channels -> Seq(Handlers)] /\ HandlersApart'
<1> DEFINE c == ChannelOf(h)
<1>1. /\ c \in Channels /\ handlers[c] \in Seq(Handlers)
      /\ handlers' = [handlers EXCEPT ![c] = Append(handlers[c], h)]
      /\ \A i \in DOMAIN handlers[c] : handlers[c][i] # h
  BY ChannelNames DEF Register, Registered, BusInvariant, BusTypes
<1> HIDE DEF c
<1>2. handlers' \in [Channels -> Seq(Handlers)]
  <2>1. Append(handlers[c], h) \in Seq(Handlers)
    BY <1>1
  <2> QED  BY <1>1, <2>1 DEF BusInvariant, BusTypes
<1>3. ASSUME NEW d \in Channels
      PROVE  /\ \A i \in DOMAIN handlers'[d] : ChannelOf(handlers'[d][i]) = d
             /\ \A i, j \in DOMAIN handlers'[d] : handlers'[d][i] = handlers'[d][j] => i = j
  <2>1. /\ \A i \in DOMAIN handlers[d] : ChannelOf(handlers[d][i]) = d
        /\ \A i, j \in DOMAIN handlers[d] : handlers[d][i] = handlers[d][j] => i = j
    BY DEF BusInvariant, HandlersApart
  <2>2. CASE d # c
    <3>1. handlers'[d] = handlers[d]
      BY <1>1, <2>2 DEF BusInvariant, BusTypes
    <3> QED  BY <2>1, <3>1
  <2>3. CASE d = c
    <3>1. handlers'[d] = Append(handlers[d], h)
      BY <1>1, <2>3 DEF BusInvariant, BusTypes
    <3> DEFINE s == handlers[d]
    <3>2. s \in Seq(Handlers) /\ \A i \in DOMAIN s : s[i] # h
      BY <1>1, <2>3
    <3>3. ChannelOf(h) = d
      BY <2>3 DEF c
    <3> HIDE DEF s
    <3>4. DOMAIN Append(s, h) = 1 .. (Len(s) + 1) /\ DOMAIN s = 1 .. Len(s) /\ Len(s) \in Nat
      BY <3>2
    <3>5. /\ \A i \in 1 .. Len(s) : Append(s, h)[i] = s[i]
          /\ Append(s, h)[Len(s) + 1] = h
      BY <3>2
    <3>6. \A i \in 1 .. (Len(s) + 1) : i \in 1 .. Len(s) \/ i = Len(s) + 1
      BY <3>4
    <3> QED  BY <2>1, <3>1, <3>2, <3>3, <3>4, <3>5, <3>6 DEF s
  <2> QED  BY <2>2, <2>3
<1> QED  BY <1>2, <1>3 DEF HandlersApart

\* A listener that ends closes its own connection, or of the global channel another one.
LEMMA EndBus ==
    ASSUME BusInvariant, NEW l \in Listeners, l \in Running, EndListener(l)
    PROVE  /\ phase' = [phase EXCEPT ![l] = "done"] /\ cancelled' = cancelled \ {l}
           /\ queue' \in [Listeners -> Seq(Events) \cup {None}]
           /\ \A m \in Listeners :
                 \/ queue'[m] = queue[m]
                 \/ /\ ~Open(m)' /\ phase[l] \notin {"connecting", "starting"}
                    /\ IF l \in GlobalListeners THEN m \in GlobalListeners /\ m = globalPubsub ELSE m = l
<1>1. phase' = [phase EXCEPT ![l] = "done"] /\ cancelled' = cancelled \ {l}
  BY DEF EndListener
<1>2. CASE phase[l] \in {"connecting", "starting"}
  BY <1>1, <1>2 DEF EndListener, BusInvariant, BusTypes
<1>3. CASE phase[l] \notin {"connecting", "starting"}
  <2> DEFINE k == Closes(l)
  <2>1. k \in Listeners /\ IF l \in GlobalListeners THEN k \in GlobalListeners /\ k = globalPubsub ELSE k = l
    <3>1. l \in GlobalListeners => globalPubsub \in GlobalListeners
      BY DEF Running, BusInvariant, BusTypes, ListenersApart
    <3> QED  BY <3>1, ChannelNames DEF Closes
  <2>2. queue' = [queue EXCEPT ![k] = None]
    BY <1>3 DEF EndListener
  <2>3. queue \in [Listeners -> Seq(Events) \cup {None}]
    BY DEF BusInvariant, BusTypes
  <2> HIDE DEF k
  <2>4. queue' \in [Listeners -> Seq(Events) \cup {None}]
    BY <2>1, <2>2, <2>3
  <2>5. \A m \in Listeners : queue'[m] = IF m = k THEN None ELSE queue[m]
    BY <2>1, <2>2, <2>3
  <2>6. ASSUME NEW m \in Listeners
        PROVE  \/ queue'[m] = queue[m]
               \/ /\ ~Open(m)' /\ phase[l] \notin {"connecting", "starting"}
                  /\ IF l \in GlobalListeners THEN m \in GlobalListeners /\ m = globalPubsub ELSE m = l
    <3>1. CASE m # k
      BY <2>5, <3>1
    <3>2. CASE m = k
      <4>1. ~Open(m)'
        BY <2>5, <3>2 DEF Open
      <4> QED  BY <1>3, <2>1, <3>2, <4>1
    <3> QED  BY <3>1, <3>2
  <2> QED  BY <1>1, <2>4, <2>6
<1> QED  BY <1>2, <1>3

LEMMA BusNextKeeps == BusInvariant /\ [BusNext]_busVars => BusInvariant'
<1> SUFFICES ASSUME BusInvariant, [BusNext]_busVars PROVE BusInvariant'
  OBVIOUS
<1>a. /\ handlers \in [Channels -> Seq(Handlers)]
      /\ task \in [Channels -> Listeners \cup {None}]
      /\ phase \in [Listeners -> Phases] /\ connOf \in [Listeners -> Listeners]
      /\ globalPubsub \in GlobalListeners \cup {None} /\ cancelled \subseteq Running
  BY DEF BusInvariant, BusTypes
<1>b. queue \in [Listeners -> Seq(Events) \cup {None}] /\ <<>> \in Seq(Events) /\ <<>> # None
  <2>1. queue \in [Listeners -> Seq(Events) \cup {None}]
    BY DEF BusInvariant, BusTypes
  <2>2. <<>> \in Seq(Events)
    OBVIOUS
  <2> QED  BY <2>1, <2>2, BusAssumption
<1>c. HandlersApart /\ ListenersApart /\ Connected
  BY DEF BusInvariant
<1>1. ASSUME UNCHANGED <<listenerVars, handlers, task, globalPubsub>>,
             published' \in [Channels -> Seq(Events)]
      PROVE  BusInvariant'
  BY <1>1 DEF listenerVars, BusInvariant, BusTypes, Running, HandlersApart, ListenersApart, Connected, Open
<1>2. ASSUME NEW e \in Events, NEW c \in Channels, NEW from, NEW to, Broadcast(e, c, from, to)
      PROVE  BusInvariant'
  <2>1. UNCHANGED <<phase, connOf, event, todo, cancelled, seen, handlers, task, globalPubsub>>
    BY <1>2 DEF Broadcast
  <2>2. /\ published' \in [Channels -> Seq(Events)]
        /\ queue' \in [Listeners -> Seq(Events) \cup {None}]
        /\ \A l \in Listeners : Open(l)' = Open(l)
    BY <1>2, BroadcastBus
  <2>3. BusTypes'
    BY <2>1, <2>2 DEF BusInvariant, BusTypes, Running
  <2>4. HandlersApart' /\ ListenersApart'
    BY <2>1 DEF BusInvariant, HandlersApart, ListenersApart
  <2>5. Connected'
    BY <2>1, <2>2, ChannelNames DEF BusInvariant, Connected
  <2> QED  BY <2>3, <2>4, <2>5 DEF BusInvariant
<1>3. ASSUME NEW h \in Handlers, Subscribe(h) PROVE BusInvariant'
  <2>1. /\ UNCHANGED <<published, connOf, queue, event, todo, cancelled, seen, globalPubsub>>
        /\ h \in ProjectHandlers /\ Register(h)
    BY <1>3 DEF Subscribe, publisherVars
  <2>2. handlers' \in [Channels -> Seq(Handlers)] /\ HandlersApart'
    BY <2>1, RegisterBus
  <2>3. CASE UNCHANGED <<phase, task>>
    BY <2>1, <2>2, <2>3 DEF BusInvariant, BusTypes, Running, ListenersApart, Connected, Open
  <2>4. ASSUME NEW l \in Fresh(ProjectListeners), phase' = [phase EXCEPT ![l] = "starting"],
               task' = [task EXCEPT !["project"] = l]
        PROVE  BusInvariant'
    <3>1. l \in ProjectListeners /\ phase[l] = "unused"
      BY DEF Fresh
    <3>2. BusTypes'
      BY <2>1, <2>2, <2>4, <3>1, ChannelNames DEF BusInvariant, BusTypes, Running, Phases
    <3>3. ListenersApart'
      BY <2>1, <2>4, <3>1, ChannelNames DEF BusInvariant, BusTypes, ListenersApart
    <3>4. Connected'
      BY <2>1, <2>4, <3>1, ChannelNames DEF BusInvariant, BusTypes, Connected, Open
    <3> QED  BY <2>2, <3>2, <3>3, <3>4 DEF BusInvariant
  <2> QED  BY <1>3, <2>3, <2>4 DEF Subscribe
<1>4. ASSUME NEW h \in Handlers, SubscribeAll(h) PROVE BusInvariant'
  <2>1. /\ UNCHANGED <<published, connOf, queue, event, todo, cancelled, seen, task>>
        /\ h \in GlobalHandlers /\ Register(h)
    BY <1>4 DEF SubscribeAll, publisherVars
  <2>2. handlers' \in [Channels -> Seq(Handlers)] /\ HandlersApart'
    BY <2>1, RegisterBus
  <2>3. CASE UNCHANGED <<phase, globalPubsub>>
    BY <2>1, <2>2, <2>3 DEF BusInvariant, BusTypes, Running, ListenersApart, Connected, Open
  <2>4. ASSUME NEW l \in Fresh(GlobalListeners), phase' = [phase EXCEPT ![l] = "connecting"],
               globalPubsub' = l
        PROVE  BusInvariant'
    <3>1. l \in GlobalListeners /\ phase[l] = "unused"
      BY DEF Fresh
    <3>2. BusTypes'
      BY <2>1, <2>2, <2>4, <3>1, ChannelNames DEF BusInvariant, BusTypes, Running, Phases
    <3>3. ListenersApart'
      BY <2>1, <2>4, <3>1, ChannelNames DEF BusInvariant, BusTypes, ListenersApart
    <3>4. Connected'
      BY <2>1, <2>4, <3>1, ChannelNames DEF BusInvariant, BusTypes, Connected, Open
    <3> QED  BY <2>2, <3>2, <3>3, <3>4 DEF BusInvariant
  <2> QED  BY <1>4, <2>3, <2>4 DEF SubscribeAll
<1>5. CASE Unsubscribe
  <2>1. /\ UNCHANGED <<published, phase, connOf, queue, event, todo, seen, globalPubsub>>
        /\ handlers' = [handlers EXCEPT !["project"] = <<>>]
        /\ task' = [task EXCEPT !["project"] = None]
        /\ cancelled' \subseteq cancelled \cup Running
    BY <1>5 DEF Unsubscribe, publisherVars
  <2>2. BusTypes'
    <3>1. <<>> \in Seq(Handlers)
      OBVIOUS
    <3>2. handlers' \in [Channels -> Seq(Handlers)]
      BY <1>a, <2>1, <3>1
    <3>3. task' \in [Channels -> Listeners \cup {None}]
      BY <1>a, <2>1
    <3> QED  BY <2>1, <3>2, <3>3 DEF BusInvariant, BusTypes, Running
  <2>3. HandlersApart' /\ ListenersApart'
    <3>1. \A c \in Channels : handlers'[c] = <<>> \/ handlers'[c] = handlers[c]
      BY <1>a, <2>1
    <3>2. \A c \in Channels : task'[c] = None \/ task'[c] = task[c]
      BY <1>a, <2>1
    <3>3. HandlersApart'
      BY <1>c, <3>1 DEF HandlersApart
    <3> QED  BY <1>c, <2>1, <3>2, <3>3 DEF ListenersApart
  <2>4. Connected'
    BY <2>1 DEF BusInvariant, Connected, Open
  <2> QED  BY <2>2, <2>3, <2>4 DEF BusInvariant
<1>6. CASE Exit
  <2>1. /\ UNCHANGED <<published, phase, connOf, queue, event, todo, seen, globalPubsub, handlers, task>>
        /\ cancelled' \subseteq cancelled \cup Running
    BY <1>6 DEF Exit, publisherVars
  <2> QED  BY <2>1 DEF BusInvariant, BusTypes, Running, HandlersApart, ListenersApart, Connected, Open
<1>7. ASSUME NEW l \in Listeners, CreateGlobalTask(l) PROVE BusInvariant'
  <2>1. /\ UNCHANGED <<published, connOf, event, todo, cancelled, seen, handlers, globalPubsub>>
        /\ phase[l] = "connecting" /\ phase' = [phase EXCEPT ![l] = "starting"]
        /\ queue' = [queue EXCEPT ![l] = <<>>] /\ task' = [task EXCEPT !["global"] = l]
    BY <1>7 DEF CreateGlobalTask, publisherVars
  <2>2. l \in GlobalListeners
    BY <2>1, ChannelNames DEF BusInvariant, ListenersApart
  <2>3. BusTypes'
    <3>1. queue' \in [Listeners -> Seq(Events) \cup {None}]
      BY <1>b, <2>1
    <3>2. task' \in [Channels -> Listeners \cup {None}]
      BY <1>a, <2>1
    <3>3. phase' \in [Listeners -> Phases] /\ Running \subseteq Running'
      <4>1. phase' \in [Listeners -> Phases]
        BY <1>a, <2>1 DEF Phases
      <4>2. \A m \in Listeners : m = l \/ phase'[m] = phase[m]
        BY <1>a, <2>1
      <4>3. phase'[l] \notin {"unused", "done"}
        BY <1>a, <2>1
      <4> QED  BY <4>1, <4>2, <4>3 DEF Running
    <3>4. \A m \in Listeners : phase'[m] = "in handler" => phase[m] = "in handler"
      BY <1>a, <2>1
    <3> QED  BY <2>1, <3>1, <3>2, <3>3, <3>4 DEF BusInvariant, BusTypes
  <2>4. HandlersApart' /\ ListenersApart'
    <3>1. HandlersApart'
      BY <1>c, <2>1 DEF HandlersApart
    <3>2. ListenersApart'
      BY <1>a, <1>c, <2>1, <2>2, ChannelNames DEF ListenersApart
    <3> QED  BY <3>1, <3>2
  <2>5. Connected'
    BY <1>a, <1>b, <1>c, <2>1, <2>2, ChannelNames DEF Connected, Open
  <2> QED  BY <2>3, <2>4, <2>5 DEF BusInvariant
<1>8. ASSUME NEW l \in Listeners, StartListening(l) PROVE BusInvariant'
  <2>1. /\ UNCHANGED <<published, event, todo, cancelled, seen, handlers, task, globalPubsub>>
        /\ phase[l] = "starting" /\ phase' = [phase EXCEPT ![l] = "listening"]
        /\ \/ l \in ProjectListeners /\ queue' = [queue EXCEPT ![l] = <<>>] /\ UNCHANGED connOf
           \/ l \in GlobalListeners /\ connOf' = [connOf EXCEPT ![l] = globalPubsub] /\ UNCHANGED queue
    BY <1>8 DEF StartListening, publisherVars
  <2>2. l \in GlobalListeners => globalPubsub \in GlobalListeners
    BY <2>1 DEF BusInvariant, BusTypes, ListenersApart
  <2>3. BusTypes'
    <3>1. queue' \in [Listeners -> Seq(Events) \cup {None}]
      BY <1>b, <2>1
    <3>2. connOf' \in [Listeners -> Listeners]
      BY <1>a, <2>1, <2>2, ChannelNames
    <3>3. phase' \in [Listeners -> Phases] /\ Running \subseteq Running'
      <4>1. phase' \in [Listeners -> Phases]
        BY <1>a, <2>1 DEF Phases
      <4>2. \A m \in Listeners : m = l \/ phase'[m] = phase[m]
        BY <1>a, <2>1
      <4>3. phase'[l] \notin {"unused", "done"}
        BY <1>a, <2>1
      <4> QED  BY <4>1, <4>2, <4>3 DEF Running
    <3>4. \A m \in Listeners : phase'[m] = "in handler" => phase[m] = "in handler"
      BY <1>a, <2>1
    <3> QED  BY <2>1, <3>1, <3>2, <3>3, <3>4 DEF BusInvariant, BusTypes
  <2>4. HandlersApart' /\ ListenersApart'
    <3>1. HandlersApart'
      BY <1>c, <2>1 DEF HandlersApart
    <3>2. ListenersApart'
      BY <1>a, <1>c, <2>1, <2>2, ChannelNames DEF ListenersApart
    <3> QED  BY <3>1, <3>2
  <2>5. Connected'
    BY <1>a, <1>b, <1>c, <2>1, ChannelNames DEF Connected, Open
  <2> QED  BY <2>3, <2>4, <2>5 DEF BusInvariant
<1>9. ASSUME NEW l \in Listeners, phase[l] \in {"listening", "in handler"},
             NEW e \in Events, NEW rest \in Seq(Handlers), CallNext(l, e, rest),
             queue' \in [Listeners -> Seq(Events) \cup {None}],
             \A m \in Listeners : Open(m)' = Open(m),
             UNCHANGED <<published, connOf, cancelled, handlers, task, globalPubsub>>
      PROVE  BusInvariant'
  <2>1. /\ phase' \in [Listeners -> Phases] /\ phase'[l] \in {"listening", "in handler"}
        /\ \A m \in Listeners \ {l} : phase'[m] = phase[m]
        /\ event' \in [Listeners -> Events \cup {None}]
        /\ \A m \in Listeners : phase'[m] = "in handler" => event'[m] \in Events
        /\ todo' \in [Listeners -> Seq(Handlers)]
        /\ seen' \in [Handlers -> Seq(Events)]
    BY <1>9, CallNextTypes
  <2>2. BusTypes'
    BY <1>9, <2>1 DEF BusInvariant, BusTypes, Running
  <2>3. HandlersApart' /\ ListenersApart'
    <3>1. HandlersApart'
      BY <1>9, <1>c DEF HandlersApart
    <3>2. \A m \in Listeners : phase'[m] \in {"connecting", "unused"} <=> phase[m] \in {"connecting", "unused"}
      BY <1>9, <2>1
    <3>3. \A m \in Listeners : phase'[m] = phase[m] \/ phase[m] \notin {"connecting", "unused"}
      BY <1>9, <2>1
    <3> QED  BY <1>9, <1>c, <3>1, <3>2, <3>3, ChannelNames DEF ListenersApart
  <2>4. Connected'
    BY <1>9, <1>c, <2>1, ChannelNames DEF Connected
  <2> QED  BY <2>2, <2>3, <2>4 DEF BusInvariant
<1>10. ASSUME NEW l \in Listeners, Receive(l) PROVE BusInvariant'
  <2>1. /\ phase[l] = "listening" /\ CallNext(l, Head(queue[connOf[l]]), handlers[ChannelOf(l)])
        /\ UNCHANGED <<published, connOf, cancelled, handlers, task, globalPubsub>>
    BY <1>10 DEF Receive, publisherVars
  <2> QED  BY <1>9, <1>10, <2>1, ReceiveBus
<1>11. ASSUME NEW l \in Listeners, HandlerReturns(l) PROVE BusInvariant'
  <2>1. /\ phase[l] = "in handler" /\ CallNext(l, event[l], todo[l])
        /\ UNCHANGED <<published, connOf, queue, cancelled, handlers, task, globalPubsub>>
    BY <1>11 DEF HandlerReturns, publisherVars
  <2>2. event[l] \in Events /\ todo[l] \in Seq(Handlers) /\ queue' \in [Listeners -> Seq(Events) \cup {None}]
    BY <2>1 DEF BusInvariant, BusTypes
  <2> QED  BY <1>9, <1>11, <2>1, <2>2 DEF Open
<1>12. ASSUME NEW l \in Listeners, UnsubscribeInHandler(l) PROVE BusInvariant'
  <2>1. /\ UNCHANGED <<published, listenerVars, globalPubsub>>
        /\ handlers' = [handlers EXCEPT !["project"] = <<>>]
        /\ task' = [task EXCEPT !["project"] = None]
    BY <1>12 DEF UnsubscribeInHandler, publisherVars
  <2>2. BusTypes'
    <3>1. <<>> \in Seq(Handlers)
      OBVIOUS
    <3>2. handlers' \in [Channels -> Seq(Handlers)]
      BY <1>a, <2>1, <3>1
    <3>3. task' \in [Channels -> Listeners \cup {None}]
      BY <1>a, <2>1
    <3> QED  BY <2>1, <3>2, <3>3 DEF BusInvariant, BusTypes, Running, listenerVars
  <2>3. HandlersApart' /\ ListenersApart'
    <3>1. \A c \in Channels : handlers'[c] = <<>> \/ handlers'[c] = handlers[c]
      BY <1>a, <2>1
    <3>2. \A c \in Channels : task'[c] = None \/ task'[c] = task[c]
      BY <1>a, <2>1
    <3>3. HandlersApart'
      BY <1>c, <3>1 DEF HandlersApart
    <3> QED  BY <1>c, <2>1, <3>2, <3>3 DEF ListenersApart, listenerVars
  <2>4. Connected'
    BY <2>1 DEF BusInvariant, Connected, Open, listenerVars
  <2> QED  BY <2>2, <2>3, <2>4 DEF BusInvariant
<1>13. ASSUME NEW l \in Listeners, Stops(l) \/ ConnectionFails(l) PROVE BusInvariant'
  <2>1. l \in Running /\ EndListener(l)
    BY <1>13 DEF Stops, ConnectionFails, Running, BusInvariant, BusTypes
  <2>2. UNCHANGED <<published, connOf, event, todo, seen, handlers, task, globalPubsub>>
    BY <2>1 DEF EndListener, publisherVars
  <2>3. /\ phase' = [phase EXCEPT ![l] = "done"] /\ cancelled' = cancelled \ {l}
        /\ queue' \in [Listeners -> Seq(Events) \cup {None}]
        /\ \A m \in Listeners :
              queue'[m] = queue[m] \/ (~Open(m)' /\ (m = l \/ m \in GlobalListeners))
    BY <2>1, EndBus
  <2>4. BusTypes'
    BY <2>2, <2>3 DEF BusInvariant, BusTypes, Running, Phases
  <2>5. HandlersApart' /\ ListenersApart'
    <3>1. HandlersApart'
      BY <1>c, <2>2 DEF HandlersApart
    <3>2. ListenersApart'
      BY <1>a, <1>c, <2>1, <2>2, <2>3, ChannelNames DEF ListenersApart, Running
    <3> QED  BY <3>1, <3>2
  <2>6. Connected'
    BY <1>a, <1>c, <2>1, <2>2, <2>3, ChannelNames DEF Connected, Open, Running
  <2> QED  BY <2>4, <2>5, <2>6 DEF BusInvariant
<1>14. CASE Publish
  BY <1>1, <1>2, <1>14, ChannelNames
     DEF Publish, PublishProject, PublishGlobal, AddToHistory, Trim, PublishRaises, BusInvariant, BusTypes
<1>15. CASE ClearHistory
  BY <1>1, <1>15 DEF ClearHistory, BusInvariant, BusTypes
<1>16. CASE UNCHANGED busVars
  BY <1>1, <1>16 DEF busVars, publisherVars, BusInvariant, BusTypes
<1> QED
  BY <1>3, <1>4, <1>5, <1>6, <1>7, <1>8, <1>10, <1>11, <1>12, <1>13, <1>14, <1>15, <1>16
     DEF BusNext, ListenerStep

\* The variables keep their types, handlers and listeners stay with their channel, no
\* connection is open before it was made, and a project listener that reads has one.
THEOREM BusInvariance == BusSpec => []BusInvariant
BY BusStarts, BusNextKeeps, PTL DEF BusSpec

-----------------------------------------------------------------------------
(* Who reads what.                                                          *)

\* Of the project at most one listener is not cancelled.
OneOfProject ==
    ~survivor => \A l \in (ProjectListeners \cap Running) \ cancelled : task["project"] = l

\* Of the global channel at most one runs.  It reads its own connection, or one that
\* is closed: that of a caller who failed to connect after it.
OneOfGlobal ==
    ~raced => \A l \in GlobalListeners \cap Running :
        IF phase[l] = "connecting" THEN globalPubsub # None /\ ~Open(globalPubsub)
        ELSE /\ task["global"] = l /\ GlobalListeners \cap Running = {l}
             /\ globalPubsub = l \/ (globalPubsub # None /\ ~Open(globalPubsub))
             /\ phase[l] # "starting" => connOf[l] = l \/ ~Open(connOf[l])
             /\ phase[l] = "in handler" => connOf[l] = l /\ Open(l)

OneReader == OneOfProject /\ OneOfGlobal

LEMMA ReaderStarts == BusInit => OneReader
BY DEF BusInit, OneReader, OneOfProject, OneOfGlobal, Running

\* A second listener starts only where the first is cancelled or has ended, or the flags
\* of the two exceptions are raised.
LEMMA ReaderNextKeeps ==
    BusInvariant /\ OneReader /\ [BusNext]_busVars => OneReader'
<1> SUFFICES ASSUME BusInvariant, OneReader, [BusNext]_busVars PROVE OneReader'
  OBVIOUS
<1>a. /\ task \in [Channels -> Listeners \cup {None}]
      /\ phase \in [Listeners -> Phases] /\ connOf \in [Listeners -> Listeners]
      /\ globalPubsub \in GlobalListeners \cup {None} /\ cancelled \subseteq Running
      /\ queue \in [Listeners -> Seq(Events) \cup {None}]
  BY DEF BusInvariant, BusTypes
<1>b. OneOfProject /\ OneOfGlobal /\ Connected /\ ListenersApart
  BY DEF OneReader, BusInvariant
<1>1. ASSUME UNCHANGED <<phase, connOf, cancelled, task, globalPubsub, survivor, raced>>,
             \A m \in Listeners : Open(m)' = Open(m)
      PROVE  OneReader'
  <2>1. Running' = Running
    BY <1>1 DEF Running
  <2>2. OneOfProject'
    BY <1>1, <1>b, <2>1 DEF OneOfProject
  <2>3. OneOfGlobal'
    BY <1>1, <1>a, <1>b, <2>1, ChannelNames DEF OneOfGlobal
  <2> QED  BY <2>2, <2>3 DEF OneReader
<1>2. ASSUME NEW e \in Events, NEW c \in Channels, NEW from, NEW to, Broadcast(e, c, from, to)
      PROVE  OneReader'
  BY <1>1, <1>2, BroadcastBus DEF Broadcast
<1>3. ASSUME UNCHANGED <<listenerVars, task, globalPubsub, survivor, raced>> PROVE OneReader'
  BY <1>1, <1>3 DEF listenerVars, Open
<1>4. ASSUME NEW h \in Handlers, Subscribe(h) PROVE OneReader'
  <2>1. UNCHANGED <<connOf, queue, cancelled, globalPubsub, survivor, raced>>
    BY <1>4 DEF Subscribe
  <2>2. CASE UNCHANGED <<phase, task>>
    BY <1>1, <2>1, <2>2 DEF Open
  <2>3. ASSUME NEW l \in Fresh(ProjectListeners), phase' = [phase EXCEPT ![l] = "starting"],
               task' = [task EXCEPT !["project"] = l], NeedsListener("project")
        PROVE  OneReader'
    <3>1. l \in ProjectListeners /\ phase[l] = "unused"
      BY DEF Fresh
    <3>2. Running' = Running \cup {l} /\ l \notin Running
      BY <1>a, <2>3, <3>1, ChannelNames DEF Running
    <3>3. task'["project"] = l /\ task'["global"] = task["global"] /\ task["project"] \notin Running
      BY <1>a, <2>3, ChannelNames DEF NeedsListener
    <3>4. OneOfProject'
      BY <1>b, <2>1, <3>2, <3>3 DEF OneOfProject
    <3>5. GlobalListeners \cap Running' = GlobalListeners \cap Running
          /\ \A m \in GlobalListeners : phase'[m] = phase[m]
      BY <1>a, <2>3, <3>1, <3>2, ChannelNames
    <3>6. OneOfGlobal'
      BY <1>b, <2>1, <3>3, <3>5 DEF OneOfGlobal, Open
    <3> QED  BY <3>4, <3>6 DEF OneReader
  <2> QED  BY <1>4, <2>2, <2>3 DEF Subscribe
<1>5. ASSUME NEW h \in Handlers, SubscribeAll(h) PROVE OneReader'
  <2>1. UNCHANGED <<connOf, queue, cancelled, task, survivor, raced>>
    BY <1>5 DEF SubscribeAll
  <2>2. CASE UNCHANGED <<phase, globalPubsub>>
    BY <1>1, <2>1, <2>2 DEF Open
  <2>3. ASSUME NEW l \in Fresh(GlobalListeners), phase' = [phase EXCEPT ![l] = "connecting"],
               globalPubsub' = l, NeedsListener("global")
        PROVE  OneReader'
    <3>1. l \in GlobalListeners /\ phase[l] = "unused"
      BY DEF Fresh
    <3>2. Running' = Running \cup {l} /\ l \notin Running
      BY <1>a, <2>3, <3>1, ChannelNames DEF Running
    <3>3. ProjectListeners \cap Running' = ProjectListeners \cap Running
      BY <3>1, <3>2, ChannelNames
    <3>4. OneOfProject'
      BY <1>b, <2>1, <3>3 DEF OneOfProject
    <3>5. ~Open(l) /\ l # None
      BY <1>b, <3>1, ChannelNames DEF Connected
    <3>6. ASSUME ~raced, NEW m \in GlobalListeners \cap Running' PROVE phase'[m] = "connecting"
      <4>1. task["global"] \notin Running
        BY <2>3 DEF NeedsListener
      <4>2. CASE m = l
        BY <1>a, <2>3, <3>1, <4>2, ChannelNames
      <4>3. CASE m # l
        <5>1. m \in GlobalListeners \cap Running
          BY <3>2, <3>6, <4>3
        <5>2. phase[m] = "connecting"
          BY ONLY <1>b, <3>6, <4>1, <5>1 DEF OneOfGlobal
        <5>3. phase'[m] = phase[m]
          BY <1>a, <2>3, <4>3, <5>1, ChannelNames
        <5> QED  BY <5>2, <5>3
      <4> QED  BY <4>2, <4>3
    <3>7. OneOfGlobal'
      <4>1. globalPubsub' # None /\ ~Open(globalPubsub)'
        BY <2>1, <2>3, <3>5 DEF Open
      <4> QED  BY <2>1, <3>6, <4>1 DEF OneOfGlobal
    <3> QED  BY <3>4, <3>7 DEF OneReader
  <2> QED  BY <1>5, <2>2, <2>3 DEF SubscribeAll
<1>6. CASE Unsubscribe
  <2>1. /\ UNCHANGED <<phase, connOf, queue, globalPubsub, survivor, raced>>
        /\ task' = [task EXCEPT !["project"] = None]
        /\ cancelled' = cancelled \cup ({task["project"]} \cap Running)
    BY <1>6 DEF Unsubscribe
  <2>2. Running' = Running /\ task'["global"] = task["global"]
    BY <1>a, <2>1, ChannelNames DEF Running
  <2>3. OneOfProject'
    BY <1>b, <2>1, <2>2 DEF OneOfProject
  <2>4. OneOfGlobal'
    BY <1>b, <2>1, <2>2 DEF OneOfGlobal, Open
  <2> QED  BY <2>3, <2>4 DEF OneReader
<1>7. CASE Exit
  <2>1. UNCHANGED <<phase, connOf, queue, task, globalPubsub, survivor, raced>> /\ cancelled \subseteq cancelled'
    BY <1>7 DEF Exit
  <2>2. Running' = Running
    BY <2>1 DEF Running
  <2>3. OneOfProject'
    BY <1>b, <2>1, <2>2 DEF OneOfProject
  <2>4. OneOfGlobal'
    BY <1>b, <2>1, <2>2 DEF OneOfGlobal, Open
  <2> QED  BY <2>3, <2>4 DEF OneReader
<1>8. ASSUME NEW l \in Listeners, CreateGlobalTask(l) PROVE OneReader'
  <2>1. /\ UNCHANGED <<connOf, cancelled, globalPubsub, survivor>>
        /\ phase[l] = "connecting" /\ phase' = [phase EXCEPT ![l] = "starting"]
        /\ queue' = [queue EXCEPT ![l] = <<>>] /\ task' = [task EXCEPT !["global"] = l]
        /\ raced' = (raced \/ \E m \in GlobalListeners \ {l} : m \in Running)
    BY <1>8 DEF CreateGlobalTask
  <2>2. l \in GlobalListeners
    BY <1>b, <2>1, ChannelNames DEF ListenersApart
  <2>3. Running' = Running /\ l \in Running /\ phase'[l] = "starting"
    BY <1>a, <2>1 DEF Running
  <2>4. task'["project"] = task["project"] /\ task'["global"] = l
    BY <1>a, <2>1, ChannelNames
  <2>5. OneOfProject'
    BY <1>b, <2>1, <2>3, <2>4 DEF OneOfProject
  <2>6. ASSUME ~raced' PROVE /\ ~raced /\ GlobalListeners \cap Running = {l}
                             /\ globalPubsub = l \/ (globalPubsub # None /\ ~Open(globalPubsub)')
    <3>1. ~raced /\ GlobalListeners \cap Running = {l}
      BY <2>1, <2>2, <2>3, <2>6
    <3>2. globalPubsub # None /\ ~Open(globalPubsub)
      BY <1>b, <2>1, <2>2, <2>3, <3>1 DEF OneOfGlobal
    <3>3. globalPubsub # l => queue'[globalPubsub] = queue[globalPubsub]
      BY <1>a, <2>1, <3>2, ChannelNames
    <3> QED  BY <2>1, <3>1, <3>2, <3>3 DEF Open
  <2>7. OneOfGlobal'
    BY <2>1, <2>3, <2>4, <2>6 DEF OneOfGlobal
  <2> QED  BY <2>5, <2>7 DEF OneReader
<1>9. ASSUME NEW l \in Listeners, StartListening(l) PROVE OneReader'
  <2>1. /\ UNCHANGED <<cancelled, task, globalPubsub, survivor, raced>>
        /\ phase[l] = "starting" /\ phase' = [phase EXCEPT ![l] = "listening"]
        /\ \/ l \in ProjectListeners /\ queue' = [queue EXCEPT ![l] = <<>>] /\ UNCHANGED connOf
           \/ l \in GlobalListeners /\ connOf' = [connOf EXCEPT ![l] = globalPubsub] /\ UNCHANGED queue
    BY <1>9 DEF StartListening
  <2>2. Running' = Running /\ l \in Running
    BY <1>a, <2>1 DEF Running
  <2>3. OneOfProject'
    BY <1>b, <2>1, <2>2 DEF OneOfProject
  <2>4. CASE l \in ProjectListeners
    <3>1. UNCHANGED connOf /\ \A m \in GlobalListeners : phase'[m] = phase[m] /\ queue'[m] = queue[m]
      BY <1>a, <2>1, <2>4, ChannelNames
    <3>2. globalPubsub # None => queue'[globalPubsub] = queue[globalPubsub]
      BY <1>a, <3>1
    <3>3. \A m \in GlobalListeners : queue'[connOf[m]] = queue[connOf[m]]
      BY <1>b, <3>1 DEF ListenersApart
    <3>4. ASSUME ~raced, NEW m \in GlobalListeners \cap Running
          PROVE  IF phase'[m] = "connecting" THEN globalPubsub' # None /\ ~Open(globalPubsub)'
                 ELSE /\ task'["global"] = m /\ GlobalListeners \cap Running' = {m}
                      /\ globalPubsub' = m \/ (globalPubsub' # None /\ ~Open(globalPubsub)')
                      /\ phase'[m] # "starting" => connOf'[m] = m \/ ~Open(connOf[m])'
                      /\ phase'[m] = "in handler" => connOf'[m] = m /\ Open(m)'
      <4>1. IF phase[m] = "connecting" THEN globalPubsub # None /\ ~Open(globalPubsub)
            ELSE /\ task["global"] = m /\ GlobalListeners \cap Running = {m}
                 /\ globalPubsub = m \/ (globalPubsub # None /\ ~Open(globalPubsub))
                 /\ phase[m] # "starting" => connOf[m] = m \/ ~Open(connOf[m])
                 /\ phase[m] = "in handler" => connOf[m] = m /\ Open(m)
        BY <1>b, <3>4 DEF OneOfGlobal
      <4>2. phase'[m] = phase[m] /\ connOf' = connOf /\ queue'[connOf[m]] = queue[connOf[m]] /\ queue'[m] = queue[m]
        BY <3>1, <3>3, <3>4
      <4> QED  BY <2>1, <2>2, <3>2, <4>1, <4>2 DEF Open
    <3>5. OneOfGlobal'
      BY <2>1, <2>2, <3>4 DEF OneOfGlobal
    <3> QED  BY <2>3, <3>5 DEF OneReader
  <2>5. CASE l \in GlobalListeners
    <3>1. connOf'[l] = globalPubsub /\ UNCHANGED queue /\ phase'[l] = "listening"
      BY <1>a, <2>1, <2>5, ChannelNames
    <3>2. ~raced => /\ task["global"] = l /\ GlobalListeners \cap Running = {l}
                    /\ globalPubsub = l \/ (globalPubsub # None /\ ~Open(globalPubsub))
      BY <1>b, <2>1, <2>2, <2>5 DEF OneOfGlobal
    <3>3. OneOfGlobal'
      BY <2>1, <2>2, <3>1, <3>2 DEF OneOfGlobal, Open
    <3> QED  BY <2>3, <3>3 DEF OneReader
  <2> QED  BY <2>4, <2>5, ChannelNames
<1>10. ASSUME NEW l \in Listeners, phase[l] \in {"listening", "in handler"},
              phase'[l] \in {"listening", "in handler"},
              \A m \in Listeners \ {l} : phase'[m] = phase[m],
              \A m \in Listeners : Open(m)' = Open(m),
              l \in GlobalListeners /\ phase'[l] = "in handler" /\ ~raced => connOf[l] = l /\ Open(l),
              UNCHANGED <<connOf, cancelled, task, globalPubsub, survivor, raced>>
       PROVE  OneReader'
  <2>1. Running' = Running
    BY <1>10 DEF Running
  <2>2. OneOfProject'
    BY <1>b, <1>10, <2>1 DEF OneOfProject
  <2>3. ~raced' => ~raced
    BY <1>10
  <2>4. ASSUME ~raced, NEW m \in GlobalListeners \cap Running
        PROVE  IF phase'[m] = "connecting" THEN globalPubsub' # None /\ ~Open(globalPubsub)'
               ELSE /\ task'["global"] = m /\ GlobalListeners \cap Running' = {m}
                    /\ globalPubsub' = m \/ (globalPubsub' # None /\ ~Open(globalPubsub)')
                    /\ phase'[m] # "starting" => connOf'[m] = m \/ ~Open(connOf[m])'
                    /\ phase'[m] = "in handler" => connOf'[m] = m /\ Open(m)'
    <3>1. m \in Listeners /\ connOf[m] \in Listeners
          /\ (globalPubsub # None => globalPubsub \in Listeners)
      BY <1>a, ChannelNames
    <3>2. CASE m = l
      BY <1>b, <1>10, <2>1, <2>4, <3>1, <3>2 DEF OneOfGlobal
    <3>3. CASE m # l
      BY <1>b, <1>10, <2>1, <2>4, <3>1, <3>3 DEF OneOfGlobal
    <3> QED  BY <3>2, <3>3
  <2>5. OneOfGlobal'
    BY <2>1, <2>3, <2>4 DEF OneOfGlobal
  <2> QED  BY <2>2, <2>5 DEF OneReader
<1>11. ASSUME NEW l \in Listeners, Receive(l) PROVE OneReader'
  <2>1. /\ phase[l] = "listening" /\ CallNext(l, Head(queue[connOf[l]]), handlers[ChannelOf(l)])
        /\ Open(connOf[l])
        /\ UNCHANGED <<connOf, cancelled, task, globalPubsub, survivor, raced>>
    BY <1>11 DEF Receive
  <2>2. /\ phase'[l] \in {"listening", "in handler"}
        /\ \A m \in Listeners \ {l} : phase'[m] = phase[m]
        /\ \A m \in Listeners : Open(m)' = Open(m)
    BY <1>11, <2>1, CallNextTypes, ReceiveBus
  <2>3. l \in GlobalListeners /\ ~raced => connOf[l] = l
    BY <1>b, <2>1 DEF OneOfGlobal, Running
  <2> QED  BY <1>10, <2>1, <2>2, <2>3
<1>12. ASSUME NEW l \in Listeners, HandlerReturns(l) PROVE OneReader'
  <2>1. /\ phase[l] = "in handler" /\ CallNext(l, event[l], todo[l])
        /\ UNCHANGED <<connOf, queue, cancelled, task, globalPubsub, survivor, raced>>
    BY <1>12 DEF HandlerReturns
  <2>2. event[l] \in Events /\ todo[l] \in Seq(Handlers)
    BY <2>1 DEF BusInvariant, BusTypes
  <2>3. /\ phase'[l] \in {"listening", "in handler"}
        /\ \A m \in Listeners \ {l} : phase'[m] = phase[m]
    BY <2>1, <2>2, CallNextTypes
  <2>4. l \in GlobalListeners /\ ~raced => connOf[l] = l /\ Open(l)
    BY <1>b, <2>1 DEF OneOfGlobal, Running
  <2>5. \A m \in Listeners : Open(m)' = Open(m)
    BY <2>1 DEF Open
  <2> QED  BY <1>10, <2>1, <2>3, <2>4, <2>5
<1>13. ASSUME NEW l \in Listeners, UnsubscribeInHandler(l) PROVE OneReader'
  <2>1. /\ UNCHANGED <<listenerVars, globalPubsub, raced>> /\ survivor' = TRUE
        /\ task' = [task EXCEPT !["project"] = None]
    BY <1>13 DEF UnsubscribeInHandler
  <2>2. Running' = Running /\ task'["global"] = task["global"]
    BY <1>a, <2>1, ChannelNames DEF Running, listenerVars
  <2>3. OneOfGlobal'
    BY <1>b, <2>1, <2>2 DEF OneOfGlobal, Open, listenerVars
  <2> QED  BY <2>1, <2>3 DEF OneReader, OneOfProject
<1>14. ASSUME NEW l \in Listeners, Stops(l) \/ ConnectionFails(l) PROVE OneReader'
  <2>1. l \in Running /\ EndListener(l)
    BY <1>14, <1>a DEF Stops, ConnectionFails, Running
  <2>2. UNCHANGED <<connOf, task, globalPubsub, survivor, raced>>
    BY <2>1 DEF EndListener
  <2>3. /\ phase' = [phase EXCEPT ![l] = "done"] /\ cancelled' = cancelled \ {l}
        /\ \A m \in Listeners :
              \/ queue'[m] = queue[m]
              \/ ~Open(m)' /\ IF l \in GlobalListeners THEN m \in GlobalListeners ELSE m = l
    BY <2>1, EndBus
  <2>4. Running' = Running \ {l} /\ \A m \in Listeners \ {l} : phase'[m] = phase[m]
    BY <1>a, <2>3 DEF Running
  <2>5. OneOfProject'
    BY <1>b, <2>2, <2>3, <2>4 DEF OneOfProject
  <2>6. \A m \in Listeners : Open(m)' => Open(m)
    BY <2>3 DEF Open
  <2>7. ASSUME ~raced, NEW m \in GlobalListeners \cap Running'
        PROVE  IF phase'[m] = "connecting" THEN globalPubsub' # None /\ ~Open(globalPubsub)'
               ELSE /\ task'["global"] = m /\ GlobalListeners \cap Running' = {m}
                    /\ globalPubsub' = m \/ (globalPubsub' # None /\ ~Open(globalPubsub)')
                    /\ phase'[m] # "starting" => connOf'[m] = m \/ ~Open(connOf[m])'
                    /\ phase'[m] = "in handler" => connOf'[m] = m /\ Open(m)'
    <3>1. /\ m \in Listeners /\ m \in Running /\ m # l /\ phase'[m] = phase[m]
          /\ connOf[m] \in Listeners /\ (globalPubsub # None => globalPubsub \in Listeners)
      BY <1>a, <2>4, ChannelNames
    <3>2. CASE phase[m] = "connecting"
      BY <1>b, <2>2, <2>6, <2>7, <3>1, <3>2 DEF OneOfGlobal, Open
    <3>3. CASE phase[m] # "connecting"
      <4>0. GlobalListeners \cap Running = {m}
        <5>1. m \in GlobalListeners \cap Running
          BY <2>7, <3>1
        <5> QED  BY ONLY <1>b, <2>7, <3>3, <5>1 DEF OneOfGlobal
      <4>1. l \notin GlobalListeners /\ GlobalListeners \cap Running' = {m}
        BY ONLY <2>1, <2>4, <3>1, <4>0
      <4>2. \A k \in GlobalListeners : Open(k)' = Open(k)
        BY <2>3, <4>1, ChannelNames DEF Open
      <4>3. connOf[m] \in GlobalListeners /\ (globalPubsub # None => globalPubsub \in GlobalListeners)
        BY <1>a, <1>b DEF ListenersApart
      <4> QED  BY <1>b, <2>2, <2>7, <3>1, <3>3, <4>1, <4>2, <4>3 DEF OneOfGlobal, Open
    <3> QED  BY <3>2, <3>3
  <2>8. OneOfGlobal'
    BY <2>2, <2>7 DEF OneOfGlobal
  <2> QED  BY <2>5, <2>8 DEF OneReader
<1>15. CASE Publish
  BY <1>2, <1>3, <1>15, ChannelNames
     DEF Publish, PublishProject, PublishGlobal, AddToHistory, Trim, PublishRaises
<1>16. CASE ClearHistory
  BY <1>3, <1>16 DEF ClearHistory
<1>17. CASE UNCHANGED busVars
  BY <1>3, <1>17 DEF busVars
<1> QED
  BY <1>4, <1>5, <1>6, <1>7, <1>8, <1>9, <1>11, <1>12, <1>13, <1>14, <1>15, <1>16, <1>17
     DEF BusNext, ListenerStep

-----------------------------------------------------------------------------
(* Until a listener fails: every channel with a handler has a listener that *)
(* nothing cancels, with a connection that nobody else reads or closes.     *)

ProjectServed ==
    /\ handlers["project"] # <<>> => task["project"] \in Running
    /\ task["project"] \notin cancelled

GlobalServed ==
    /\ handlers["global"] # <<>> =>
          task["global"] \in Running \/ \E l \in GlobalListeners : phase[l] = "connecting"
    /\ cancelled \cap GlobalListeners = {}
    /\ \A l \in GlobalListeners \cap Running :
          IF phase[l] = "connecting" THEN phase[globalPubsub] = "connecting"
          ELSE globalPubsub = l /\ Open(l) /\ (phase[l] # "starting" => connOf[l] = l)

Served == faults \in Nat /\ (~Disturbed => ProjectServed /\ GlobalServed)

LEMMA ServedStarts == BusInit => Served
BY ChannelNames DEF BusInit, Served, ProjectServed, GlobalServed, Running

\* As long as nothing is disturbed, a listener ends only because unsubscribe forgot it.
LEMMA OnlyForgottenStop ==
    ASSUME BusInvariant, OneReader, Served, ~Disturbed, NEW l \in Listeners, Stops(l)
    PROVE  l \in ProjectListeners /\ l \in cancelled /\ l # task["project"]
<1>1. ProjectServed /\ GlobalServed /\ ~raced /\ OneOfGlobal /\ Connected /\ ListenersApart
  BY DEF Served, Disturbed, OneReader, BusInvariant
<1>2. CASE l \in cancelled
  BY <1>1, <1>2, ChannelNames DEF ProjectServed, GlobalServed
<1>3. ASSUME phase[l] = "listening", ~Open(connOf[l]) PROVE FALSE
  <2>1. l \in Running
    BY <1>3 DEF Running
  <2>2. CASE l \in ProjectListeners
    BY <1>1, <1>3, <2>2 DEF ListenersApart, Connected
  <2>3. CASE l \in GlobalListeners
    BY <1>1, <1>3, <2>1, <2>3 DEF GlobalServed
  <2> QED  BY <2>2, <2>3, ChannelNames
<1>4. ASSUME phase[l] = "listening", NEW m \in Listeners \ {l}, phase[m] = "listening",
             connOf[m] = connOf[l]
      PROVE  FALSE
  <2>1. l \in Running /\ m \in Running
    BY <1>4 DEF Running
  <2>2. \A k \in ProjectListeners : connOf[k] = k
    BY <1>1 DEF ListenersApart
  <2>3. \A k \in GlobalListeners : connOf[k] \in GlobalListeners
    BY <1>1 DEF ListenersApart
  <2>4. l \in GlobalListeners /\ m \in GlobalListeners
    BY <1>4, <2>2, <2>3, ChannelNames
  <2> QED  BY <1>1, <1>4, <2>1, <2>4 DEF OneOfGlobal
<1> QED  BY <1>2, <1>3, <1>4 DEF Stops

\* A channel loses its listener only with its handlers, until it is disturbed.
LEMMA ServedNextKeeps ==
    BusInvariant /\ OneReader /\ Served /\ [BusNext]_busVars => Served'
<1> SUFFICES ASSUME BusInvariant, OneReader, Served, [BusNext]_busVars PROVE Served'
  OBVIOUS
<1>a. /\ handlers \in [Channels -> Seq(Handlers)] /\ task \in [Channels -> Listeners \cup {None}]
      /\ phase \in [Listeners -> Phases] /\ connOf \in [Listeners -> Listeners]
      /\ globalPubsub \in GlobalListeners \cup {None} /\ cancelled \subseteq Running
      /\ queue \in [Listeners -> Seq(Events) \cup {None}]
  BY DEF BusInvariant, BusTypes
<1>b. OneOfGlobal /\ Connected /\ ListenersApart /\ faults \in Nat
  BY DEF OneReader, BusInvariant, Served
<1>c. ~Disturbed => ProjectServed /\ GlobalServed
  BY DEF Served
<1>1. ASSUME UNCHANGED <<phase, connOf, cancelled, task, globalPubsub, handlers, raced, exited>>,
             faults' = faults \/ faults' = faults + 1,
             \A m \in Listeners : Open(m)' = Open(m)
      PROVE  Served'
  <2>1. faults' \in Nat /\ (~Disturbed' => ~Disturbed)
    BY <1>1, <1>b DEF Disturbed
  <2>2. Running' = Running
    BY <1>1 DEF Running
  <2>3. ProjectServed => ProjectServed'
    BY <1>1, <2>2 DEF ProjectServed
  <2>4. GlobalServed => GlobalServed'
    BY <1>1, <2>2, ChannelNames DEF GlobalServed
  <2> QED  BY <1>c, <2>1, <2>3, <2>4 DEF Served
<1>2. ASSUME NEW e \in Events, NEW c \in Channels, NEW from, NEW to, Broadcast(e, c, from, to)
      PROVE  Served'
  BY <1>1, <1>2, BroadcastBus DEF Broadcast
<1>3. ASSUME UNCHANGED <<listenerVars, task, globalPubsub, handlers, raced, exited>>,
             faults' = faults \/ faults' = faults + 1
      PROVE  Served'
  BY <1>1, <1>3 DEF listenerVars, Open
<1>4. ASSUME NEW h \in Handlers, Subscribe(h) PROVE Served'
  <2>1. /\ UNCHANGED <<connOf, queue, cancelled, globalPubsub, raced, exited, faults>>
        /\ handlers' = [handlers EXCEPT !["project"] = Append(handlers["project"], h)]
    BY <1>4, ChannelNames DEF Subscribe, Register
  <2>2. handlers'["global"] = handlers["global"]
    BY <1>a, <2>1, ChannelNames
  <2>3. Disturbed' = Disturbed
    BY <2>1 DEF Disturbed
  <2>4. CASE UNCHANGED <<phase, task>> /\ ~NeedsListener("project")
    <3>1. Running' = Running
      BY <2>4 DEF Running
    <3>2. ProjectServed => ProjectServed'
      BY <2>1, <2>4, <3>1 DEF ProjectServed, NeedsListener
    <3>3. GlobalServed => GlobalServed'
      BY <2>1, <2>2, <2>4, <3>1 DEF GlobalServed, Open
    <3> QED  BY <1>b, <1>c, <2>1, <2>3, <3>2, <3>3 DEF Served
  <2>5. ASSUME NEW l \in Fresh(ProjectListeners), phase' = [phase EXCEPT ![l] = "starting"],
               task' = [task EXCEPT !["project"] = l]
        PROVE  Served'
    <3>1. l \in ProjectListeners /\ phase[l] = "unused"
      BY DEF Fresh
    <3>2. Running' = Running \cup {l} /\ l \notin Running
      BY <1>a, <2>5, <3>1, ChannelNames DEF Running
    <3>3. task'["project"] = l /\ task'["global"] = task["global"]
      BY <1>a, <2>5, ChannelNames
    <3>4. ProjectServed'
      BY <1>a, <2>1, <3>2, <3>3 DEF ProjectServed
    <3>5. GlobalListeners \cap Running' = GlobalListeners \cap Running
          /\ \A m \in GlobalListeners : phase'[m] = phase[m]
      BY <1>a, <2>5, <3>1, <3>2, ChannelNames
    <3>6. \A m \in GlobalListeners \cap Running : globalPubsub \in GlobalListeners
      BY <1>a, <1>b DEF ListenersApart, Running
    <3>7. GlobalServed => GlobalServed'
      BY <2>1, <2>2, <3>2, <3>3, <3>5, <3>6 DEF GlobalServed, Open
    <3> QED  BY <1>b, <1>c, <2>1, <2>3, <3>4, <3>7 DEF Served
  <2> QED  BY <1>4, <2>4, <2>5 DEF Subscribe
<1>5. ASSUME NEW h \in Handlers, SubscribeAll(h) PROVE Served'
  <2>1. /\ UNCHANGED <<connOf, queue, cancelled, task, raced, exited, faults>>
        /\ handlers' = [handlers EXCEPT !["global"] = Append(handlers["global"], h)]
    BY <1>5, ChannelNames DEF SubscribeAll, Register
  <2>2. handlers'["project"] = handlers["project"]
    BY <1>a, <2>1, ChannelNames
  <2>3. Disturbed' = Disturbed
    BY <2>1 DEF Disturbed
  <2>4. CASE UNCHANGED <<phase, globalPubsub>> /\ ~NeedsListener("global")
    <3>1. Running' = Running
      BY <2>4 DEF Running
    <3>2. ProjectServed => ProjectServed'
      BY <2>1, <2>2, <3>1 DEF ProjectServed
    <3>3. GlobalServed => GlobalServed'
      BY <2>1, <2>4, <3>1 DEF GlobalServed, Open, NeedsListener
    <3> QED  BY <1>b, <1>c, <2>1, <2>3, <3>2, <3>3 DEF Served
  <2>5. ASSUME NEW l \in Fresh(GlobalListeners), phase' = [phase EXCEPT ![l] = "connecting"],
               globalPubsub' = l, NeedsListener("global")
        PROVE  Served'
    <3>1. l \in GlobalListeners /\ phase[l] = "unused"
      BY DEF Fresh
    <3>2. /\ Running' = Running \cup {l} /\ l \notin Running /\ phase'[l] = "connecting"
          /\ \A m \in Listeners : m # l => phase'[m] = phase[m]
      BY <1>a, <2>5, <3>1, ChannelNames DEF Running
    <3>3. ProjectServed => ProjectServed'
      BY <2>1, <2>2, <3>2 DEF ProjectServed
    <3>4. ASSUME ~raced, NEW m \in GlobalListeners \cap Running' PROVE phase'[m] = "connecting"
      <4>1. task["global"] \notin Running
        BY <2>5 DEF NeedsListener
      <4>2. CASE m # l
        BY <1>b, <3>2, <3>4, <4>1, <4>2, ChannelNames DEF OneOfGlobal
      <4> QED  BY <3>2, <4>2
    <3>5. ~raced /\ GlobalServed => GlobalServed'
      BY <2>1, <2>5, <3>1, <3>2, <3>4 DEF GlobalServed
    <3>6. ~Disturbed => ~raced
      BY DEF Disturbed
    <3> QED  BY <1>b, <1>c, <2>1, <2>3, <3>3, <3>5, <3>6 DEF Served
  <2> QED  BY <1>5, <2>4, <2>5 DEF SubscribeAll
<1>6. ASSUME UNCHANGED <<phase, connOf, queue, globalPubsub, raced, exited, faults>>,
             handlers' = [handlers EXCEPT !["project"] = <<>>],
             task' = [task EXCEPT !["project"] = None],
             cancelled' \subseteq cancelled \cup ({task["project"]} \cap Running)
      PROVE  Served'
  <2>1. Running' = Running /\ Disturbed' = Disturbed
    BY <1>6 DEF Running, Disturbed
  <2>2. /\ handlers'["project"] = <<>> /\ handlers'["global"] = handlers["global"]
        /\ task'["project"] = None /\ task'["global"] = task["global"]
    BY <1>a, <1>6, ChannelNames
  <2>3. ProjectServed'
    BY <1>a, <1>6, <2>2, ChannelNames DEF ProjectServed, Running
  <2>4. task["project"] \notin GlobalListeners
    BY <1>b, ChannelNames, BusAssumption DEF ListenersApart
  <2>5. GlobalServed => GlobalServed'
    BY <1>6, <2>1, <2>2, <2>4 DEF GlobalServed, Open
  <2> QED  BY <1>b, <1>c, <1>6, <2>1, <2>3, <2>5 DEF Served
<1>7. CASE Unsubscribe
  BY <1>6, <1>7 DEF Unsubscribe
<1>8. ASSUME NEW l \in Listeners, UnsubscribeInHandler(l) PROVE Served'
  BY <1>6, <1>8 DEF UnsubscribeInHandler, listenerVars
<1>9. CASE Exit
  BY <1>b, <1>9 DEF Exit, Served, Disturbed
<1>10. ASSUME NEW l \in Listeners, CreateGlobalTask(l) PROVE Served'
  <2>1. /\ UNCHANGED <<connOf, cancelled, handlers, globalPubsub, exited, faults>>
        /\ phase[l] = "connecting" /\ phase' = [phase EXCEPT ![l] = "starting"]
        /\ queue' = [queue EXCEPT ![l] = <<>>] /\ task' = [task EXCEPT !["global"] = l]
        /\ raced' = (raced \/ \E m \in GlobalListeners \ {l} : m \in Running)
    BY <1>10 DEF CreateGlobalTask
  <2>2. l \in GlobalListeners
    BY <1>b, <2>1, ChannelNames DEF ListenersApart
  <2>3. Running' = Running /\ l \in Running /\ phase'[l] = "starting"
    BY <1>a, <2>1 DEF Running
  <2>4. task'["project"] = task["project"] /\ task'["global"] = l
    BY <1>a, <2>1, ChannelNames
  <2>5. ASSUME ~Disturbed' PROVE ~Disturbed /\ GlobalListeners \cap Running = {l}
    BY <2>1, <2>2, <2>3, <2>5 DEF Disturbed
  <2>6. ProjectServed => ProjectServed'
    BY <2>1, <2>3, <2>4 DEF ProjectServed
  <2>7. ASSUME GlobalServed, GlobalListeners \cap Running = {l} PROVE GlobalServed'
    <3>1. phase[globalPubsub] = "connecting" /\ globalPubsub \in GlobalListeners
      BY <1>a, <1>b, <2>1, <2>2, <2>3, <2>7 DEF GlobalServed, ListenersApart
    <3>2. globalPubsub = l
      BY <2>7, <3>1, ChannelNames DEF Running
    <3>3. <<>> # None /\ queue'[l] = <<>>
      <4>1. <<>> \in Seq(Events)
        OBVIOUS
      <4> QED  BY <1>a, <2>1, <4>1, BusAssumption
    <3> QED  BY <2>1, <2>3, <2>4, <2>7, <3>2, <3>3 DEF GlobalServed, Open
  <2> QED  BY <1>b, <1>c, <2>1, <2>5, <2>6, <2>7 DEF Served
<1>11. ASSUME NEW l \in Listeners, StartListening(l) PROVE Served'
  <2>1. /\ UNCHANGED <<cancelled, task, handlers, globalPubsub, raced, exited, faults>>
        /\ phase[l] = "starting" /\ phase' = [phase EXCEPT ![l] = "listening"]
        /\ \/ l \in ProjectListeners /\ queue' = [queue EXCEPT ![l] = <<>>] /\ UNCHANGED connOf
           \/ l \in GlobalListeners /\ connOf' = [connOf EXCEPT ![l] = globalPubsub] /\ UNCHANGED queue
    BY <1>11 DEF StartListening
  <2>2. Running' = Running /\ l \in Running /\ phase'[l] = "listening"
        /\ \A m \in Listeners : m # l => phase'[m] = phase[m]
    BY <1>a, <2>1 DEF Running
  <2>3. Disturbed' = Disturbed
    BY <2>1 DEF Disturbed
  <2>4. ProjectServed => ProjectServed'
    BY <2>1, <2>2 DEF ProjectServed
  <2>5. \A m \in GlobalListeners \cap Running : globalPubsub \in GlobalListeners
    BY <1>a, <1>b DEF ListenersApart, Running
  <2>6. \A m \in GlobalListeners : queue'[m] = queue[m]
    BY <1>a, <2>1, ChannelNames
  <2>7. \A m \in GlobalListeners : connOf'[m] = IF m = l THEN globalPubsub ELSE connOf[m]
    BY <1>a, <2>1, ChannelNames
  <2>8. ASSUME GlobalServed PROVE GlobalServed'
    <3>1. ASSUME NEW m \in GlobalListeners \cap Running
          PROVE  IF phase'[m] = "connecting" THEN phase'[globalPubsub] = "connecting"
                 ELSE globalPubsub = m /\ Open(m)' /\ (phase'[m] # "starting" => connOf'[m] = m)
      <4>1. IF phase[m] = "connecting" THEN phase[globalPubsub] = "connecting"
            ELSE globalPubsub = m /\ Open(m) /\ (phase[m] # "starting" => connOf[m] = m)
        BY <2>8 DEF GlobalServed
      <4>2. m \in Listeners /\ globalPubsub \in Listeners
        BY <2>5, ChannelNames
      <4>3. phase[m] = "connecting" => phase'[globalPubsub] = "connecting"
        BY <2>1, <2>2, <4>1, <4>2
      <4>4. phase[m] # "connecting" => /\ globalPubsub = m /\ queue'[m] # None
                                       /\ connOf'[m] = m \/ phase'[m] = "starting"
        BY <2>1, <2>2, <2>6, <2>7, <4>1, <4>2 DEF Open
      <4>5. phase'[m] = "connecting" <=> phase[m] = "connecting"
        BY <2>1, <2>2, <4>2
      <4> QED  BY <2>6, <4>1, <4>3, <4>4, <4>5 DEF Open
    <3>2. (\E m \in GlobalListeners : phase[m] = "connecting")
             => \E m \in GlobalListeners : phase'[m] = "connecting"
      BY <2>1, <2>2, ChannelNames
    <3> QED  BY <2>1, <2>2, <2>8, <3>1, <3>2 DEF GlobalServed
  <2> QED  BY <1>b, <1>c, <2>1, <2>3, <2>4, <2>8 DEF Served
<1>12. ASSUME NEW l \in Listeners, phase[l] \in {"listening", "in handler"},
              phase'[l] \in {"listening", "in handler"},
              \A m \in Listeners \ {l} : phase'[m] = phase[m],
              \A m \in Listeners : Open(m)' = Open(m),
              UNCHANGED <<connOf, cancelled, task, handlers, globalPubsub, raced, exited, faults>>
       PROVE  Served'
  <2>1. Running' = Running /\ Disturbed' = Disturbed
    BY <1>12 DEF Running, Disturbed
  <2>2. ProjectServed => ProjectServed'
    BY <1>12, <2>1 DEF ProjectServed
  <2>3. \A m \in Listeners : phase[m] = "connecting" => phase'[m] = "connecting"
    BY <1>12
  <2>4. ASSUME GlobalServed PROVE GlobalServed'
    <3>1. ASSUME NEW m \in GlobalListeners \cap Running
          PROVE  IF phase'[m] = "connecting" THEN phase'[globalPubsub] = "connecting"
                 ELSE globalPubsub = m /\ Open(m)' /\ (phase'[m] # "starting" => connOf'[m] = m)
      <4>1. IF phase[m] = "connecting" THEN phase[globalPubsub] = "connecting"
            ELSE globalPubsub = m /\ Open(m) /\ (phase[m] # "starting" => connOf[m] = m)
        BY <2>4 DEF GlobalServed
      <4>2. m \in Listeners /\ globalPubsub \in Listeners
        BY <1>a, <1>b, ChannelNames DEF ListenersApart, Running
      <4>3. CASE m = l
        BY <1>12, <4>1, <4>2, <4>3
      <4>4. CASE m # l
        BY <1>12, <2>3, <4>1, <4>2, <4>4
      <4> QED  BY <4>3, <4>4
    <3>2. (\E m \in GlobalListeners : phase[m] = "connecting")
             => \E m \in GlobalListeners : phase'[m] = "connecting"
      BY <2>3, ChannelNames
    <3> QED  BY <1>12, <2>1, <2>4, <3>1, <3>2 DEF GlobalServed
  <2> QED  BY <1>b, <1>c, <1>12, <2>1, <2>2, <2>4 DEF Served
<1>13. ASSUME NEW l \in Listeners, Receive(l) PROVE Served'
  <2>1. /\ phase[l] = "listening" /\ CallNext(l, Head(queue[connOf[l]]), handlers[ChannelOf(l)])
        /\ UNCHANGED <<connOf, cancelled, task, handlers, globalPubsub, raced, exited, faults>>
    BY <1>13 DEF Receive
  <2>2. /\ phase'[l] \in {"listening", "in handler"}
        /\ \A m \in Listeners \ {l} : phase'[m] = phase[m]
        /\ \A m \in Listeners : Open(m)' = Open(m)
    BY <1>13, <2>1, CallNextTypes, ReceiveBus
  <2> QED  BY <1>12, <2>1, <2>2
<1>14. ASSUME NEW l \in Listeners, HandlerReturns(l) PROVE Served'
  <2>1. /\ phase[l] = "in handler" /\ CallNext(l, event[l], todo[l])
        /\ UNCHANGED <<connOf, queue, cancelled, task, handlers, globalPubsub, raced, exited, faults>>
    BY <1>14 DEF HandlerReturns
  <2>2. event[l] \in Events /\ todo[l] \in Seq(Handlers)
    BY <2>1 DEF BusInvariant, BusTypes
  <2>3. /\ phase'[l] \in {"listening", "in handler"}
        /\ \A m \in Listeners \ {l} : phase'[m] = phase[m]
    BY <2>1, <2>2, CallNextTypes
  <2>4. \A m \in Listeners : Open(m)' = Open(m)
    BY <2>1 DEF Open
  <2> QED  BY <1>12, <2>1, <2>3, <2>4
<1>15. ASSUME NEW l \in Listeners, ConnectionFails(l) PROVE Served'
  <2>1. faults' = faults + 1
    BY <1>15 DEF ConnectionFails
  <2>2. faults' \in Nat /\ faults' > 0
    BY <1>b, <2>1
  <2> QED  BY <2>2 DEF Served, Disturbed
<1>16. ASSUME NEW l \in Listeners, Stops(l) PROVE Served'
  <2>1. l \in Running /\ EndListener(l) /\ faults' = faults
    BY <1>16, <1>a DEF Stops, Running
  <2>2. UNCHANGED <<connOf, task, handlers, globalPubsub, raced, exited>>
    BY <2>1 DEF EndListener
  <2>3. Disturbed' = Disturbed
    BY <2>1, <2>2 DEF Disturbed
  <2>4. ASSUME ~Disturbed PROVE ProjectServed' /\ GlobalServed'
    <3>1. l \in ProjectListeners /\ l # task["project"]
      BY <1>16, <2>4, OnlyForgottenStop
    <3>2. /\ phase' = [phase EXCEPT ![l] = "done"] /\ cancelled' = cancelled \ {l}
          /\ \A m \in Listeners : queue'[m] = queue[m] \/ m = l
      BY <2>1, <3>1, EndBus, ChannelNames
    <3>3. Running' = Running \ {l}
      BY <1>a, <3>2 DEF Running
    <3>4. ProjectServed'
      BY <1>c, <2>2, <2>4, <3>1, <3>2, <3>3 DEF ProjectServed
    <3>5. GlobalListeners \cap Running' = GlobalListeners \cap Running
          /\ \A m \in GlobalListeners : phase'[m] = phase[m] /\ queue'[m] = queue[m]
      BY <1>a, <3>1, <3>2, <3>3, ChannelNames
    <3>6. \A m \in GlobalListeners \cap Running : globalPubsub \in GlobalListeners
      BY <1>a, <1>b DEF ListenersApart, Running
    <3>7. task["global"] \in Running => task["global"] \in Running'
      BY <1>b, <3>1, <3>3, ChannelNames DEF ListenersApart
    <3>8. GlobalServed'
      BY <1>c, <2>2, <2>4, <3>2, <3>5, <3>6, <3>7 DEF GlobalServed, Open
    <3> QED  BY <3>4, <3>8
  <2> QED  BY <1>b, <2>1, <2>3, <2>4 DEF Served
<1>17. CASE Publish
  BY <1>2, <1>3, <1>17, ChannelNames
     DEF Publish, PublishProject, PublishGlobal, AddToHistory, Trim, PublishRaises
<1>18. CASE ClearHistory
  BY <1>3, <1>18 DEF ClearHistory
<1>19. CASE UNCHANGED busVars
  BY <1>3, <1>19 DEF busVars
<1> QED
  BY <1>4, <1>5, <1>7, <1>8, <1>9, <1>10, <1>11, <1>13, <1>14, <1>15, <1>16, <1>17, <1>18, <1>19
     DEF BusNext, ListenerStep

\* Until Redis fails, the bus is left or two subscribe_all race, a registered handler has
\* a listener, in whatever order subscriptions and their ends interleave (subscribe,
\* unsubscribe).
THEOREM AlwaysAttended == BusSpec => []Attended
<1>1. BusInvariant /\ Served => Attended
  <2> SUFFICES ASSUME BusInvariant, Served, ~Disturbed, NEW h \in Handlers, Registered(h)
               PROVE  \E l \in Running \ cancelled :
                         /\ ChannelOf(l) = ChannelOf(h)
                         /\ phase[l] = "connecting" \/ task[ChannelOf(h)] = l
    BY DEF Attended
  <2>1. ProjectServed /\ GlobalServed /\ ListenersApart
    BY DEF Served, BusInvariant
  <2>2. ChannelOf(h) \in {"project", "global"} /\ handlers[ChannelOf(h)] # <<>>
    BY ChannelNames DEF Registered
  <2>3. CASE ChannelOf(h) = "project"
    <3>1. task["project"] \in Running \ cancelled
      BY <2>1, <2>2, <2>3 DEF ProjectServed
    <3>2. ChannelOf(task["project"]) = "project"
      BY <2>1, <3>1, ChannelNames DEF ListenersApart, Running
    <3> QED  BY <2>3, <3>1, <3>2
  <2>4. CASE ChannelOf(h) = "global"
    <3>1. CASE task["global"] \in Running
      <4>1. ChannelOf(task["global"]) = "global" /\ task["global"] \in Listeners
        BY <2>1, <3>1, ChannelNames DEF ListenersApart, Running
      <4>2. task["global"] \notin cancelled
        BY <2>1, <4>1, ChannelNames DEF GlobalServed
      <4> QED  BY <2>4, <3>1, <4>1, <4>2
    <3>2. ASSUME NEW l \in GlobalListeners, phase[l] = "connecting"
          PROVE  l \in Running \ cancelled /\ ChannelOf(l) = "global"
      BY <2>1, <3>2, ChannelNames DEF GlobalServed, Running
    <3> QED  BY <2>1, <2>2, <2>4, <3>1, <3>2 DEF GlobalServed
  <2> QED  BY <2>2, <2>3, <2>4
<1>2. BusInit => BusInvariant /\ OneReader /\ Served
  BY BusStarts, ReaderStarts, ServedStarts
<1>3. (BusInvariant /\ OneReader /\ Served) /\ [BusNext]_busVars => (BusInvariant /\ OneReader /\ Served)'
  BY BusNextKeeps, ReaderNextKeeps, ServedNextKeeps
<1> QED  BY <1>1, <1>2, <1>3, PTL DEF BusSpec

-----------------------------------------------------------------------------
(* The order of the events.  What a connection has not handed over yet is   *)
(* the end of its channel, so that a listener has a position in it, and no  *)
(* handler was called with an event beyond the position of the listener.    *)

Disputed(c) == IF c = "project" THEN survivor ELSE raced

\* How much of its channel a connection has handed over.
Position(l) == Len(published[ChannelOf(l)]) - Len(queue[l])

ReceivesTheEnd ==
    \A l \in Listeners : Open(l) =>
        /\ Len(queue[l]) <= Len(published[ChannelOf(l)])
        /\ \A i \in 1 .. Len(queue[l]) : queue[l][i] = published[ChannelOf(l)][Position(l) + i]

\* A handler was called with nothing but the first n events of its channel.
SeenUpTo(h, n) ==
    \A i \in DOMAIN seen[h] : \E a \in 1 .. n : published[ChannelOf(h)][a] = seen[h][i]

InOrder(h) ==
    \A i, j \in DOMAIN seen[h] :
        i < j => Before(seen[h][i], seen[h][j], published[ChannelOf(h)])

CalledRight ==
    \A h \in Handlers : ~Disputed(ChannelOf(h)) =>
        SeenUpTo(h, Len(published[ChannelOf(h)])) /\ InOrder(h)

\* No handler is ahead of the listener.
Follows(l) ==
    \A h \in Handlers : ChannelOf(h) = ChannelOf(l) => SeenUpTo(h, Position(l))

\* The handlers left to call are behind it.
Behind(l, rest, n) ==
    /\ \A i, j \in DOMAIN rest : rest[i] = rest[j] => i = j
    /\ \A i \in DOMAIN rest : ChannelOf(rest[i]) = ChannelOf(l) /\ SeenUpTo(rest[i], n)

Dispatches(l) ==
    /\ Position(l) >= 1 /\ event[l] = published[ChannelOf(l)][Position(l)]
    /\ Behind(l, todo[l], Position(l) - 1)

InStep ==
    \A l \in Running \ cancelled : Open(l) /\ ~Disputed(ChannelOf(l)) =>
        Follows(l) /\ (phase[l] = "in handler" => Dispatches(l))

TodoApart ==
    \A l \in Listeners : \A i \in DOMAIN todo[l] : ChannelOf(todo[l][i]) = ChannelOf(l)

OrderInvariant == ReceivesTheEnd /\ CalledRight /\ InStep /\ TodoApart

LEMMA OrderStarts == BusInit => OrderInvariant
<1> SUFFICES ASSUME BusInit PROVE OrderInvariant
  OBVIOUS
<1>1. \A l \in Listeners : ~Open(l) /\ todo[l] = <<>>
  BY DEF BusInit, Open
<1>2. \A h \in Handlers : seen[h] = <<>>
  BY DEF BusInit
<1>3. ReceivesTheEnd /\ InStep /\ TodoApart
  <2>1. ReceivesTheEnd
    BY <1>1 DEF ReceivesTheEnd
  <2>2. InStep
    BY <1>1 DEF InStep, Running
  <2>3. TodoApart
    BY <1>1 DEF TodoApart
  <2> QED  BY <2>1, <2>2, <2>3
<1>4. CalledRight
  BY <1>2 DEF CalledRight, SeenUpTo, InOrder
<1> QED  BY <1>3, <1>4 DEF OrderInvariant

\* The lengths that are compared.
LEMMA OrderTypes ==
    ASSUME BusInvariant
    PROVE  /\ \A c \in Channels : published[c] \in Seq(Events) /\ Len(published[c]) \in Nat
           /\ \A l \in Listeners : /\ ChannelOf(l) \in Channels
                                   /\ Open(l) => queue[l] \in Seq(Events) /\ Len(queue[l]) \in Nat
           /\ \A h \in Handlers : ChannelOf(h) \in Channels /\ seen[h] \in Seq(Events)
<1>1. \A c \in Channels : published[c] \in Seq(Events)
  BY DEF BusInvariant, BusTypes
<1>2. \A l \in Listeners : Open(l) => queue[l] \in Seq(Events)
  BY DEF BusInvariant, BusTypes, Open
<1>3. \A h \in Handlers : seen[h] \in Seq(Events)
  BY DEF BusInvariant, BusTypes
<1>4. \A s \in Seq(Events) : Len(s) \in Nat
  OBVIOUS
<1> QED  BY <1>1, <1>2, <1>3, <1>4, ChannelNames

\* A position is within the channel.
LEMMA PositionType ==
    ASSUME BusInvariant, ReceivesTheEnd, NEW l \in Listeners, Open(l)
    PROVE  /\ Position(l) \in Nat /\ Position(l) <= Len(published[ChannelOf(l)])
           /\ Len(published[ChannelOf(l)]) \in Nat /\ Len(queue[l]) \in Nat
<1>1. /\ Len(published[ChannelOf(l)]) \in Nat /\ Len(queue[l]) \in Nat
      /\ Len(queue[l]) <= Len(published[ChannelOf(l)])
  BY OrderTypes DEF ReceivesTheEnd
<1>2. \A p, q \in Nat : q <= p => p - q \in Nat /\ p - q <= p
  OBVIOUS
<1> QED  BY <1>1, <1>2 DEF Position

LEMMA SeenMore ==
    ASSUME NEW h, NEW n \in Nat, NEW k \in Nat, n <= k, SeenUpTo(h, n)
    PROVE  SeenUpTo(h, k)
<1>1. \A a \in 1 .. n : a \in 1 .. k
  OBVIOUS
<1> QED  BY <1>1 DEF SeenUpTo

\* Publishing changes nothing for a handler that was not called.
LEMMA PublishedGrows ==
    ASSUME NEW h \in Handlers, NEW n \in Nat, Len(published[ChannelOf(h)]) \in Nat,
           Len(published'[ChannelOf(h)]) \in Nat,
           published[ChannelOf(h)] \in Seq(Events), published'[ChannelOf(h)] \in Seq(Events),
           Len(published[ChannelOf(h)]) <= Len(published'[ChannelOf(h)]),
           \A a \in 1 .. Len(published[ChannelOf(h)]) :
               published'[ChannelOf(h)][a] = published[ChannelOf(h)][a],
           seen'[h] = seen[h]
    PROVE  /\ n <= Len(published[ChannelOf(h)]) /\ SeenUpTo(h, n) => SeenUpTo(h, n)'
           /\ InOrder(h) => InOrder(h)'
<1> DEFINE s == published[ChannelOf(h)]
           t == published'[ChannelOf(h)]
<1>1. n <= Len(s) /\ SeenUpTo(h, n) => SeenUpTo(h, n)'
  <2>1. \A a \in 1 .. n : n <= Len(s) => a \in 1 .. Len(s)
    OBVIOUS
  <2> QED  BY <2>1 DEF SeenUpTo
<1>2. ASSUME NEW e, NEW f, Before(e, f, s) PROVE Before(e, f, t)
  <2>1. DOMAIN s = 1 .. Len(s) /\ DOMAIN t = 1 .. Len(t)
    OBVIOUS
  <2> HIDE DEF s, t
  <2>2. \A a \in 1 .. Len(s) : a \in 1 .. Len(t) /\ t[a] = s[a]
    BY DEF s, t
  <2> QED  BY <1>2, <2>1, <2>2 DEF Before
<1> QED  BY <1>1, <1>2 DEF InOrder

\* A handler that is called with the next event of its channel.
LEMMA CalledNext ==
    ASSUME BusInvariant, NEW h \in Handlers, NEW n \in Nat, n >= 1,
           n <= Len(published[ChannelOf(h)]), published' = published,
           SeenUpTo(h, n - 1), InOrder(h),
           seen'[h] = Append(seen[h], published[ChannelOf(h)][n])
    PROVE  SeenUpTo(h, n)' /\ InOrder(h)'
<1> DEFINE s == seen[h]
           t == published[ChannelOf(h)]
<1>1. s \in Seq(Events) /\ t \in Seq(Events) /\ t[n] \in Events
  <2>1. s \in Seq(Events) /\ t \in Seq(Events) /\ Len(t) \in Nat
    BY OrderTypes
  <2>2. n \in 1 .. Len(t)
    BY <2>1
  <2> HIDE DEF s, t
  <2> QED  BY <2>1, <2>2
<1>2. /\ DOMAIN s = 1 .. Len(s) /\ DOMAIN Append(s, t[n]) = 1 .. Len(s) + 1 /\ Len(s) \in Nat
      /\ \A i \in 1 .. Len(s) : Append(s, t[n])[i] = s[i]
      /\ Append(s, t[n])[Len(s) + 1] = t[n]
  <2> HIDE DEF s, t
  <2> QED  BY <1>1, AppendFacts
<1>3. \A i \in 1 .. Len(s) : \E a \in 1 .. n - 1 : t[a] = s[i]
  BY <1>2 DEF SeenUpTo
<1>4. \A i, j \in 1 .. Len(s) : i < j => Before(s[i], s[j], t)
  BY <1>2 DEF InOrder
<1>5. DOMAIN t = 1 .. Len(t) /\ n \in 1 .. Len(t) /\ \A a \in 1 .. n - 1 : a \in 1 .. n /\ a < n /\ a \in 1 .. Len(t)
  <2>1. DOMAIN t = 1 .. Len(t) /\ Len(t) \in Nat
    BY <1>1
  <2> QED  BY <2>1
<1>6. seen'[h] = Append(s, t[n]) /\ published'[ChannelOf(h)] = t
  OBVIOUS
<1>7. \A i \in 1 .. Len(s) + 1 : i = Len(s) + 1 \/ i \in 1 .. Len(s)
  BY <1>2
<1> HIDE DEF s, t
<1>8. \A i \in 1 .. Len(s) + 1 : \E a \in 1 .. n : t[a] = Append(s, t[n])[i]
  <2> TAKE i \in 1 .. Len(s) + 1
  <2>1. CASE i = Len(s) + 1
    BY <1>2, <1>5, <2>1
  <2>2. CASE i # Len(s) + 1
    <3>1. i \in 1 .. Len(s)
      BY <1>7, <2>2
    <3> QED  BY <1>2, <1>3, <1>5, <3>1
  <2> QED  BY <2>1, <2>2
<1>9. \A i, j \in 1 .. Len(s) + 1 :
          i < j => Before(Append(s, t[n])[i], Append(s, t[n])[j], t)
  <2> TAKE i, j \in 1 .. Len(s) + 1
  <2> HAVE i < j
  <2>1. i \in 1 .. Len(s)
    BY <1>2
  <2>2. CASE j = Len(s) + 1
    <3>1. PICK a \in 1 .. n - 1 : t[a] = s[i]
      BY <1>3, <2>1
    <3> QED  BY <1>2, <1>5, <2>1, <2>2, <3>1 DEF Before
  <2>3. CASE j # Len(s) + 1
    <3>1. j \in 1 .. Len(s)
      BY <1>7, <2>3
    <3> QED  BY <1>2, <1>4, <2>1, <3>1
  <2> QED  BY <2>2, <2>3
<1> QED  BY <1>2, <1>6, <1>8, <1>9 DEF SeenUpTo, InOrder

LEMMA ZeroFacts == (\A p \in Nat : p - 0 = p /\ 0 <= p) /\ (\A i \in 1 .. 0 : FALSE)
OBVIOUS

\* Of a handler that is not called, on a channel where nothing is published.
LEMMA SeenSame ==
    ASSUME NEW h, NEW n, published' = published, seen'[h] = seen[h]
    PROVE  (SeenUpTo(h, n)' <=> SeenUpTo(h, n)) /\ (InOrder(h)' <=> InOrder(h))
BY DEF SeenUpTo, InOrder

\* What is left to call is as far behind as before.
LEMMA BehindSame ==
    ASSUME NEW l, NEW rest, NEW n, published' = published, seen' = seen, Behind(l, rest, n)
    PROVE  Behind(l, rest, n)'
BY DEF Behind, SeenUpTo

LEMMA DispatchesSame ==
    ASSUME NEW l, UNCHANGED <<published, seen, event, todo>>, Position(l)' = Position(l),
           Dispatches(l)
    PROVE  Dispatches(l)'
<1>1. Behind(l, todo[l], Position(l) - 1)'
  <2>1. Behind(l, todo[l], Position(l) - 1)
    BY DEF Dispatches
  <2> DEFINE n == Position(l) - 1
  <2>2. n' = n
    OBVIOUS
  <2> HIDE DEF n
  <2> QED  BY <2>1, <2>2, BehindSame DEF n
<1>2. event'[l] = published'[ChannelOf(l)][Position(l)'] /\ Position(l)' >= 1
  BY DEF Dispatches
<1> QED  BY <1>1, <1>2 DEF Dispatches

\* A step that calls no handler.
LEMMA OrderFrame ==
    ASSUME BusInvariant, OrderInvariant, UNCHANGED <<published, seen, event, todo>>,
           survivor => survivor', raced => raced',
           \A m \in Listeners : Open(m)' =>
               queue'[m] = queue[m] \/ (queue'[m] = <<>> /\ phase'[m] # "in handler"),
           \A m \in Running' \ cancelled' : Open(m)' /\ queue'[m] = queue[m] =>
               m \in Running \ cancelled /\ (phase'[m] = "in handler" => phase[m] = "in handler")
    PROVE  OrderInvariant'
<1>a. ReceivesTheEnd /\ CalledRight /\ InStep /\ TodoApart
  BY DEF OrderInvariant
<1>b. published' = published /\ seen' = seen /\ event' = event /\ todo' = todo
  OBVIOUS
<1>c. \A c \in Channels : ~Disputed(c)' => ~Disputed(c)
  BY DEF Disputed
<1>d. \A m \in Listeners : ChannelOf(m) \in Channels /\ Len(published[ChannelOf(m)]) \in Nat
  BY OrderTypes
<1>e. Len(<<>>) = 0
  OBVIOUS
<1>1. TodoApart'
  BY <1>a, <1>b DEF TodoApart
<1>2. CalledRight'
  <2> SUFFICES ASSUME NEW h \in Handlers, ~Disputed(ChannelOf(h))'
               PROVE  SeenUpTo(h, Len(published[ChannelOf(h)]))' /\ InOrder(h)'
    BY DEF CalledRight
  <2>1. SeenUpTo(h, Len(published[ChannelOf(h)])) /\ InOrder(h)
    BY <1>a, <1>c, OrderTypes DEF CalledRight
  <2>2. Len(published'[ChannelOf(h)]) = Len(published[ChannelOf(h)])
    BY <1>b
  <2> QED  BY <1>b, <2>1, <2>2, SeenSame
<1>3. ASSUME NEW m \in Listeners, queue'[m] = queue[m], Open(m)'
      PROVE  Open(m) /\ Position(m)' = Position(m)
  BY <1>3, <1>b DEF Open, Position
<1>4. ASSUME NEW m \in Listeners, queue'[m] = <<>>
      PROVE  Position(m)' = Len(published[ChannelOf(m)])
  <2>1. Len(queue'[m]) = 0
    BY <1>4, <1>e
  <2>2. Position(m)' = Len(published[ChannelOf(m)]) - 0
    BY <1>b, <2>1 DEF Position
  <2> QED  BY <1>d, <2>2, ZeroFacts
<1>5. ReceivesTheEnd'
  <2> SUFFICES ASSUME NEW m \in Listeners, Open(m)'
               PROVE  /\ Len(queue'[m]) <= Len(published'[ChannelOf(m)])
                      /\ \A i \in 1 .. Len(queue'[m]) :
                            queue'[m][i] = published'[ChannelOf(m)][Position(m)' + i]
    BY DEF ReceivesTheEnd
  <2>1. CASE queue'[m] = queue[m]
    BY <1>a, <1>b, <1>3, <2>1 DEF ReceivesTheEnd
  <2>2. CASE queue'[m] = <<>>
    <3>1. Len(queue'[m]) = 0
      BY <2>2, <1>e
    <3>2. Len(published'[ChannelOf(m)]) \in Nat
      BY <1>b, <1>d
    <3> QED  BY <3>1, <3>2, ZeroFacts
  <2> QED  BY <2>1, <2>2
<1>6. InStep'
  <2> SUFFICES ASSUME NEW m \in Running' \ cancelled', Open(m)', ~Disputed(ChannelOf(m))'
               PROVE  Follows(m)' /\ (phase'[m] = "in handler" => Dispatches(m)')
    BY DEF InStep
  <2>1. m \in Listeners /\ ~Disputed(ChannelOf(m))
    BY <1>c, <1>d DEF Running
  <2>2. CASE queue'[m] = queue[m]
    <3>1. /\ Open(m) /\ Position(m)' = Position(m) /\ m \in Running \ cancelled
          /\ phase'[m] = "in handler" => phase[m] = "in handler"
      BY <1>3, <2>1, <2>2
    <3>2. Follows(m) /\ (phase'[m] = "in handler" => Dispatches(m))
      BY <1>a, <2>1, <3>1 DEF InStep
    <3>3. Follows(m)'
      BY <1>b, <3>1, <3>2, SeenSame DEF Follows
    <3>4. Dispatches(m) => Dispatches(m)'
      BY <1>b, <3>1, DispatchesSame
    <3> QED  BY <3>2, <3>3, <3>4
  <2>3. CASE queue'[m] = <<>> /\ phase'[m] # "in handler"
    <3>1. Position(m)' = Len(published[ChannelOf(m)])
      BY <1>4, <2>1, <2>3
    <3>2. \A h \in Handlers : ChannelOf(h) = ChannelOf(m) => SeenUpTo(h, Len(published[ChannelOf(m)]))
      BY <1>a, <2>1 DEF CalledRight
    <3>3. Follows(m)'
      BY <1>b, <3>1, <3>2, SeenSame DEF Follows
    <3> QED  BY <2>3, <3>3
  <2> QED  BY <2>1, <2>2, <2>3
<1> QED  BY <1>1, <1>2, <1>5, <1>6 DEF OrderInvariant

\* Publishing moves the end of the channel and of its queues alike.
LEMMA OrderBroadcast ==
    ASSUME BusInvariant, OrderInvariant,
           NEW e \in Events, NEW c \in Channels, NEW from, NEW to, Broadcast(e, c, from, to)
    PROVE  OrderInvariant'
<1>a. ReceivesTheEnd /\ CalledRight /\ InStep /\ TodoApart
  BY DEF OrderInvariant
<1>b. UNCHANGED <<phase, event, todo, cancelled, seen, survivor, raced>>
  BY DEF Broadcast
<1>c. \A d \in Channels : Disputed(d)' = Disputed(d)
  BY <1>b DEF Disputed
<1>1. /\ published' = [published EXCEPT ![c] = Append(published[c], e)]
      /\ \A m \in Listeners : /\ Open(m)' = Open(m)
                              /\ Open(m) /\ ChannelOf(m) = c => queue'[m] = Append(queue[m], e)
                              /\ ~(Open(m) /\ ChannelOf(m) = c) => queue'[m] = queue[m]
  BY BroadcastBus
<1>2. /\ published'[c] = Append(published[c], e) /\ published \in [Channels -> Seq(Events)]
      /\ \A d \in Channels : d # c => published'[d] = published[d]
  BY <1>1 DEF BusInvariant, BusTypes
<1>3. ASSUME NEW d \in Channels
      PROVE  /\ published[d] \in Seq(Events) /\ published'[d] \in Seq(Events)
             /\ Len(published[d]) \in Nat /\ Len(published'[d]) \in Nat
             /\ Len(published'[d]) = IF d = c THEN Len(published[d]) + 1 ELSE Len(published[d])
             /\ \A a \in 1 .. Len(published[d]) : published'[d][a] = published[d][a]
             /\ d = c => published'[d][Len(published[d]) + 1] = e
  <2>1. published[d] \in Seq(Events) /\ Len(published[d]) \in Nat
    BY OrderTypes
  <2>2. CASE d = c
    <3>1. published'[d] = Append(published[d], e)
      BY <1>2, <2>2
    <3>2. /\ Append(published[d], e) \in Seq(Events) /\ Len(Append(published[d], e)) = Len(published[d]) + 1
          /\ \A a \in 1 .. Len(published[d]) : Append(published[d], e)[a] = published[d][a]
          /\ Append(published[d], e)[Len(published[d]) + 1] = e
      BY <2>1, AppendFacts
    <3>3. \A p \in Nat : p + 1 \in Nat
      OBVIOUS
    <3> QED  BY <2>1, <2>2, <3>1, <3>2, <3>3
  <2>3. CASE d # c
    BY <1>2, <2>1, <2>3
  <2> QED  BY <2>2, <2>3
<1>4. ASSUME NEW h \in Handlers, NEW n \in Nat
      PROVE  /\ n <= Len(published[ChannelOf(h)]) /\ SeenUpTo(h, n) => SeenUpTo(h, n)'
             /\ InOrder(h) => InOrder(h)'
             /\ Len(published[ChannelOf(h)]) \in Nat /\ Len(published'[ChannelOf(h)]) \in Nat
             /\ Len(published[ChannelOf(h)]) <= Len(published'[ChannelOf(h)])
  <2>1. ChannelOf(h) \in Channels
    BY OrderTypes
  <2>2. Len(published[ChannelOf(h)]) <= Len(published'[ChannelOf(h)])
    BY <1>3, <2>1
  <2>3. seen'[h] = seen[h]
    BY <1>b
  <2> QED  BY <1>3, <2>1, <2>2, <2>3, PublishedGrows
<1>5. CalledRight'
  <2> SUFFICES ASSUME NEW h \in Handlers, ~Disputed(ChannelOf(h))
               PROVE  SeenUpTo(h, Len(published[ChannelOf(h)]))' /\ InOrder(h)'
    BY <1>c, OrderTypes DEF CalledRight
  <2> DEFINE n == Len(published[ChannelOf(h)])
             k == Len(published'[ChannelOf(h)])
  <2>1. SeenUpTo(h, n) /\ InOrder(h)
    BY <1>a DEF CalledRight
  <2>2. n \in Nat /\ k \in Nat /\ n <= k
    BY <1>4
  <2>3. \A a \in 1 .. n : a \in 1 .. k
    <3> HIDE DEF n, k
    <3> QED  BY <2>2
  <2>4. \A i \in DOMAIN seen'[h] : \E a \in 1 .. n : published'[ChannelOf(h)][a] = seen'[h][i]
    <3>1. \A a \in 1 .. n : published'[ChannelOf(h)][a] = published[ChannelOf(h)][a]
      BY <1>3, OrderTypes
    <3> QED  BY <1>b, <2>1, <3>1 DEF SeenUpTo
  <2>5. SeenUpTo(h, Len(published[ChannelOf(h)]))'
    <3>1. \A i \in DOMAIN seen'[h] : \E a \in 1 .. k : published'[ChannelOf(h)][a] = seen'[h][i]
      <4> HIDE DEF n, k
      <4> QED  BY <2>3, <2>4
    <3> QED  BY <3>1 DEF SeenUpTo
  <2> QED  BY <1>4, <2>1, <2>2, <2>5
<1>6. ASSUME NEW m \in Listeners, Open(m)
      PROVE  /\ Position(m)' = Position(m) /\ Position(m) \in Nat
             /\ Position(m) <= Len(published[ChannelOf(m)])
             /\ Len(queue'[m]) <= Len(published'[ChannelOf(m)])
             /\ \A i \in 1 .. Len(queue'[m]) :
                   queue'[m][i] = published'[ChannelOf(m)][Position(m) + i]
  <2> DEFINE d == ChannelOf(m)
             p == Len(published[d])
             q == Len(queue[m])
  <2>1. /\ d \in Channels /\ queue[m] \in Seq(Events) /\ p \in Nat /\ q \in Nat /\ q <= p
        /\ Position(m) = p - q
        /\ \A i \in 1 .. q : queue[m][i] = published[d][(p - q) + i]
    BY <1>a, <1>6, OrderTypes DEF ReceivesTheEnd, Position
  <2>2. CASE d # c
    <3>1. queue'[m] = queue[m] /\ published'[d] = published[d]
      BY <1>1, <1>2, <2>1, <2>2
    <3>2. Position(m)' = p - q
      BY <3>1 DEF Position
    <3>3. p - q \in Nat /\ p - q <= p
      <4> HIDE DEF p, q
      <4> QED  BY <2>1
    <3> QED  BY <2>1, <3>1, <3>2, <3>3
  <2>3. CASE d = c
    <3>1. /\ queue'[m] = Append(queue[m], e) /\ published'[d] = Append(published[d], e)
          /\ published[d] \in Seq(Events)
      BY <1>1, <1>2, <1>3, <1>6, <2>1, <2>3
    <3>2. /\ Len(queue'[m]) = q + 1 /\ queue'[m][q + 1] = e
          /\ \A i \in 1 .. q : queue'[m][i] = queue[m][i]
      BY <2>1, <3>1, AppendFacts
    <3>3. /\ Len(published'[d]) = p + 1 /\ published'[d][p + 1] = e
          /\ \A i \in 1 .. p : published'[d][i] = published[d][i]
      BY <3>1, AppendFacts
    <3>4. Position(m)' = (p + 1) - (q + 1)
      BY <3>2, <3>3 DEF Position
    <3> HIDE DEF p, q, d
    <3>5. /\ (p + 1) - (q + 1) = p - q /\ p - q \in Nat /\ p - q <= p /\ q + 1 <= p + 1
          /\ \A i \in 1 .. q : (p - q) + i \in 1 .. p
          /\ (p - q) + (q + 1) = p + 1
          /\ \A i \in 1 .. q + 1 : i \in 1 .. q \/ i = q + 1
      BY <2>1
    <3>6. \A i \in 1 .. q + 1 : queue'[m][i] = published'[d][(p - q) + i]
      <4> TAKE i \in 1 .. q + 1
      <4>1. CASE i \in 1 .. q
        BY <2>1, <3>2, <3>3, <3>5, <4>1
      <4>2. CASE i = q + 1
        BY <3>2, <3>3, <3>5, <4>2
      <4> QED  BY <3>5, <4>1, <4>2
    <3>7. Position(m)' = p - q /\ Position(m) = p - q
      BY <2>1, <3>4, <3>5
    <3> QED  BY <3>2, <3>3, <3>5, <3>6, <3>7 DEF p, d
  <2> QED  BY <2>2, <2>3
<1>7. ReceivesTheEnd'
  BY <1>1, <1>6 DEF ReceivesTheEnd
<1>8. InStep'
  <2> SUFFICES ASSUME NEW m \in Running \ cancelled, Open(m), ~Disputed(ChannelOf(m)), m \in Listeners
               PROVE  Follows(m)' /\ (phase[m] = "in handler" => Dispatches(m)')
    <3>1. Running' = Running /\ cancelled' = cancelled /\ phase' = phase
      BY <1>b DEF Running
    <3>2. \A m \in Listeners : ChannelOf(m) \in Channels /\ Open(m)' = Open(m)
      BY <1>1, OrderTypes
    <3> QED  BY <1>c, <3>1, <3>2 DEF InStep, Running
  <2>1. Follows(m) /\ (phase[m] = "in handler" => Dispatches(m))
    BY <1>a DEF InStep
  <2>2. /\ Position(m)' = Position(m) /\ Position(m) \in Nat
        /\ Position(m) <= Len(published[ChannelOf(m)]) /\ Len(published[ChannelOf(m)]) \in Nat
    BY <1>6, OrderTypes
  <2>3. Follows(m)'
    BY <1>4, <2>1, <2>2 DEF Follows
  <2>4. ASSUME Dispatches(m) PROVE Dispatches(m)'
    <3>1. /\ Position(m) >= 1 /\ Position(m) - 1 \in Nat /\ Position(m) - 1 <= Len(published[ChannelOf(m)])
          /\ Position(m) \in 1 .. Len(published[ChannelOf(m)])
      BY <2>2, <2>4 DEF Dispatches
    <3>2. event'[m] = published'[ChannelOf(m)][Position(m)]
      BY <1>3, <1>b, <2>4, <3>1, OrderTypes DEF Dispatches
    <3>3. \A i \in DOMAIN todo[m] : todo[m][i] \in Handlers
      <4>1. todo[m] \in Seq(Handlers)
        BY DEF BusInvariant, BusTypes
      <4> QED  BY <4>1, ElementFacts
    <3>4. \A i \in DOMAIN todo[m] : ChannelOf(todo[m][i]) = ChannelOf(m) /\ SeenUpTo(todo[m][i], Position(m) - 1)
      BY <2>4 DEF Dispatches, Behind
    <3>5. \A i \in DOMAIN todo[m] : SeenUpTo(todo[m][i], Position(m) - 1)'
      <4> TAKE i \in DOMAIN todo[m]
      <4>1. PICK g \in Handlers : g = todo[m][i]
        BY <3>3
      <4>2. PICK n \in Nat : n = Position(m) - 1
        BY <3>1
      <4>3. ChannelOf(g) = ChannelOf(m) /\ SeenUpTo(g, n)
        BY <3>4, <4>1, <4>2
      <4>4. SeenUpTo(g, n)'
        BY <1>4, <3>1, <4>2, <4>3
      <4>5. todo'[m][i] = g /\ Position(m)' - 1 = n
        BY <1>b, <2>2, <4>1, <4>2
      <4> QED  BY <4>4, <4>5
    <3> QED  BY <1>b, <2>2, <2>4, <3>1, <3>2, <3>4, <3>5 DEF Dispatches, Behind
  <2> QED  BY <2>1, <2>3, <2>4
<1>9. TodoApart'
  BY <1>a, <1>b DEF TodoApart
<1> QED  BY <1>5, <1>7, <1>8, <1>9 DEF OrderInvariant

\* Arithmetic of the indices.
LEMMA IndexFacts ==
    /\ \A n \in Nat : n >= 1 => 1 \in 1 .. n /\ \A i \in 1 .. n - 1 : i + 1 \in 1 .. n
    /\ \A n \in Nat : \A i \in 1 .. n - 1 : i \in Int /\ i + 1 # 1
    /\ \A i, j \in Int : i + 1 = j + 1 => i = j
    /\ \A n, k \in Nat : n <= k => \A a \in 1 .. n : a \in 1 .. k
OBVIOUS

\* What is changed for the other listeners: nothing.
LEMMA CallNextOthers ==
    ASSUME BusInvariant, NEW l \in Listeners,
           NEW e \in Events, NEW rest \in Seq(Handlers), CallNext(l, e, rest)
    PROVE  /\ event'[l] = e
           /\ \A m \in Listeners : m # l => event'[m] = event[m] /\ todo'[m] = todo[m] /\ phase'[m] = phase[m]
<1>1. /\ phase \in [Listeners -> Phases] /\ event \in [Listeners -> Events \cup {None}]
      /\ todo \in [Listeners -> Seq(Handlers)]
  BY DEF BusInvariant, BusTypes
<1> QED  BY <1>1 DEF CallNext

LEMMA CallNextNone ==
    ASSUME BusInvariant, NEW l \in Listeners, NEW e, CallNext(l, e, <<>>)
    PROVE  seen' = seen /\ phase'[l] = "listening" /\ todo'[l] = <<>>
<1>1. phase \in [Listeners -> Phases] /\ todo \in [Listeners -> Seq(Handlers)]
  BY DEF BusInvariant, BusTypes
<1> QED  BY <1>1 DEF CallNext

\* The first handler is called, the others are left.
LEMMA CallNextSome ==
    ASSUME BusInvariant, NEW l \in Listeners, NEW e,
           NEW rest \in Seq(Handlers), rest # <<>>, CallNext(l, e, rest)
    PROVE  /\ rest[1] \in Handlers /\ 1 \in DOMAIN rest
           /\ seen'[rest[1]] = Append(seen[rest[1]], e)
           /\ \A h \in Handlers : h # rest[1] => seen'[h] = seen[h]
           /\ \A i \in DOMAIN todo'[l] : /\ i \in Int /\ i + 1 \in DOMAIN rest /\ i + 1 # 1
                                         /\ todo'[l][i] = rest[i + 1]
<1>a. todo \in [Listeners -> Seq(Handlers)] /\ seen \in [Handlers -> Seq(Events)]
  BY DEF BusInvariant, BusTypes
<1>1. /\ Head(rest) = rest[1] /\ rest[1] \in Handlers /\ Len(rest) \in Nat /\ Len(rest) >= 1
      /\ Len(Tail(rest)) = Len(rest) - 1 /\ Tail(rest) \in Seq(Handlers)
      /\ \A i \in 1 .. Len(rest) - 1 : Tail(rest)[i] = rest[i + 1]
  BY TailFacts
<1>2. seen' = [seen EXCEPT ![rest[1]] = Append(seen[rest[1]], e)]
  BY <1>1 DEF CallNext
<1>3. todo'[l] = Tail(rest)
  BY <1>a DEF CallNext
<1>4. DOMAIN rest = 1 .. Len(rest) /\ DOMAIN Tail(rest) = 1 .. Len(Tail(rest))
  BY <1>1, ElementFacts
<1>5. /\ seen'[rest[1]] = Append(seen[rest[1]], e)
      /\ \A h \in Handlers : h # rest[1] => seen'[h] = seen[h]
  BY <1>a, <1>1, <1>2
<1>6. ASSUME NEW i \in DOMAIN todo'[l]
      PROVE  /\ i \in Int /\ i + 1 \in DOMAIN rest /\ i + 1 # 1
             /\ todo'[l][i] = rest[i + 1]
  <2>1. i \in 1 .. Len(rest) - 1
    BY <1>1, <1>3, <1>4
  <2> QED  BY <1>1, <1>3, <1>4, <2>1, IndexFacts
<1>7. 1 \in DOMAIN rest
  BY <1>1, <1>4, IndexFacts
<1> QED  BY <1>1, <1>5, <1>6, <1>7

LEMMA CallNextChannel ==
    ASSUME BusInvariant, NEW l \in Listeners, NEW e \in Events,
           NEW rest \in Seq(Handlers), CallNext(l, e, rest),
           \A i \in DOMAIN rest : ChannelOf(rest[i]) = ChannelOf(l)
    PROVE  /\ \A i \in DOMAIN todo'[l] : ChannelOf(todo'[l][i]) = ChannelOf(l)
           /\ \A h \in Handlers : ChannelOf(h) # ChannelOf(l) => seen'[h] = seen[h]
<1>1. CASE rest = <<>>
  <2>1. seen' = seen /\ todo'[l] = <<>>
    BY <1>1, CallNextNone
  <2> QED  BY <2>1
<1>2. CASE rest # <<>>
  BY <1>2, CallNextSome
<1> QED  BY <1>1, <1>2

\* A call of the first of some handlers that are behind event n, with this event.
LEMMA CallKeepsOrder ==
    ASSUME BusInvariant, NEW l \in Listeners, phase[l] \in {"listening", "in handler"},
           NEW n \in Nat, n >= 1, n <= Len(published[ChannelOf(l)]),
           NEW e \in Events, e = published[ChannelOf(l)][n],
           NEW rest \in Seq(Handlers), CallNext(l, e, rest), published' = published,
           Behind(l, rest, n - 1),
           \A h \in Handlers : ChannelOf(h) = ChannelOf(l) => SeenUpTo(h, n) /\ InOrder(h)
    PROVE  /\ \A h \in Handlers : ChannelOf(h) = ChannelOf(l) => SeenUpTo(h, n)' /\ InOrder(h)'
           /\ phase'[l] = "in handler" => event'[l] = e /\ Behind(l, todo[l], n - 1)'
<1>1. CASE rest = <<>>
  <2>1. seen' = seen /\ phase'[l] = "listening"
    BY <1>1, CallNextNone
  <2> QED  BY <2>1, SeenSame
<1>2. CASE rest # <<>>
  <2>1. /\ rest[1] \in Handlers /\ 1 \in DOMAIN rest
        /\ seen'[rest[1]] = Append(seen[rest[1]], e)
        /\ \A h \in Handlers : h # rest[1] => seen'[h] = seen[h]
        /\ \A i \in DOMAIN todo'[l] : /\ i \in Int /\ i + 1 \in DOMAIN rest /\ i + 1 # 1
                                      /\ todo'[l][i] = rest[i + 1]
    BY <1>2, CallNextSome
  <2>2. /\ \A i, j \in DOMAIN rest : rest[i] = rest[j] => i = j
        /\ \A i \in DOMAIN rest : ChannelOf(rest[i]) = ChannelOf(l) /\ SeenUpTo(rest[i], n - 1)
    BY DEF Behind
  <2>3. SeenUpTo(rest[1], n)' /\ InOrder(rest[1])'
    <3>1. ChannelOf(rest[1]) = ChannelOf(l)
      BY <2>1, <2>2
    <3>2. SeenUpTo(rest[1], n - 1) /\ InOrder(rest[1])
      BY <2>1, <2>2, <3>1
    <3>3. seen'[rest[1]] = Append(seen[rest[1]], published[ChannelOf(rest[1])][n])
      BY <2>1, <3>1
    <3>4. n <= Len(published[ChannelOf(rest[1])])
      BY <3>1
    <3> QED  BY <2>1, <3>2, <3>3, <3>4, CalledNext
  <2>4. ASSUME NEW h \in Handlers, ChannelOf(h) = ChannelOf(l)
        PROVE  SeenUpTo(h, n)' /\ InOrder(h)'
    BY <2>1, <2>3, <2>4, SeenSame
  <2>5. \A i, j \in DOMAIN todo'[l] : todo'[l][i] = todo'[l][j] => i = j
    <3>1. ASSUME NEW i \in DOMAIN todo'[l], NEW j \in DOMAIN todo'[l], todo'[l][i] = todo'[l][j]
          PROVE  i = j
      <4>1. /\ i \in Int /\ i + 1 \in DOMAIN rest /\ todo'[l][i] = rest[i + 1]
            /\ j \in Int /\ j + 1 \in DOMAIN rest /\ todo'[l][j] = rest[j + 1]
        BY <2>1, <3>1
      <4>2. rest[i + 1] = rest[j + 1]
        BY <3>1, <4>1
      <4>3. i + 1 = j + 1
        BY <2>2, <4>1, <4>2
      <4> QED  BY <4>1, <4>3, IndexFacts
    <3> QED  BY <3>1
  <2>6. ASSUME NEW i \in DOMAIN todo'[l]
        PROVE  ChannelOf(todo'[l][i]) = ChannelOf(l) /\ SeenUpTo(todo[l][i], n - 1)'
    <3>1. i + 1 \in DOMAIN rest /\ todo'[l][i] = rest[i + 1] /\ i + 1 # 1
      BY <2>1
    <3>3. rest[i + 1] \in Handlers /\ rest[i + 1] # rest[1]
      BY <2>1, <2>2, <3>1, ElementFacts
    <3>4. ChannelOf(rest[i + 1]) = ChannelOf(l) /\ SeenUpTo(rest[i + 1], n - 1)
      BY <2>2, <3>1
    <3>5. SeenUpTo(rest[i + 1], n - 1)'
      BY <2>1, <3>3, <3>4, SeenSame
    <3> QED  BY <3>1, <3>4, <3>5
  <2>7. Behind(l, todo[l], n - 1)'
    BY <2>5, <2>6 DEF Behind
  <2> QED  BY <2>4, <2>7, CallNextOthers
<1> QED  BY <1>1, <1>2

\* A step of the listener that reads its channel, and of one of a disputed channel.
LEMMA OrderDispatch ==
    ASSUME BusInvariant, OneReader, OrderInvariant, ReceivesTheEnd',
           NEW l \in Listeners \ cancelled, phase[l] \in {"listening", "in handler"},
           phase'[l] \in {"listening", "in handler"},
           NEW e \in Events, NEW rest \in Seq(Handlers), CallNext(l, e, rest),
           \A i \in DOMAIN rest : ChannelOf(rest[i]) = ChannelOf(l),
           UNCHANGED <<published, cancelled, survivor, raced>>,
           \A m \in Listeners : Open(m)' = Open(m),
           \A m \in Listeners : ChannelOf(m) # ChannelOf(l) => queue'[m] = queue[m],
           NEW n, n = Position(l)',
           ~Disputed(ChannelOf(l)) =>
               /\ n \in Nat /\ n >= 1 /\ n <= Len(published[ChannelOf(l)])
               /\ e = published[ChannelOf(l)][n]
               /\ \A h \in Handlers : ChannelOf(h) = ChannelOf(l) => SeenUpTo(h, n)
               /\ Behind(l, rest, n - 1)
    PROVE  OrderInvariant'
<1>a. CalledRight /\ InStep /\ TodoApart /\ OneOfProject /\ OneOfGlobal
  BY DEF OrderInvariant, OneReader
<1>b. published' = published /\ cancelled' = cancelled
  OBVIOUS
<1>c. \A c \in Channels : Disputed(c)' = Disputed(c)
  BY DEF Disputed
<1>d. /\ ChannelOf(l) \in Channels /\ \A h \in Handlers : ChannelOf(h) \in Channels
      /\ \A m \in Listeners : ChannelOf(m) \in Channels
      /\ \A c \in Channels : Len(published[c]) \in Nat
  BY OrderTypes
<1>1. \A m \in Listeners : m # l => event'[m] = event[m] /\ todo'[m] = todo[m] /\ phase'[m] = phase[m]
  BY CallNextOthers
<1>2. Running' = Running
  BY <1>1 DEF Running
<1>3. \A h \in Handlers : ChannelOf(h) # ChannelOf(l) => seen'[h] = seen[h]
  BY CallNextChannel
<1>4. TodoApart'
  <2>1. \A i \in DOMAIN todo'[l] : ChannelOf(todo'[l][i]) = ChannelOf(l)
    BY CallNextChannel
  <2> QED  BY <1>a, <1>1, <2>1 DEF TodoApart
<1>5. ASSUME ~Disputed(ChannelOf(l))
      PROVE  /\ \A h \in Handlers : ChannelOf(h) = ChannelOf(l) => SeenUpTo(h, n)' /\ InOrder(h)'
             /\ phase'[l] = "in handler" => event'[l] = e /\ Behind(l, todo[l], n - 1)'
  <2>1. \A h \in Handlers : ChannelOf(h) = ChannelOf(l) => InOrder(h)
    BY <1>a, <1>5 DEF CalledRight
  <2> QED  BY <1>b, <1>5, <2>1, CallKeepsOrder
<1>6. CalledRight'
  <2> SUFFICES ASSUME NEW h \in Handlers, ~Disputed(ChannelOf(h))
               PROVE  SeenUpTo(h, Len(published[ChannelOf(h)]))' /\ InOrder(h)'
    BY <1>c, <1>d DEF CalledRight
  <2> DEFINE k == Len(published[ChannelOf(h)])
  <2>1. k' = k
    BY <1>b
  <2>2. CASE ChannelOf(h) = ChannelOf(l)
    <3>1. /\ SeenUpTo(h, n)' /\ InOrder(h)' /\ n \in Nat /\ n <= k /\ k \in Nat
      BY <1>5, <1>d, <2>2
    <3> HIDE DEF k
    <3>2. \A a \in 1 .. n : a \in 1 .. k
      BY <3>1, IndexFacts
    <3>3. SeenUpTo(h, k)'
      BY <2>1, <3>1, <3>2 DEF SeenUpTo
    <3> QED  BY <3>1, <3>3 DEF k
  <2>3. CASE ChannelOf(h) # ChannelOf(l)
    <3>1. SeenUpTo(h, k) /\ InOrder(h) /\ seen'[h] = seen[h]
      BY <1>3, <1>a, <2>3 DEF CalledRight
    <3> HIDE DEF k
    <3>2. SeenUpTo(h, k)' /\ InOrder(h)'
      BY <1>b, <2>1, <3>1, SeenSame
    <3> QED  BY <3>2 DEF k
  <2> QED  BY <2>2, <2>3
<1>7. InStep'
  <2> SUFFICES ASSUME NEW m \in Running \ cancelled, Open(m), ~Disputed(ChannelOf(m)), m \in Listeners
               PROVE  Follows(m)' /\ (phase'[m] = "in handler" => Dispatches(m)')
    BY <1>b, <1>c, <1>d, <1>2 DEF InStep, Running
  <2>1. CASE ChannelOf(m) = ChannelOf(l)
    <3>1. l \in Running \ cancelled
      BY DEF Running
    <3>2. m = l
      <4>1. CASE l \in ProjectListeners
        <5>1. m \in ProjectListeners /\ ~survivor
          BY <2>1, <4>1, ChannelNames DEF Disputed
        <5> QED  BY <1>a, <3>1, <4>1, <5>1 DEF OneOfProject
      <4>2. CASE l \in GlobalListeners
        <5>1. m \in GlobalListeners /\ ~raced
          BY <2>1, <4>2, ChannelNames DEF Disputed
        <5>2. l \in GlobalListeners \cap Running /\ m \in GlobalListeners \cap Running /\ phase[l] # "connecting"
          BY <3>1, <4>2, <5>1
        <5>3. GlobalListeners \cap Running = {l}
          BY <1>a, <5>1, <5>2 DEF OneOfGlobal
        <5> QED  BY <5>2, <5>3
      <4> QED  BY <4>1, <4>2, ChannelNames
    <3>3. Follows(l)'
      BY <1>5, <2>1 DEF Follows
    <3>4. phase'[l] = "in handler" => Dispatches(l)'
      BY <1>b, <1>5, <2>1 DEF Dispatches
    <3> QED  BY <3>2, <3>3, <3>4
  <2>2. CASE ChannelOf(m) # ChannelOf(l)
    <3>1. m # l /\ queue'[m] = queue[m] /\ phase'[m] = phase[m] /\ event'[m] = event[m] /\ todo'[m] = todo[m]
      BY <1>1, <2>2
    <3>2. Follows(m) /\ (phase[m] = "in handler" => Dispatches(m))
      BY <1>a DEF InStep
    <3> DEFINE p == Position(m)
    <3>3. p' = p
      BY <1>b, <3>1 DEF Position
    <3>4. Follows(m)'
      <4>1. \A h \in Handlers : ChannelOf(h) = ChannelOf(m) => SeenUpTo(h, p) /\ seen'[h] = seen[h]
        BY <1>3, <2>2, <3>2 DEF Follows
      <4> HIDE DEF p
      <4>2. \A h \in Handlers : ChannelOf(h) = ChannelOf(m) => SeenUpTo(h, p)'
        BY <1>b, <3>3, <4>1, SeenSame
      <4> QED  BY <4>2 DEF p, Follows
    <3>5. ASSUME Dispatches(m) PROVE Dispatches(m)'
      <4>1. /\ p >= 1 /\ event[m] = published[ChannelOf(m)][p]
            /\ \A i, j \in DOMAIN todo[m] : todo[m][i] = todo[m][j] => i = j
            /\ \A i \in DOMAIN todo[m] : ChannelOf(todo[m][i]) = ChannelOf(m) /\ SeenUpTo(todo[m][i], p - 1)
        BY <3>5 DEF Dispatches, Behind
      <4>2. \A i \in DOMAIN todo[m] : todo[m][i] \in Handlers
        <5>1. todo[m] \in Seq(Handlers)
          BY DEF BusInvariant, BusTypes
        <5> QED  BY <5>1, ElementFacts
      <4>3. \A i \in DOMAIN todo[m] : seen'[todo[m][i]] = seen[todo[m][i]]
        <5> TAKE i \in DOMAIN todo[m]
        <5>1. todo[m][i] \in Handlers /\ ChannelOf(todo[m][i]) # ChannelOf(l)
          BY <2>2, <4>1, <4>2
        <5> QED  BY <1>3, <5>1
      <4> HIDE DEF p
      <4>4. \A i \in DOMAIN todo'[m] : ChannelOf(todo'[m][i]) = ChannelOf(m) /\ SeenUpTo(todo[m][i], p - 1)'
        <5> TAKE i \in DOMAIN todo'[m]
        <5>1. i \in DOMAIN todo[m] /\ todo'[m][i] = todo[m][i]
          BY <3>1
        <5>2. /\ ChannelOf(todo[m][i]) = ChannelOf(m) /\ SeenUpTo(todo[m][i], p - 1)
              /\ seen'[todo[m][i]] = seen[todo[m][i]]
          BY <4>1, <4>3, <5>1
        <5> DEFINE g == todo[m][i]
        <5>3. g' = g
          BY <5>1
        <5> HIDE DEF g
        <5>4. SeenUpTo(g, p - 1) /\ seen'[g] = seen[g]
          BY <5>2 DEF g
        <5>5. SeenUpTo(g, p - 1)'
          BY <1>b, <3>3, <5>3, <5>4, SeenSame
        <5> QED  BY <5>1, <5>2, <5>5 DEF g
      <4>5. Behind(m, todo[m], p - 1)'
        BY <3>1, <4>1, <4>4 DEF Behind
      <4> QED  BY <1>b, <3>1, <3>3, <4>1, <4>5 DEF Dispatches, p
    <3> QED  BY <3>1, <3>2, <3>4, <3>5
  <2> QED  BY <2>1, <2>2
<1> QED  BY <1>4, <1>6, <1>7 DEF OrderInvariant


\* The message that is read is the next one of the channel.
LEMMA ReceiveOrder ==
    ASSUME BusInvariant, ReceivesTheEnd, NEW l \in Listeners, Receive(l)
    PROVE  /\ ReceivesTheEnd'
           /\ \A m \in Listeners : ChannelOf(m) # ChannelOf(l) => queue'[m] = queue[m]
           /\ connOf[l] = l =>
                 /\ Position(l) \in Nat /\ Position(l)' = Position(l) + 1
                 /\ Position(l) + 1 <= Len(published[ChannelOf(l)])
                 /\ Head(queue[l]) = published[ChannelOf(l)][Position(l) + 1]
<1>0. PICK k : k = connOf[l]
  OBVIOUS
<1> DEFINE c == ChannelOf(k)
           s == queue[k]
           p == Len(published[c])
           q == Len(s)
<1>1. /\ k \in Listeners /\ s \in Seq(Events) /\ s # <<>> /\ Open(k)
      /\ queue' = [queue EXCEPT ![k] = Tail(s)] /\ published' = published
      /\ \A m \in Listeners : Open(m)' = Open(m)
  BY <1>0, ReceiveBus DEF Receive, publisherVars
<1>2. ChannelOf(k) = ChannelOf(l)
  BY <1>0, ChannelNames DEF BusInvariant, ListenersApart
<1>3. queue \in [Listeners -> Seq(Events) \cup {None}]
  BY DEF BusInvariant, BusTypes
<1>4. queue'[k] = Tail(s) /\ \A m \in Listeners : m # k => queue'[m] = queue[m]
  <2> HIDE DEF s
  <2> QED  BY <1>1, <1>3
<1>5. /\ q <= p /\ p \in Nat /\ q \in Nat
      /\ \A i \in 1 .. q : s[i] = published[c][(p - q) + i]
  BY <1>1, OrderTypes DEF ReceivesTheEnd, Position
<1>6. /\ Head(s) = s[1] /\ q >= 1 /\ Len(Tail(s)) = q - 1
      /\ \A i \in 1 .. q - 1 : Tail(s)[i] = s[i + 1]
  <2> HIDE DEF s
  <2> QED  BY <1>1, TailFacts
<1>7. Position(k) = p - q /\ Position(k)' = p - (q - 1)
  <2>1. Len(queue'[k]) = q - 1 /\ published' = published
    BY <1>1, <1>4, <1>6
  <2> QED  BY <2>1 DEF Position
<1>8. /\ p - q \in Nat /\ p - (q - 1) = (p - q) + 1 /\ (p - q) + 1 <= p /\ q - 1 <= p
      /\ 1 \in 1 .. q
      /\ \A i \in 1 .. q - 1 : i + 1 \in 1 .. q /\ (p - q) + (i + 1) = (p - (q - 1)) + i
  <2> HIDE DEF p, q
  <2> QED  BY <1>5, <1>6
<1>9. \A i \in 1 .. q - 1 : Tail(s)[i] = published[c][(p - (q - 1)) + i]
  <2> HIDE DEF p, q, s, c
  <2> QED  BY <1>5, <1>6, <1>8
<1>10. ReceivesTheEnd'
  <2> SUFFICES ASSUME NEW m \in Listeners, Open(m)
               PROVE  /\ Len(queue'[m]) <= Len(published'[ChannelOf(m)])
                      /\ \A i \in 1 .. Len(queue'[m]) :
                            queue'[m][i] = published'[ChannelOf(m)][Position(m)' + i]
    BY <1>1 DEF ReceivesTheEnd
  <2>1. CASE m = k
    <3>1. Len(queue'[k]) = q - 1 /\ published' = published
      BY <1>1, <1>4, <1>6
    <3> QED  BY <1>4, <1>7, <1>8, <1>9, <2>1, <3>1
  <2>2. CASE m # k
    <3>1. queue'[m] = queue[m] /\ Position(m)' = Position(m)
      BY <1>1, <1>4, <2>2 DEF Position
    <3> QED  BY <1>1, <3>1 DEF ReceivesTheEnd
  <2> QED  BY <2>1, <2>2
<1>11. \A m \in Listeners : ChannelOf(m) # ChannelOf(l) => queue'[m] = queue[m]
  BY <1>2, <1>4
<1>12. ASSUME k = l
       PROVE  /\ Position(l) \in Nat /\ Position(l)' = Position(l) + 1
              /\ Position(l) + 1 <= Len(published[ChannelOf(l)])
              /\ Head(queue[l]) = published[ChannelOf(l)][Position(l) + 1]
  <2>1. Head(s) = published[c][(p - q) + 1]
    BY <1>5, <1>6, <1>8
  <2> QED  BY <1>7, <1>8, <1>12, <2>1
<1> QED  BY <1>0, <1>10, <1>11, <1>12

\* Of a channel that is not disputed, a listener reads its own connection.
LEMMA ReadsItsOwn ==
    ASSUME BusInvariant, OneReader, NEW l \in Listeners,
           ~Disputed(ChannelOf(l)), phase[l] = "in handler" \/ (phase[l] = "listening" /\ Open(connOf[l]))
    PROVE  connOf[l] = l /\ Open(l)
<1>1. CASE l \in ProjectListeners
  BY <1>1 DEF BusInvariant, ListenersApart, Connected
<1>2. CASE l \in GlobalListeners
  <2>1. ~raced /\ l \in GlobalListeners \cap Running
    BY <1>2, ChannelNames DEF Disputed, Running
  <2>2. connOf[l] = l \/ ~Open(connOf[l])
    BY <2>1 DEF OneReader, OneOfGlobal
  <2>3. phase[l] = "in handler" => connOf[l] = l /\ Open(l)
    BY <2>1 DEF OneReader, OneOfGlobal
  <2> QED  BY <2>2, <2>3
<1> QED  BY <1>1, <1>2, ChannelNames

\* Reading moves the position by one, and the handlers of this moment are one behind.
LEMMA OrderReceive ==
    ASSUME BusInvariant, OneReader, OrderInvariant, NEW l \in Listeners, Receive(l)
    PROVE  OrderInvariant'
<1>a. ReceivesTheEnd /\ CalledRight /\ InStep
  BY DEF OrderInvariant
<1> DEFINE k == connOf[l]
           c == ChannelOf(l)
           e == Head(queue[k])
           n == Position(l)'
<1>1. /\ phase[l] = "listening" /\ l \in Listeners \ cancelled /\ Open(k)
      /\ CallNext(l, e, handlers[c])
      /\ UNCHANGED <<published, cancelled, survivor, raced>>
  BY DEF Receive, publisherVars
<1>2. /\ e \in Events /\ handlers[c] \in Seq(Handlers)
      /\ \A m \in Listeners : Open(m)' = Open(m)
  BY ReceiveBus
<1>3. phase'[l] \in {"listening", "in handler"}
  BY <1>1, <1>2, CallNextTypes
<1>4. /\ c \in Channels
      /\ \A i \in DOMAIN handlers[c] : ChannelOf(handlers[c][i]) = c
      /\ \A i, j \in DOMAIN handlers[c] : handlers[c][i] = handlers[c][j] => i = j
  BY OrderTypes DEF BusInvariant, HandlersApart
<1>5. /\ ReceivesTheEnd'
      /\ \A m \in Listeners : ChannelOf(m) # c => queue'[m] = queue[m]
      /\ k = l => /\ Position(l) \in Nat /\ n = Position(l) + 1
                  /\ Position(l) + 1 <= Len(published[c])
                  /\ Head(queue[l]) = published[c][Position(l) + 1]
  BY <1>a, ReceiveOrder
<1>6. ASSUME ~Disputed(c)
      PROVE  /\ n \in Nat /\ n >= 1 /\ n <= Len(published[c])
             /\ e = published[c][n]
             /\ \A h \in Handlers : ChannelOf(h) = c => SeenUpTo(h, n)
             /\ Behind(l, handlers[c], n - 1)
  <2>1. k = l /\ Open(l)
    BY <1>1, <1>6, ReadsItsOwn
  <2>2. l \in Running \ cancelled
    BY <1>1 DEF Running
  <2>3. \A h \in Handlers : ChannelOf(h) = c => SeenUpTo(h, Position(l))
    BY <1>a, <1>6, <2>1, <2>2 DEF InStep, Follows
  <2> DEFINE p == Position(l)
  <2>4. /\ p \in Nat /\ n = p + 1 /\ p + 1 <= Len(published[c]) /\ e = published[c][p + 1]
    BY <1>5, <2>1
  <2>5. \A i \in DOMAIN handlers[c] : handlers[c][i] \in Handlers
    BY <1>2, ElementFacts
  <2> HIDE DEF p, n
  <2>6. n \in Nat /\ n >= 1 /\ n - 1 = p /\ p <= n
    BY <2>4
  <2>7. \A h \in Handlers : ChannelOf(h) = c => SeenUpTo(h, n)
    BY <2>3, <2>4, <2>6, SeenMore DEF p
  <2>8. Behind(l, handlers[c], n - 1)
    <3>1. \A i \in DOMAIN handlers[c] : ChannelOf(handlers[c][i]) = c /\ SeenUpTo(handlers[c][i], p)
      BY <1>4, <2>3, <2>5 DEF p
    <3> QED  BY <1>4, <2>6, <3>1 DEF Behind
  <2> QED  BY <2>4, <2>6, <2>7, <2>8
<1> HIDE DEF k, e, n
<1> QED  BY <1>1, <1>2, <1>3, <1>4, <1>5, <1>6, OrderDispatch DEF n

\* The next handler of those left is called with the same event.
LEMMA OrderReturns ==
    ASSUME BusInvariant, OneReader, OrderInvariant, NEW l \in Listeners, HandlerReturns(l)
    PROVE  OrderInvariant'
<1>a. ReceivesTheEnd /\ CalledRight /\ InStep /\ TodoApart
  BY DEF OrderInvariant
<1> DEFINE c == ChannelOf(l)
           n == Position(l)
<1>1. /\ phase[l] = "in handler" /\ l \in Listeners \ cancelled
      /\ CallNext(l, event[l], todo[l])
      /\ UNCHANGED <<published, cancelled, survivor, raced, queue>>
  BY DEF HandlerReturns, publisherVars
<1>2. event[l] \in Events /\ todo[l] \in Seq(Handlers)
  BY <1>1 DEF BusInvariant, BusTypes
<1>3. phase'[l] \in {"listening", "in handler"}
  BY <1>1, <1>2, CallNextTypes
<1>4. /\ \A m \in Listeners : Open(m)' = Open(m) /\ queue'[m] = queue[m] /\ Position(m)' = Position(m)
      /\ \A i \in DOMAIN todo[l] : ChannelOf(todo[l][i]) = c
  BY <1>a, <1>1 DEF Open, Position, TodoApart
<1>5. ReceivesTheEnd'
  BY <1>a, <1>1, <1>4 DEF ReceivesTheEnd
<1>6. ASSUME ~Disputed(c)
      PROVE  /\ n \in Nat /\ n >= 1 /\ n <= Len(published[c])
             /\ event[l] = published[c][n]
             /\ \A h \in Handlers : ChannelOf(h) = c => SeenUpTo(h, n)
             /\ Behind(l, todo[l], n - 1)
  <2>1. Open(l)
    BY <1>1, <1>6, ReadsItsOwn
  <2>2. l \in Running \ cancelled
    BY <1>1 DEF Running
  <2>3. Follows(l) /\ Dispatches(l)
    BY <1>a, <1>1, <1>6, <2>1, <2>2 DEF InStep
  <2>4. n \in Nat /\ n <= Len(published[c])
    BY <1>a, <2>1, PositionType
  <2> QED  BY <2>3, <2>4 DEF Follows, Dispatches
<1>7. n = Position(l)'
  BY <1>4
<1> HIDE DEF n
<1> QED  BY <1>1, <1>2, <1>3, <1>4, <1>5, <1>6, <1>7, OrderDispatch

LEMMA OrderNextKeeps ==
    BusInvariant /\ OneReader /\ OrderInvariant /\ [BusNext]_busVars => OrderInvariant'
<1> SUFFICES ASSUME BusInvariant, OneReader, OrderInvariant, [BusNext]_busVars PROVE OrderInvariant'
  OBVIOUS
<1>a. /\ phase \in [Listeners -> Phases] /\ cancelled \subseteq Running
      /\ queue \in [Listeners -> Seq(Events) \cup {None}]
      /\ Connected /\ ListenersApart
  BY DEF BusInvariant, BusTypes
<1>1. ASSUME UNCHANGED <<published, seen, event, todo, queue, phase>>,
             survivor => survivor', raced => raced', cancelled \subseteq cancelled'
      PROVE  OrderInvariant'
  <2>1. Running' = Running
    BY <1>1 DEF Running
  <2>2. \A m \in Listeners : queue'[m] = queue[m]
    BY <1>1
  <2>3. \A m \in Running' \ cancelled' : m \in Running \ cancelled /\ phase'[m] = phase[m]
    BY <1>1, <2>1
  <2> QED  BY <1>1, <2>2, <2>3, OrderFrame
<1>2. ASSUME NEW e \in Events, NEW c \in Channels, NEW from, NEW to, Broadcast(e, c, from, to)
      PROVE  OrderInvariant'
  BY <1>2, OrderBroadcast
\* A new listener.
<1>3. ASSUME NEW l \in Listeners, phase[l] = "unused", NEW ph, phase' = [phase EXCEPT ![l] = ph],
             UNCHANGED <<published, seen, event, todo, queue, cancelled, survivor, raced>>
      PROVE  OrderInvariant'
  <2>1. ~Open(l)' /\ \A m \in Listeners : queue'[m] = queue[m]
    BY <1>a, <1>3 DEF Connected, Open
  <2>2. ASSUME NEW m \in Running' \ cancelled', Open(m)'
        PROVE  m \in Running \ cancelled /\ phase'[m] = phase[m]
    BY <1>a, <1>3, <2>1, <2>2 DEF Running
  <2> QED  BY <1>3, <2>1, <2>2, OrderFrame
<1>4. ASSUME NEW h \in Handlers, Subscribe(h) PROVE OrderInvariant'
  <2>1. UNCHANGED <<published, seen, event, todo, queue, cancelled, survivor, raced>>
    BY <1>4 DEF Subscribe, publisherVars
  <2>2. CASE UNCHANGED <<phase, task>>
    BY <1>1, <2>1, <2>2
  <2>3. ASSUME NEW l \in Fresh(ProjectListeners), phase' = [phase EXCEPT ![l] = "starting"]
        PROVE  OrderInvariant'
    <3>1. l \in Listeners /\ phase[l] = "unused"
      BY ChannelNames DEF Fresh
    <3> QED  BY <1>3, <2>1, <2>3, <3>1
  <2> QED  BY <1>4, <2>2, <2>3 DEF Subscribe
<1>5. ASSUME NEW h \in Handlers, SubscribeAll(h) PROVE OrderInvariant'
  <2>1. UNCHANGED <<published, seen, event, todo, queue, cancelled, survivor, raced>>
    BY <1>5 DEF SubscribeAll, publisherVars
  <2>2. CASE UNCHANGED <<phase, globalPubsub>>
    BY <1>1, <2>1, <2>2
  <2>3. ASSUME NEW l \in Fresh(GlobalListeners), phase' = [phase EXCEPT ![l] = "connecting"]
        PROVE  OrderInvariant'
    <3>1. l \in Listeners /\ phase[l] = "unused"
      BY ChannelNames DEF Fresh
    <3> QED  BY <1>3, <2>1, <2>3, <3>1
  <2> QED  BY <1>5, <2>2, <2>3 DEF SubscribeAll
\* A listener that goes on to the next of its phases, with a connection that may be new.
<1>6. ASSUME NEW l \in Listeners, l \in Running, NEW ph \in {"starting", "listening"},
             phase' = [phase EXCEPT ![l] = ph],
             queue' = queue \/ queue' = [queue EXCEPT ![l] = <<>>],
             UNCHANGED <<published, seen, event, todo, cancelled, survivor>>, raced => raced'
      PROVE  OrderInvariant'
  <2>1. /\ phase'[l] # "in handler" /\ Running' = Running
        /\ \A m \in Listeners : m # l => phase'[m] = phase[m] /\ queue'[m] = queue[m]
        /\ queue'[l] = queue[l] \/ queue'[l] = <<>>
    BY <1>a, <1>6 DEF Running
  <2>2. \A m \in Listeners : queue'[m] = queue[m] \/ (queue'[m] = <<>> /\ phase'[m] # "in handler")
    BY <2>1
  <2>3. \A m \in Running' \ cancelled' :
           m \in Running \ cancelled /\ (phase'[m] = "in handler" => phase[m] = "in handler")
    BY <1>6, <2>1 DEF Running
  <2> QED  BY <1>6, <2>2, <2>3, OrderFrame
<1>7. ASSUME NEW l \in Listeners, CreateGlobalTask(l) PROVE OrderInvariant'
  BY <1>6, <1>7 DEF CreateGlobalTask, publisherVars, Running
<1>8. ASSUME NEW l \in Listeners, StartListening(l) PROVE OrderInvariant'
  BY <1>6, <1>8 DEF StartListening, publisherVars, Running
<1>9. ASSUME NEW l \in Listeners, Stops(l) \/ ConnectionFails(l) PROVE OrderInvariant'
  <2>1. l \in Running /\ EndListener(l)
    BY <1>9, <1>a DEF Stops, ConnectionFails, Running
  <2>2. UNCHANGED <<published, seen, event, todo, survivor, raced>>
    BY <2>1 DEF EndListener, publisherVars
  <2>3. /\ phase' = [phase EXCEPT ![l] = "done"] /\ cancelled' = cancelled \ {l}
        /\ \A m \in Listeners : queue'[m] = queue[m] \/ ~Open(m)'
    BY <2>1, EndBus
  <2>4. \A m \in Running' : m \in Running /\ m # l /\ phase'[m] = phase[m]
    BY <1>a, <2>3 DEF Running
  <2>5. \A m \in Listeners : Open(m)' => queue'[m] = queue[m]
    BY <2>3
  <2>6. \A m \in Running' \ cancelled' : m \in Running \ cancelled /\ phase'[m] = phase[m]
    BY <2>3, <2>4
  <2> QED  BY <2>2, <2>5, <2>6, OrderFrame
<1>10. CASE Unsubscribe
  BY <1>1, <1>10 DEF Unsubscribe, publisherVars
<1>11. CASE Exit
  BY <1>1, <1>11 DEF Exit, publisherVars
<1>12. ASSUME NEW l \in Listeners, UnsubscribeInHandler(l) PROVE OrderInvariant'
  BY <1>1, <1>12 DEF UnsubscribeInHandler, publisherVars, listenerVars
<1>13. CASE Publish
  <2>1. ASSUME NEW e \in Events, AddToHistory(e) \/ Trim(e) \/ PublishRaises(e) PROVE OrderInvariant'
    BY <1>1, <2>1 DEF AddToHistory, Trim, PublishRaises, listenerVars
  <2> QED  BY <1>2, <1>13, <2>1, ChannelNames DEF Publish, PublishProject, PublishGlobal
<1>14. CASE ClearHistory
  BY <1>1, <1>14 DEF ClearHistory, listenerVars
<1>15. CASE UNCHANGED busVars
  BY <1>1, <1>15 DEF busVars, publisherVars, listenerVars
<1> QED
  BY <1>4, <1>5, <1>7, <1>8, <1>9, <1>10, <1>11, <1>12, <1>13, <1>14, <1>15, OrderReceive, OrderReturns
     DEF BusNext, ListenerStep

\* A handler is called with the events of its channel in the order they were published,
\* each publication once, for every number of events, handlers and listeners, with failures
\* and cancellations at any step (_listen, _listen_global, _dispatch_to_handlers).
THEOREM AlwaysOnceInOrder == BusSpec => []OnceInOrder
<1>1. OrderInvariant => OnceInOrder
  <2> SUFFICES ASSUME CalledRight, NEW h \in Handlers,
                      ~(IF h \in ProjectHandlers THEN survivor ELSE raced)
               PROVE  InOrder(h)
    BY DEF OrderInvariant, OnceInOrder, InOrder
  <2>1. ~Disputed(ChannelOf(h))
    BY ChannelNames DEF Disputed
  <2> QED  BY <2>1 DEF CalledRight
<1>2. BusInit => BusInvariant /\ OneReader /\ OrderInvariant
  BY BusStarts, ReaderStarts, OrderStarts
<1>3. BusInvariant /\ OneReader /\ OrderInvariant /\ [BusNext]_busVars
      => (BusInvariant /\ OneReader /\ OrderInvariant)'
  BY BusNextKeeps, ReaderNextKeeps, OrderNextKeeps
<1> QED  BY <1>1, <1>2, <1>3, PTL DEF BusSpec

-----------------------------------------------------------------------------
(* An event is published once on each channel.                              *)

Occurs(e, s) == \E i \in DOMAIN s : s[i] = e

\* The progress of publish at which an event is still to go to the channel.
Ahead(c) == IF c = "project" THEN {"no"} ELSE {"no", "global"}

PublishedOnce ==
    \A c \in Channels :
        /\ \A i, j \in DOMAIN published[c] : published[c][i] = published[c][j] => i = j
        /\ \A e \in Events : publishing[e] \in Ahead(c) => ~Occurs(e, published[c])

LEMMA PublishedOnceStarts == BusInit => PublishedOnce
BY DEF BusInit, PublishedOnce, Occurs

\* publish goes to each channel once, also when it raises between them.
LEMMA PublishedOnceKeeps ==
    BusInvariant /\ HistoryInvariant /\ PublishedOnce /\ [BusNext]_busVars => PublishedOnce'
<1> SUFFICES ASSUME BusInvariant, HistoryInvariant, PublishedOnce, [BusNext]_busVars
             PROVE  PublishedOnce'
  OBVIOUS
<1>a. publishing \in [Events -> Progress] /\ published \in [Channels -> Seq(Events)]
  BY DEF HistoryInvariant, BusInvariant, BusTypes
<1>1. ASSUME published' = published,
             \A e \in Events : publishing'[e] \in {"no", "global"} => publishing'[e] = publishing[e]
      PROVE  PublishedOnce'
  BY <1>1 DEF PublishedOnce, Ahead
<1>2. ASSUME NEW e \in Events, NEW c \in Channels, NEW from, NEW to, Broadcast(e, c, from, to),
             from \in Ahead(c), to \notin Ahead(c),
             \A d \in Channels : d # c /\ to \in Ahead(d) => from \in Ahead(d)
      PROVE  PublishedOnce'
  <2>1. /\ publishing[e] = from /\ publishing' = [publishing EXCEPT ![e] = to]
        /\ published' = [published EXCEPT ![c] = Append(@, e)]
    BY <1>2 DEF Broadcast
  <2>2. SUFFICES ASSUME NEW d \in Channels
                 PROVE  /\ \A i, j \in DOMAIN published'[d] : published'[d][i] = published'[d][j] => i = j
                        /\ \A f \in Events : publishing'[f] \in Ahead(d) => ~Occurs(f, published'[d])
    BY DEF PublishedOnce, Ahead
  <2>3. /\ \A i, j \in DOMAIN published[d] : published[d][i] = published[d][j] => i = j
        /\ \A f \in Events : publishing[f] \in Ahead(d) => ~Occurs(f, published[d])
    BY DEF PublishedOnce
  <2>4. CASE d # c
    <3>1. published'[d] = published[d]
      BY <1>a, <2>1, <2>4
    <3>2. \A f \in Events : publishing'[f] \in Ahead(d) => publishing[f] \in Ahead(d)
      BY <1>a, <1>2, <2>1, <2>4
    <3> QED  BY <2>3, <3>1, <3>2
  <2>5. CASE d = c
    <3> DEFINE s == published[c]
               t == Append(s, e)
    <3>1. published'[d] = t /\ s \in Seq(Events)
      BY <1>a, <2>1, <2>5
    <3>2. /\ DOMAIN s = 1 .. Len(s) /\ DOMAIN t = 1 .. Len(s) + 1 /\ Len(s) \in Nat
          /\ \A i \in 1 .. Len(s) : t[i] = s[i]
          /\ t[Len(s) + 1] = e
      <4> HIDE DEF s
      <4> QED  BY <3>1, AppendFacts
    <3>3. ~Occurs(e, s)
      BY <1>2, <2>1, <2>3, <2>5
    <3>4. \A f \in Events : publishing'[f] \in Ahead(c) => f # e /\ ~Occurs(f, s)
      BY <1>a, <1>2, <2>1, <2>3, <2>5
    <3>5. \A i, j \in DOMAIN s : s[i] = s[j] => i = j
      BY <2>3, <2>5
    <3> HIDE DEF s, t
    <3>6. \A i \in 1 .. Len(s) + 1 : i \in 1 .. Len(s) \/ i = Len(s) + 1
      BY <3>2
    <3>7. \A i, j \in DOMAIN t : t[i] = t[j] => i = j
      BY <3>2, <3>3, <3>5, <3>6 DEF Occurs
    <3>8. \A f \in Events : publishing'[f] \in Ahead(c) => ~Occurs(f, t)
      BY <3>2, <3>4, <3>6 DEF Occurs
    <3> QED  BY <2>5, <3>1, <3>7, <3>8
  <2> QED  BY <2>4, <2>5
<1>3. CASE Publish
  <2> SUFFICES ASSUME NEW e \in Events,
                      \/ PublishProject(e) \/ PublishGlobal(e)
                      \/ AddToHistory(e) \/ Trim(e) \/ PublishRaises(e)
               PROVE  PublishedOnce'
    BY <1>3 DEF Publish
  <2>1. CASE PublishProject(e)
    BY <1>2, <2>1, ChannelNames DEF PublishProject, Ahead
  <2>2. CASE PublishGlobal(e)
    BY <1>2, <2>2, ChannelNames DEF PublishGlobal, Ahead
  <2>3. CASE AddToHistory(e) \/ Trim(e) \/ PublishRaises(e)
    BY <1>a, <1>1, <2>3 DEF AddToHistory, Trim, PublishRaises
  <2> QED  BY <2>1, <2>2, <2>3
<1>4. ASSUME UNCHANGED publisherVars PROVE PublishedOnce'
  BY <1>1, <1>4 DEF publisherVars
<1>5. CASE ClearHistory
  BY <1>1, <1>5 DEF ClearHistory
<1>6. ASSUME NEW h \in Handlers, Subscribe(h) \/ SubscribeAll(h) PROVE PublishedOnce'
  BY <1>4, <1>6 DEF Subscribe, SubscribeAll
<1>7. CASE Unsubscribe \/ Exit
  BY <1>4, <1>7 DEF Unsubscribe, Exit
<1>8. ASSUME NEW l \in Listeners,
             ListenerStep(l) \/ UnsubscribeInHandler(l) \/ Stops(l) \/ ConnectionFails(l)
      PROVE  PublishedOnce'
  BY <1>4, <1>8 DEF ListenerStep, CreateGlobalTask, StartListening, Receive, HandlerReturns,
                    UnsubscribeInHandler, Stops, ConnectionFails, EndListener
<1>9. CASE UNCHANGED busVars
  BY <1>4, <1>9 DEF busVars
<1> QED  BY <1>3, <1>5, <1>6, <1>7, <1>8, <1>9 DEF BusNext

NeverTwice ==
    \A h \in Handlers : ~Disputed(ChannelOf(h)) =>
        \A i, j \in DOMAIN seen[h] : seen[h][i] = seen[h][j] => i = j

\* Its events being distinct on the channel, the order makes no handler see one twice,
\* unless its channel is disputed (publish, _dispatch_to_handlers).
THEOREM CalledOnlyOnce == BusSpec => []NeverTwice
<1>1. BusInvariant /\ OrderInvariant /\ PublishedOnce => NeverTwice
  <2> SUFFICES ASSUME BusInvariant, CalledRight, PublishedOnce,
                      NEW h \in Handlers, ~Disputed(ChannelOf(h)),
                      NEW i \in DOMAIN seen[h], NEW j \in DOMAIN seen[h], seen[h][i] = seen[h][j], i # j
               PROVE  FALSE
    BY DEF OrderInvariant, NeverTwice
  <2>1. i \in Int /\ j \in Int
    <3>1. seen[h] \in Seq(Events)
      BY OrderTypes
    <3>2. \A k \in 1 .. Len(seen[h]) : k \in Int
      OBVIOUS
    <3> QED  BY <3>1, <3>2, ElementFacts
  <2>2. InOrder(h) /\ ChannelOf(h) \in Channels
    BY OrderTypes DEF CalledRight
  <2>3. Before(seen[h][i], seen[h][j], published[ChannelOf(h)])
    <3>1. i < j \/ j < i
      BY <2>1
    <3> QED  BY <2>2, <3>1 DEF InOrder
  <2>4. PICK a, b \in DOMAIN published[ChannelOf(h)] :
            a < b /\ published[ChannelOf(h)][a] = published[ChannelOf(h)][b]
    BY <2>3 DEF Before
  <2>5. a = b
    BY <2>2, <2>4 DEF PublishedOnce
  <2>6. a \in Int
    <3>1. published[ChannelOf(h)] \in Seq(Events)
      BY <2>2 DEF BusInvariant, BusTypes
    <3>2. \A k \in 1 .. Len(published[ChannelOf(h)]) : k \in Int
      OBVIOUS
    <3> QED  BY <3>1, <3>2, ElementFacts
  <2> QED  BY <2>4, <2>5, <2>6
<1>2. BusInit => BusInvariant /\ OneReader /\ OrderInvariant /\ HistoryInvariant /\ PublishedOnce
  BY BusStarts, ReaderStarts, OrderStarts, HistoryInit, PublishedOnceStarts
<1>3. BusInvariant /\ OneReader /\ OrderInvariant /\ HistoryInvariant /\ PublishedOnce /\ [BusNext]_busVars
      => (BusInvariant /\ OneReader /\ OrderInvariant /\ HistoryInvariant /\ PublishedOnce)'
  BY BusNextKeeps, ReaderNextKeeps, OrderNextKeeps, HistoryNext, PublishedOnceKeeps
<1> QED  BY <1>1, <1>2, <1>3, PTL DEF BusSpec
==============================================================================
