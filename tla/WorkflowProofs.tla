---------------------------- MODULE WorkflowProofs ----------------------------
(***************************************************************************)
(* Proofs, for every task graph and any number of listeners and requests,  *)
(* of the properties of WorkflowProperties that hold whatever interleaves, *)
(* and then of those that hold in the quiet regime, where the request is   *)
(* over before a worker answers.  The lemmas take the parts of Inv, and of *)
(* QuietInv, one after the other, with one step per action in each.        *)
(***************************************************************************)
EXTENDS WorkflowInvariant, TLAPS

\* Facts about the definitions.

LEMMA TransitionsType ==
    \A p \in Phases : PHASE_TRANSITIONS[p] \in Phases \cup {NoPhase}
BY DEF Phases, PHASE_TRANSITIONS, NoPhase

LEMMA PhaseNames == "execution" \in Phases /\ "intent" \in Phases
BY DEF Phases

LEMMA BlankType == Blank \in Lists
BY DEF Blank, Lists

LEMMA MoveToType ==
    ASSUME NEW l \in Lists, NEW t \in Tasks, NEW n \in ListNames
    PROVE  MoveTo(l, t, n) \in Lists
BY DEF MoveTo, Lists

LEMMA MarkType ==
    ASSUME NEW l \in Lists, NEW t \in Tasks
    PROVE  /\ MarkRunning(l, t) \in Lists
           /\ MarkCompleted(l, t) \in Lists
           /\ MarkFailed(l, t) \in Lists
           /\ MarkBlocked(l, t) \in Lists
BY MoveToType DEF MarkRunning, MarkCompleted, MarkFailed, MarkBlocked, ListNames

\* The event that a failed task's handler publishes is one of the bus.
LEMMA FailureEventType == \A t \in Tasks : <<"task_failed", t>> \in BusEvents
BY DEF BusEvents

LEMMA PhaseEventType == \A p \in Phases : <<"phase_completed", p>> \in BusEvents
BY DEF BusEvents

\* The two kinds of event are never confused.
LEMMA KindsDiffer == \A a, b : <<"task_failed", a>> # <<"phase_completed", b>>
OBVIOUS

\* Every step preserves the types.
LEMMA TypeStep ==
    ASSUME TypeOK, \A c \in Coros : Justified(c), [Next]_vars
    PROVE  TypeOK'
<1> USE TransitionsType, PhaseNames, BlankType
    DEF Lists, Labels, RedisCalls, OpNames, Outcomes
<1> USE DEF TypeOK, redis, locals, env, errors, hist, bounds
<1>1. ASSUME NEW c \in Coros, OnTaskCompleted(c) PROVE TypeOK'
  BY <1>1 DEF OnTaskCompleted, LoadLists, Goto
<1>2. ASSUME NEW c \in Coros, OnTaskFailed(c) PROVE TypeOK'
  BY <1>2 DEF OnTaskFailed, Goto
<1>3. ASSUME NEW c \in Coros, StartWorkflow(c) PROVE TypeOK'
  <2>1. op' \in [Coros -> OpNames] /\ pc' \in [Coros -> Labels]
    BY <1>3 DEF StartWorkflow, Request, Goto
  <2>2. UNCHANGED <<cur, snap, todo, seenPhase, redeliveries, raises, echoes>>
      /\ apiCalls' \in Nat
    BY <1>3 DEF StartWorkflow, Request
  <2> QED
    BY <1>3, <2>1, <2>2 DEF StartWorkflow, TtlAfterHset
<1>4. ASSUME NEW c \in Coros, PauseWorkflow(c) PROVE TypeOK'
  BY <1>4 DEF PauseWorkflow, Request
<1>5. ASSUME NEW c \in Coros, ResumeWorkflow(c) PROVE TypeOK'
  <2>1. op' \in [Coros -> OpNames] /\ pc' \in [Coros -> Labels]
    BY <1>5 DEF ResumeWorkflow, Request, Goto
  <2>2. UNCHANGED <<cur, snap, todo, seenPhase, redeliveries, raises, echoes>>
      /\ apiCalls' \in Nat
    BY <1>5 DEF ResumeWorkflow, Request
  <2> QED
    BY <1>5, <2>1, <2>2 DEF ResumeWorkflow
<1>6. ASSUME NEW c \in Coros, AbortWorkflow(c) PROVE TypeOK'
  <2>1. op' \in [Coros -> OpNames] /\ pc' \in [Coros -> Labels]
    BY <1>6 DEF AbortWorkflow, Request, Goto
  <2>2. UNCHANGED <<cur, snap, todo, seenPhase, redeliveries, raises, echoes>>
      /\ apiCalls' \in Nat
    BY <1>6 DEF AbortWorkflow, Request
  <2> QED
    BY <1>6, <2>1, <2>2 DEF AbortWorkflow
<1>7. ASSUME NEW c \in Coros, SaveCompleted(c) PROVE TypeOK'
  <2>1. lists' \in Lists
    BY <1>7, MarkType DEF SaveCompleted, SaveLists, Justified
  <2>2. pc' \in [Coros -> Labels]
    BY <1>7 DEF SaveCompleted, Goto
  <2> QED
    BY <1>7, <2>1, <2>2 DEF SaveCompleted, SaveLists, TtlAfterHset
<1>8. ASSUME NEW c \in Coros, CheckPaused(c) PROVE TypeOK'
  BY <1>8 DEF CheckPaused, Goto
<1>9. ASSUME NEW c \in Coros, CheckPhase(c) PROVE TypeOK'
  BY <1>9 DEF CheckPhase, Goto
<1>10. ASSUME NEW c \in Coros, AdvancePhase(c) PROVE TypeOK'
  BY <1>10 DEF AdvancePhase, TtlAfterHset, Goto, Justified
<1>11. ASSUME NEW c \in Coros, PublishPhase(c) PROVE TypeOK'
  BY <1>11, PhaseEventType DEF PublishPhase, Goto
<1>12. ASSUME NEW c \in Coros, PublishFailure(c) PROVE TypeOK'
  <2>1. cur[c] \in Tasks /\ published' \in SUBSET BusEvents
    BY <1>12, FailureEventType DEF PublishFailure, Justified
  <2>2. PICK n \in 0 .. 2 : /\ echoes' = echoes + n
                            /\ events' = [events EXCEPT !["failed"][cur[c]] = @ + n]
    BY <1>12 DEF PublishFailure
  <2>3. events' \in [Outcomes -> [Tasks -> Nat]] /\ echoes' \in Nat
    BY <2>1, <2>2
  <2>4. pc' \in [Coros -> Labels]
    BY <1>12 DEF PublishFailure, Goto
  <2> QED
    BY <1>12, <2>1, <2>3, <2>4 DEF PublishFailure
<1>13. ASSUME NEW c \in Coros, LoadFailed(c) PROVE TypeOK'
  BY <1>13 DEF LoadFailed, LoadLists, Goto
<1>14. ASSUME NEW c \in Coros, SaveFailed(c) PROVE TypeOK'
  BY <1>14, MarkType DEF SaveFailed, SaveLists, TtlAfterHset, Goto, Blocking,
     Justified
<1>15. ASSUME NEW c \in Coros, LoadBlocked(c) PROVE TypeOK'
  BY <1>15 DEF LoadBlocked, LoadLists, Goto
<1>16. ASSUME NEW c \in Coros, SaveBlocked(c) PROVE TypeOK'
  BY <1>16, MarkType DEF SaveBlocked, SaveLists, TtlAfterHset, Goto, Justified
<1>17. ASSUME NEW c \in Coros, LoadState(c) PROVE TypeOK'
  BY <1>17 DEF LoadState, Goto
<1>18. ASSUME NEW c \in Coros, GetReadyTasks(c) PROVE TypeOK'
  BY <1>18 DEF GetReadyTasks, Goto, DispatchNext, Ready
<1>19. ASSUME NEW c \in Coros, DispatchTask(c) PROVE TypeOK'
  BY <1>19 DEF DispatchTask, Goto
<1>20. ASSUME NEW c \in Coros, DispatchFails(c) PROVE TypeOK'
  BY <1>20 DEF DispatchFails, Goto, DispatchNext
<1>21. ASSUME NEW c \in Coros, LoadRunning(c) PROVE TypeOK'
  BY <1>21 DEF LoadRunning, LoadLists, Goto
<1>22. ASSUME NEW c \in Coros, SaveRunning(c) PROVE TypeOK'
  BY <1>22, MarkType DEF SaveRunning, SaveLists, TtlAfterHset, Goto,
     DispatchNext, Justified
<1>23. ASSUME NEW c \in Coros, SetExpiry(c) PROVE TypeOK'
  BY <1>23 DEF SetExpiry, Goto
<1>24. ASSUME NEW c \in Coros, SetExecutionPhase(c) PROVE TypeOK'
  BY <1>24 DEF SetExecutionPhase, TtlAfterHset, Goto
<1>25. ASSUME NEW c \in Coros, GatherDispatch(c) PROVE TypeOK'
  BY <1>25 DEF GatherDispatch, Goto, DispatchNext
<1>26. ASSUME NEW c \in Coros, StartLoadRunning(c) PROVE TypeOK'
  BY <1>26 DEF StartLoadRunning, LoadLists, Goto
<1>27. ASSUME NEW c \in Coros, CleanupState(c) PROVE TypeOK'
  BY <1>27 DEF CleanupState, Forget, Goto
<1>28. ASSUME NEW t \in Tasks, NEW k \in Outcomes, WorkerDone(t, k) PROVE TypeOK'
  BY <1>28 DEF WorkerDone, WorkerOutcome
<1>29. ASSUME NEW t \in Tasks, NEW k \in Outcomes, WorkerRedelivered(t, k) PROVE TypeOK'
  BY <1>29 DEF WorkerRedelivered, WorkerOutcome
<1>30. CASE Expire
  BY <1>30 DEF Expire, Forget
<1>31. CASE Housekeep
  BY <1>31 DEF Housekeep
<1>32. CASE Crash
  <2>1. pc' \in [Coros -> Labels]
    BY <1>32 DEF Crash
  <2>2. apiCalls' \in Nat
    BY <1>32 DEF Crash
  <2> QED
    BY <1>32, <2>1, <2>2 DEF Crash
<1>33. CASE UNCHANGED vars
  BY <1>33 DEF vars
<1>34. ASSUME NEW c \in Coros, SaveArtifacts(c) PROVE TypeOK'
  BY <1>34 DEF SaveArtifacts, TtlAfterHset, Goto
<1>35. ASSUME NEW c \in Coros, SaveError(c) PROVE TypeOK'
  BY <1>35 DEF SaveError, TtlAfterHset, Goto, Blocking
<1>36. ASSUME NEW c \in Coros, CallRaises(c) PROVE TypeOK'
  <2>1. pc' \in [Coros -> Labels]
    BY <1>36 DEF CallRaises, Goto, DispatchNext
  <2>2. unmarked' \in [Tasks -> Nat] /\ raises' \in Nat
    BY <1>36 DEF CallRaises
  <2> QED
    BY <1>36, <2>1, <2>2 DEF CallRaises
<1> HIDE DEF TypeOK, Lists, Labels, RedisCalls, OpNames, Outcomes
<1> QED
  BY <1>1, <1>2, <1>3, <1>4, <1>5, <1>6, <1>7, <1>8, <1>9, <1>10, <1>11, <1>12,
     <1>13, <1>14, <1>15, <1>16, <1>17, <1>18, <1>19, <1>20, <1>21, <1>22,
     <1>23, <1>24, <1>25, <1>26, <1>27, <1>28, <1>29, <1>30, <1>31, <1>32,
     <1>33, <1>34, <1>35, <1>36 DEF Next, Handle, Control, Resumed, CompletedHandler, FailedHandler,
     DispatchLoop, StartSteps, Worker

-----------------------------------------------------------------------------
(* What is true stays true.                                                 *)

Grows == /\ succeeded \subseteq succeeded'
         /\ everFailed \subseteq everFailed'
         /\ published \subseteq published'

\* The history only grows.
LEMMA GrowsStep ==
    ASSUME TypeOK, [Next]_vars
    PROVE  Grows
<1> USE DEF Grows, errors, hist
<1>1. ASSUME NEW c \in Coros, OnTaskCompleted(c) \/ OnTaskFailed(c) \/ StartWorkflow(c) \/
             PauseWorkflow(c) \/ ResumeWorkflow(c) \/ AbortWorkflow(c) \/ SaveCompleted(c) \/
             SaveArtifacts(c) \/ SaveError(c) \/ CallRaises(c) \/ CheckPaused(c) \/
             CheckPhase(c) \/ AdvancePhase(c) \/ PublishPhase(c) \/ PublishFailure(c) \/
             LoadFailed(c) \/ SaveFailed(c) \/ LoadBlocked(c) \/ SaveBlocked(c) \/ LoadState(c)
             \/ GetReadyTasks(c) \/ DispatchTask(c) \/ DispatchFails(c) \/ LoadRunning(c) \/
             SaveRunning(c) \/ SetExpiry(c) \/ SetExecutionPhase(c) \/ GatherDispatch(c) \/
             StartLoadRunning(c) \/ CleanupState(c)
      PROVE  Grows
  BY <1>1 DEF OnTaskCompleted, OnTaskFailed, StartWorkflow, PauseWorkflow, ResumeWorkflow,
     AbortWorkflow, SaveCompleted, SaveArtifacts, SaveError, CallRaises, CheckPaused,
     CheckPhase, AdvancePhase, PublishPhase, PublishFailure, LoadFailed, SaveFailed,
     LoadBlocked, SaveBlocked, LoadState, GetReadyTasks, DispatchTask, DispatchFails,
     LoadRunning, SaveRunning, SetExpiry, SetExecutionPhase, GatherDispatch, StartLoadRunning,
     CleanupState
<1>2. ASSUME NEW t \in Tasks, NEW k \in Outcomes,
             WorkerDone(t, k) \/ WorkerRedelivered(t, k)
      PROVE  Grows
  BY <1>2 DEF WorkerDone, WorkerRedelivered, WorkerOutcome
<1>3. CASE Expire \/ Housekeep \/ Crash \/ UNCHANGED vars
  BY <1>3 DEF Expire, Housekeep, Crash, vars
<1> QED
  BY <1>1, <1>2, <1>3 DEF Next, Handle, Control, Resumed, CompletedHandler,
     FailedHandler, DispatchLoop, StartSteps, Worker

\* The list updates keep a value truthful, each for its own reason.
LEMMA MarkTruthful ==
    ASSUME NEW l \in Lists, NEW t \in Tasks, Truthful(l)
    PROVE  /\ Truthful(MarkRunning(l, t))
           /\ t \in succeeded => Truthful(MarkCompleted(l, t))
           /\ t \in everFailed /\ Announced(t) => Truthful(MarkFailed(l, t))
           /\ Doomed(t) => Truthful(MarkBlocked(l, t))
BY DEF Truthful, OneList, MoveTo, ListNames, Lists, MarkRunning, MarkCompleted,
       MarkFailed, MarkBlocked

LEMMA BlankTruthful == Truthful(Blank)
BY DEF Truthful, OneList, Blank, ListNames

Truth == Truthful(lists) /\ \A c \in Coros : Truthful(snap[c])

\* Every step keeps what Redis and the coroutines hold truthful.
LEMMA TruthStep ==
    ASSUME TypeOK, Truth, \A c \in Coros : Justified(c), Grows, [Next]_vars
    PROVE  Truth'
<1> USE DEF Truth, Grows, redis, locals, env, errors, hist, bounds
<1>1. ASSUME NEW c \in Coros, OnTaskCompleted(c) \/ LoadFailed(c) \/
             LoadBlocked(c) \/ LoadRunning(c) \/ StartLoadRunning(c)
      PROVE  Truth'
  BY <1>1, TypeOK DEF OnTaskCompleted, LoadFailed, LoadBlocked, LoadRunning,
     StartLoadRunning, LoadLists, Goto, TypeOK, Truthful, Announced, Doomed
<1>2. ASSUME NEW c \in Coros, SaveCompleted(c) PROVE Truth'
  <2>1. snap[c] \in Lists /\ cur[c] \in Tasks /\ Truthful(snap[c])
    BY <1>2 DEF SaveCompleted, TypeOK, Justified
  <2>2. Truthful(MarkCompleted(snap[c], cur[c]))
    BY <1>2, <2>1, MarkTruthful DEF SaveCompleted, Justified
  <2>3. /\ lists' = MarkCompleted(snap[c], cur[c])
        /\ snap' = [snap EXCEPT ![c] = Blank] /\ UNCHANGED hist
    BY <1>2 DEF SaveCompleted, SaveLists
  <2> QED
    BY <2>2, <2>3, BlankTruthful DEF TypeOK, Truthful, Announced, Doomed
<1>3. ASSUME NEW c \in Coros, SaveFailed(c) PROVE Truth'
  <2>1. snap[c] \in Lists /\ cur[c] \in Tasks /\ Truthful(snap[c])
    BY <1>3 DEF SaveFailed, TypeOK, Justified
  <2>2. Truthful(MarkFailed(snap[c], cur[c]))
    BY <1>3, <2>1, MarkTruthful DEF SaveFailed, Justified
  <2>3. /\ lists' = MarkFailed(snap[c], cur[c])
        /\ snap' = [snap EXCEPT ![c] = Blank] /\ UNCHANGED hist
    BY <1>3 DEF SaveFailed, SaveLists
  <2> QED
    BY <2>2, <2>3, BlankTruthful DEF TypeOK, Truthful, Announced, Doomed
<1>4. ASSUME NEW c \in Coros, SaveBlocked(c) PROVE Truth'
  <2>1. snap[c] \in Lists /\ cur[c] \in Tasks /\ Truthful(snap[c])
    BY <1>4 DEF SaveBlocked, TypeOK, Justified
  <2>2. Truthful(MarkBlocked(snap[c], cur[c]))
    BY <1>4, <2>1, MarkTruthful DEF SaveBlocked, Justified
  <2>3. /\ lists' = MarkBlocked(snap[c], cur[c])
        /\ snap' = [snap EXCEPT ![c] = Blank] /\ UNCHANGED hist
    BY <1>4 DEF SaveBlocked, SaveLists
  <2> QED
    BY <2>2, <2>3, BlankTruthful DEF TypeOK, Truthful, Announced, Doomed
<1>5. ASSUME NEW c \in Coros, SaveRunning(c) PROVE Truth'
  <2>1. snap[c] \in Lists /\ cur[c] \in Tasks /\ Truthful(snap[c])
    BY <1>5 DEF SaveRunning, TypeOK, Justified
  <2>2. Truthful(MarkRunning(snap[c], cur[c]))
    BY <1>5, <2>1, MarkTruthful DEF SaveRunning, Justified
  <2>3. /\ lists' = MarkRunning(snap[c], cur[c])
        /\ snap' = [snap EXCEPT ![c] = Blank] /\ UNCHANGED hist
    BY <1>5 DEF SaveRunning, SaveLists
  <2> QED
    BY <2>2, <2>3, BlankTruthful DEF TypeOK, Truthful, Announced, Doomed
<1>6. ASSUME NEW c \in Coros, StartWorkflow(c) \/ CleanupState(c) PROVE Truth'
  BY <1>6, BlankTruthful DEF StartWorkflow, CleanupState, Request,
     TtlAfterHset, Goto, Forget, Truthful, Announced, Doomed
<1>7. CASE Expire
  BY <1>7, BlankTruthful DEF Expire, Forget, Truthful, Announced, Doomed
<1>8. ASSUME NEW c \in Coros, OnTaskFailed(c) \/ PauseWorkflow(c) \/
             ResumeWorkflow(c) \/ AbortWorkflow(c) \/ SaveArtifacts(c) \/
             SaveError(c) \/ CallRaises(c) \/ CheckPaused(c) \/
             CheckPhase(c) \/ AdvancePhase(c) \/ PublishPhase(c) \/
             PublishFailure(c) \/ LoadState(c) \/ GetReadyTasks(c) \/
             DispatchTask(c) \/ DispatchFails(c) \/ SetExpiry(c) \/
             SetExecutionPhase(c) \/ GatherDispatch(c)
      PROVE  Truth'
  BY <1>8 DEF OnTaskFailed, PauseWorkflow, ResumeWorkflow, AbortWorkflow, SaveArtifacts,
     SaveError, CallRaises, CheckPaused, CheckPhase, AdvancePhase, PublishPhase, PublishFailure,
     LoadState, GetReadyTasks, DispatchTask, DispatchFails, SetExpiry, SetExecutionPhase,
     GatherDispatch, Goto, Request, TtlAfterHset, DispatchNext, Ready, Truthful, Announced,
     Doomed
<1>9. ASSUME NEW t \in Tasks, NEW k \in Outcomes,
             WorkerDone(t, k) \/ WorkerRedelivered(t, k)
      PROVE  Truth'
  BY <1>9 DEF WorkerDone, WorkerRedelivered, WorkerOutcome, Truthful,
     Announced, Doomed
<1>10. CASE Housekeep \/ Crash \/ UNCHANGED vars
  BY <1>10 DEF Housekeep, Crash, vars, Truthful, Announced, Doomed
<1> QED
  BY <1>1, <1>2, <1>3, <1>4, <1>5, <1>6, <1>7, <1>8, <1>9, <1>10 DEF Next,
     Handle, Control, Resumed, CompletedHandler, FailedHandler, DispatchLoop,
     StartSteps, Worker

-----------------------------------------------------------------------------
(* Messages, outcomes and what was sent.                                    *)

\* Every step keeps messages and events accounted for.
LEMMA OutcomesStep ==
    ASSUME TypeOK, OutcomesReal, \A c \in Coros : Justified(c), Grows, [Next]_vars
    PROVE  OutcomesReal'
<1> USE DEF TypeOK, redis, locals, env, errors, hist, bounds, Outcomes
<1>1. ASSUME NEW c \in Coros, OnTaskCompleted(c) PROVE OutcomesReal'
  BY <1>1 DEF OnTaskCompleted, OutcomesReal
<1>2. ASSUME NEW c \in Coros, OnTaskFailed(c) PROVE OutcomesReal'
  BY <1>2 DEF OnTaskFailed, OutcomesReal
<1>3. ASSUME NEW c \in Coros, DispatchTask(c) PROVE OutcomesReal'
  BY <1>3 DEF DispatchTask, OutcomesReal
<1>4. ASSUME NEW c \in Coros, GatherDispatch(c) PROVE OutcomesReal'
  BY <1>4 DEF GatherDispatch, OutcomesReal
<1>5. ASSUME NEW c \in Coros, StartWorkflow(c) \/ PauseWorkflow(c) \/
             ResumeWorkflow(c) \/ AbortWorkflow(c) \/ SaveCompleted(c) \/ SaveArtifacts(c) \/
             SaveError(c) \/ CallRaises(c) \/
             CheckPaused(c) \/ CheckPhase(c) \/ AdvancePhase(c) \/
             PublishPhase(c) \/ LoadFailed(c) \/
             SaveFailed(c) \/ LoadBlocked(c) \/ SaveBlocked(c) \/ LoadState(c)
             \/ GetReadyTasks(c) \/ DispatchFails(c) \/ LoadRunning(c) \/
             SaveRunning(c) \/ SetExpiry(c) \/ SetExecutionPhase(c) \/
             StartLoadRunning(c) \/ CleanupState(c)
      PROVE  OutcomesReal'
  BY <1>5 DEF StartWorkflow, PauseWorkflow, ResumeWorkflow, AbortWorkflow, SaveCompleted,
     SaveArtifacts, SaveError, CallRaises, CheckPaused, CheckPhase, AdvancePhase, PublishPhase,
     LoadFailed, SaveFailed, LoadBlocked, SaveBlocked, LoadState, GetReadyTasks, DispatchFails,
     LoadRunning, SaveRunning, SetExpiry, SetExecutionPhase, StartLoadRunning, CleanupState,
     OutcomesReal
<1>6. ASSUME NEW t \in Tasks, NEW k \in Outcomes,
             WorkerDone(t, k) \/ WorkerRedelivered(t, k)
      PROVE  OutcomesReal'
  BY <1>6 DEF WorkerDone, WorkerRedelivered, WorkerOutcome, OutcomesReal
<1>7. CASE Expire \/ Housekeep \/ Crash \/ UNCHANGED vars
  BY <1>7 DEF Expire, Housekeep, Crash, vars, OutcomesReal
<1>8. ASSUME NEW c \in Coros, PublishFailure(c) PROVE OutcomesReal'
  <2>1. cur[c] \in everFailed
    BY <1>8 DEF PublishFailure, Justified
  <2> QED
    BY <1>8, <2>1 DEF PublishFailure, OutcomesReal
<1> HIDE DEF TypeOK, redis, locals, env, errors, hist, bounds, Outcomes
<1> QED
  BY <1>1, <1>2, <1>3, <1>4, <1>5, <1>6, <1>7, <1>8 DEF Next, Handle, Control,
     Resumed, CompletedHandler, FailedHandler, DispatchLoop, StartSteps, Worker

\* What a step sends has its dependencies behind it.
LEMMA DependenciesStep ==
    ASSUME TypeOK, DependenciesFirst, \A c \in Coros : Justified(c), Grows, [Next]_vars
    PROVE  DependenciesFirst'
<1> USE DEF TypeOK, Grows, errors, hist, env
<1>1. ASSUME NEW c \in Coros, DispatchTask(c) PROVE DependenciesFirst'
  BY <1>1 DEF DispatchTask, DependenciesFirst, Justified, Enabled
<1>2. ASSUME NEW c \in Coros, GatherDispatch(c) PROVE DependenciesFirst'
  BY <1>2 DEF GatherDispatch, DependenciesFirst, Justified, Enabled
<1>3. ASSUME NEW c \in Coros, OnTaskCompleted(c) \/ OnTaskFailed(c) \/ StartWorkflow(c) \/
             PauseWorkflow(c) \/ ResumeWorkflow(c) \/ AbortWorkflow(c) \/ SaveCompleted(c) \/
             SaveArtifacts(c) \/ SaveError(c) \/ CallRaises(c) \/ CheckPaused(c) \/
             CheckPhase(c) \/ AdvancePhase(c) \/ PublishPhase(c) \/ PublishFailure(c) \/
             LoadFailed(c) \/ SaveFailed(c) \/ LoadBlocked(c) \/ SaveBlocked(c) \/ LoadState(c)
             \/ GetReadyTasks(c) \/ DispatchFails(c) \/ LoadRunning(c) \/ SaveRunning(c) \/
             SetExpiry(c) \/ SetExecutionPhase(c) \/ StartLoadRunning(c) \/ CleanupState(c)
      PROVE  DependenciesFirst'
  BY <1>3 DEF OnTaskCompleted, OnTaskFailed, StartWorkflow, PauseWorkflow, ResumeWorkflow,
     AbortWorkflow, SaveCompleted, SaveArtifacts, SaveError, CallRaises, CheckPaused,
     CheckPhase, AdvancePhase, PublishPhase, PublishFailure, LoadFailed, SaveFailed,
     LoadBlocked, SaveBlocked, LoadState, GetReadyTasks, DispatchFails, LoadRunning,
     SaveRunning, SetExpiry, SetExecutionPhase, StartLoadRunning, CleanupState,
     DependenciesFirst
<1>4. ASSUME NEW t \in Tasks, NEW k \in Outcomes,
             WorkerDone(t, k) \/ WorkerRedelivered(t, k)
      PROVE  DependenciesFirst'
  BY <1>4 DEF WorkerDone, WorkerRedelivered, WorkerOutcome, DependenciesFirst
<1>5. CASE Expire \/ Housekeep \/ Crash \/ UNCHANGED vars
  BY <1>5 DEF Expire, Housekeep, Crash, vars, DependenciesFirst
<1> HIDE DEF TypeOK
<1> QED
  BY <1>1, <1>2, <1>3, <1>4, <1>5 DEF Next, Handle, Control, Resumed,
     CompletedHandler, FailedHandler, DispatchLoop, StartSteps, Worker

\* A phase that a step announces is settled, and stays so.
LEMMA PhaseEventStep ==
    ASSUME TypeOK, PhaseEventSound, \A c \in Coros : Justified(c), Grows, [Next]_vars
    PROVE  PhaseEventSound'
<1> USE DEF Grows, errors, hist, Settled, PhaseEventSound
<1>1. ASSUME NEW c \in Coros, PublishPhase(c) PROVE PhaseEventSound'
  BY <1>1 DEF PublishPhase, TypeOK, Justified
<1>2. ASSUME NEW c \in Coros, PublishFailure(c) PROVE PhaseEventSound'
  BY <1>2, KindsDiffer DEF PublishFailure
<1>3. ASSUME NEW c \in Coros, OnTaskCompleted(c) \/ OnTaskFailed(c) \/ StartWorkflow(c) \/
             PauseWorkflow(c) \/ ResumeWorkflow(c) \/ AbortWorkflow(c) \/ SaveCompleted(c) \/
             SaveArtifacts(c) \/ SaveError(c) \/ CallRaises(c) \/ CheckPaused(c) \/
             CheckPhase(c) \/ AdvancePhase(c) \/ LoadFailed(c) \/ SaveFailed(c) \/
             LoadBlocked(c) \/ SaveBlocked(c) \/ LoadState(c) \/ GetReadyTasks(c) \/
             DispatchTask(c) \/ DispatchFails(c) \/ LoadRunning(c) \/ SaveRunning(c) \/
             SetExpiry(c) \/ SetExecutionPhase(c) \/ GatherDispatch(c) \/ StartLoadRunning(c) \/
             CleanupState(c)
      PROVE  PhaseEventSound'
  BY <1>3 DEF OnTaskCompleted, OnTaskFailed, StartWorkflow, PauseWorkflow, ResumeWorkflow,
     AbortWorkflow, SaveCompleted, SaveArtifacts, SaveError, CallRaises, CheckPaused,
     CheckPhase, AdvancePhase, LoadFailed, SaveFailed, LoadBlocked, SaveBlocked, LoadState,
     GetReadyTasks, DispatchTask, DispatchFails, LoadRunning, SaveRunning, SetExpiry,
     SetExecutionPhase, GatherDispatch, StartLoadRunning, CleanupState
<1>4. ASSUME NEW t \in Tasks, NEW k \in Outcomes,
             WorkerDone(t, k) \/ WorkerRedelivered(t, k)
      PROVE  PhaseEventSound'
  BY <1>4 DEF WorkerDone, WorkerRedelivered, WorkerOutcome
<1>5. CASE Expire \/ Housekeep \/ Crash \/ UNCHANGED vars
  BY <1>5 DEF Expire, Housekeep, Crash, vars
<1> HIDE DEF PhaseEventSound, Settled
<1> QED
  BY <1>1, <1>2, <1>3, <1>4, <1>5 DEF Next, Handle, Control, Resumed,
     CompletedHandler, FailedHandler, DispatchLoop, StartSteps, Worker

-----------------------------------------------------------------------------
(* Suspended coroutines.                                                    *)

\* What justifies a coroutine is stable: it stays as long as the coroutine is
\* not resumed, whatever the others do.
LEMMA JustifiedStable ==
    ASSUME TypeOK, Grows, NEW d \in Coros, Justified(d),
           UNCHANGED <<pc[d], op[d], cur[d], todo[d], seenPhase[d]>>
    PROVE  Justified(d)'
BY DEF TypeOK, Grows, Justified, Doomed, Enabled, Announced, Settled

\* A step of a coroutine leaves it justified, and so every other one.
LEMMA JustifiedStep ==
    ASSUME TypeOK, Truth, OutcomesReal, \A c \in Coros : Justified(c), Grows, [Next]_vars
    PROVE  \A d \in Coros : Justified(d)'
<1> USE DEF redis, locals, env, errors, hist, bounds, Outcomes
<1>1. ASSUME NEW c \in Coros, OnTaskCompleted(c) \/ OnTaskFailed(c)
      PROVE  \A d \in Coros : Justified(d)'
  <2>1. Justified(c)'
    BY <1>1 DEF OnTaskCompleted, OnTaskFailed, LoadLists, Goto, TypeOK, Grows,
       Justified, Doomed, Enabled, Announced, Settled, OutcomesReal
  <2>2. ASSUME NEW d \in Coros, d # c PROVE Justified(d)'
    BY <1>1, <2>2, JustifiedStable DEF OnTaskCompleted, OnTaskFailed,
       LoadLists, Goto, TypeOK
  <2> QED
    BY <2>1, <2>2
<1>2. ASSUME NEW c \in Coros, StartWorkflow(c) \/ PauseWorkflow(c) \/
             ResumeWorkflow(c) \/ AbortWorkflow(c)
      PROVE  \A d \in Coros : Justified(d)'
  <2>1. Justified(c)'
    BY <1>2 DEF StartWorkflow, PauseWorkflow, ResumeWorkflow, AbortWorkflow,
       Request, Goto, TypeOK, Grows, Justified, Doomed, Enabled, Announced,
       Settled
  <2>2. ASSUME NEW d \in Coros, d # c PROVE Justified(d)'
    BY <1>2, <2>2, JustifiedStable DEF StartWorkflow, PauseWorkflow,
       ResumeWorkflow, AbortWorkflow, Request, Goto, TypeOK
  <2> QED
    BY <2>1, <2>2
<1>3. ASSUME NEW c \in Coros, SaveCompleted(c) \/ CheckPaused(c)
      PROVE  \A d \in Coros : Justified(d)'
  <2>1. Justified(c)'
    BY <1>3 DEF SaveCompleted, CheckPaused, SaveLists, Goto, TypeOK, Grows,
       Justified, Doomed, Enabled, Announced, Settled
  <2>2. ASSUME NEW d \in Coros, d # c PROVE Justified(d)'
    BY <1>3, <2>2, JustifiedStable DEF SaveCompleted, CheckPaused, SaveLists,
       Goto, TypeOK
  <2> QED
    BY <2>1, <2>2
<1>4. ASSUME NEW c \in Coros, LoadState(c) PROVE \A d \in Coros : Justified(d)'
  <2>1. Justified(c)'
    BY <1>4 DEF LoadState, Goto, TypeOK, Grows, Justified, Doomed, Enabled,
       Announced, Settled
  <2>2. ASSUME NEW d \in Coros, d # c PROVE Justified(d)'
    BY <1>4, <2>2, JustifiedStable DEF LoadState, Goto, TypeOK
  <2> QED
    BY <2>1, <2>2
<1>5. ASSUME NEW c \in Coros, GetReadyTasks(c)
      PROVE  \A d \in Coros : Justified(d)'
  <2>1. Justified(c)'
    BY <1>5 DEF GetReadyTasks, Goto, DispatchNext, Ready, TypeOK, Grows,
       Justified, Doomed, Enabled, Announced, Settled, Truth, Truthful,
       CanStart
  <2>2. ASSUME NEW d \in Coros, d # c PROVE Justified(d)'
    BY <1>5, <2>2, JustifiedStable DEF GetReadyTasks, Goto, DispatchNext,
       Ready, TypeOK
  <2> QED
    BY <2>1, <2>2
<1>6. ASSUME NEW c \in Coros, DispatchTask(c)
      PROVE  \A d \in Coros : Justified(d)'
  <2>1. /\ pc'[c] = "loadRunning" /\ cur'[c] \in Tasks
        /\ todo'[c] \subseteq todo[c]
    BY <1>6 DEF DispatchTask, Goto, TypeOK
  <2>2. \A u \in todo[c] : Enabled(u)
    BY <1>6 DEF DispatchTask, Justified
  <2>3. Justified(c)'
    BY <2>1, <2>2 DEF TypeOK, Grows, Justified, Enabled
  <2>4. ASSUME NEW d \in Coros, d # c PROVE Justified(d)'
    BY <1>6, <2>4, JustifiedStable DEF DispatchTask, Goto, TypeOK
  <2> QED
    BY <2>3, <2>4
<1>7. ASSUME NEW c \in Coros, DispatchFails(c)
      PROVE  \A d \in Coros : Justified(d)'
  <2>1. /\ pc'[c] \in {"startLoad", "dispatch", "checkPhase", "idle"}
        /\ todo'[c] \subseteq todo[c]
    BY <1>7 DEF DispatchFails, Goto, DispatchNext, TypeOK
  <2>2. \A u \in todo[c] : Enabled(u)
    BY <1>7 DEF DispatchFails, Justified
  <2>3. Justified(c)'
    BY <2>1, <2>2 DEF TypeOK, Grows, Justified, Enabled
  <2>4. ASSUME NEW d \in Coros, d # c PROVE Justified(d)'
    BY <1>7, <2>4, JustifiedStable DEF DispatchFails, Goto, DispatchNext,
       TypeOK
  <2> QED
    BY <2>3, <2>4
<1>8. ASSUME NEW c \in Coros, LoadRunning(c) \/ SaveRunning(c)
      PROVE  \A d \in Coros : Justified(d)'
  <2>1. Justified(c)'
    BY <1>8 DEF LoadRunning, SaveRunning, LoadLists, Goto, SaveLists,
       DispatchNext, TypeOK, Grows, Justified, Doomed, Enabled, Announced,
       Settled
  <2>2. ASSUME NEW d \in Coros, d # c PROVE Justified(d)'
    BY <1>8, <2>2, JustifiedStable DEF LoadRunning, SaveRunning, LoadLists,
       Goto, SaveLists, DispatchNext, TypeOK
  <2> QED
    BY <2>1, <2>2
<1>9. ASSUME NEW c \in Coros, CheckPhase(c) PROVE \A d \in Coros : Justified(d)'
  <2>1. Justified(c)'
    BY <1>9 DEF CheckPhase, Goto, TypeOK, Grows, Justified, Doomed, Enabled,
       Announced, Settled, Truth, Truthful, IsPhaseComplete, Terminal
  <2>2. ASSUME NEW d \in Coros, d # c PROVE Justified(d)'
    BY <1>9, <2>2, JustifiedStable DEF CheckPhase, Goto, TypeOK
  <2> QED
    BY <2>1, <2>2
<1>10. ASSUME NEW c \in Coros, AdvancePhase(c) \/ PublishPhase(c)
      PROVE  \A d \in Coros : Justified(d)'
  <2>1. Justified(c)'
    BY <1>10 DEF AdvancePhase, PublishPhase, Goto, TypeOK, Grows, Justified,
       Doomed, Enabled, Announced, Settled
  <2>2. ASSUME NEW d \in Coros, d # c PROVE Justified(d)'
    BY <1>10, <2>2, JustifiedStable DEF AdvancePhase, PublishPhase, Goto,
       TypeOK
  <2> QED
    BY <2>1, <2>2
<1>11. ASSUME NEW c \in Coros, PublishFailure(c) \/ LoadFailed(c)
      PROVE  \A d \in Coros : Justified(d)'
  <2>1. Justified(c)'
    BY <1>11 DEF PublishFailure, LoadFailed, Goto, LoadLists, TypeOK, Grows,
       Justified, Doomed, Enabled, Announced, Settled
  <2>2. ASSUME NEW d \in Coros, d # c PROVE Justified(d)'
    BY <1>11, <2>2, JustifiedStable DEF PublishFailure, LoadFailed, Goto,
       LoadLists, TypeOK
  <2> QED
    BY <2>1, <2>2
<1>12. ASSUME NEW c \in Coros, SaveFailed(c) PROVE \A d \in Coros : Justified(d)'
  <2>1. Justified(c)'
    BY <1>12 DEF SaveFailed, SaveLists, Goto, Blocking, TypeOK, Grows,
       Justified, Doomed, Enabled, Announced, Settled
  <2>2. ASSUME NEW d \in Coros, d # c PROVE Justified(d)'
    BY <1>12, <2>2, JustifiedStable DEF SaveFailed, SaveLists, Goto, Blocking,
       TypeOK
  <2> QED
    BY <2>1, <2>2
<1>13. ASSUME NEW c \in Coros, LoadBlocked(c)
      PROVE  \A d \in Coros : Justified(d)'
  <2>1. /\ pc'[c] = "saveBlocked" /\ cur'[c] \in todo[c] /\ cur'[c] \in Tasks
        /\ todo'[c] \subseteq todo[c]
    BY <1>13 DEF LoadBlocked, LoadLists, Goto, TypeOK
  <2>2. \A u \in todo[c] : Doomed(u)
    BY <1>13 DEF LoadBlocked, Justified
  <2>3. Justified(c)'
    BY <2>1, <2>2 DEF TypeOK, Grows, Justified, Doomed
  <2>4. ASSUME NEW d \in Coros, d # c PROVE Justified(d)'
    BY <1>13, <2>4, JustifiedStable DEF LoadBlocked, LoadLists, Goto, TypeOK
  <2> QED
    BY <2>3, <2>4
<1>14. ASSUME NEW c \in Coros, SaveBlocked(c)
      PROVE  \A d \in Coros : Justified(d)'
  <2>1. Justified(c)'
    BY <1>14 DEF SaveBlocked, SaveLists, Goto, TypeOK, Grows, Justified,
       Doomed, Enabled, Announced, Settled
  <2>2. ASSUME NEW d \in Coros, d # c PROVE Justified(d)'
    BY <1>14, <2>2, JustifiedStable DEF SaveBlocked, SaveLists, Goto, TypeOK
  <2> QED
    BY <2>1, <2>2
<1>15. ASSUME NEW c \in Coros, SetExpiry(c) \/ SetExecutionPhase(c)
      PROVE  \A d \in Coros : Justified(d)'
  <2>1. Justified(c)'
    BY <1>15 DEF SetExpiry, SetExecutionPhase, Goto, TypeOK, Grows, Justified,
       Doomed, Enabled, Announced, Settled
  <2>2. ASSUME NEW d \in Coros, d # c PROVE Justified(d)'
    BY <1>15, <2>2, JustifiedStable DEF SetExpiry, SetExecutionPhase, Goto,
       TypeOK
  <2> QED
    BY <2>1, <2>2
<1>16. ASSUME NEW c \in Coros, GatherDispatch(c)
      PROVE  \A d \in Coros : Justified(d)'
  <2>1. /\ pc'[c] \in {"startLoad", "dispatch", "checkPhase", "idle"}
        /\ todo'[c] \subseteq todo[c]
    BY <1>16 DEF GatherDispatch, Goto, DispatchNext, TypeOK
  <2>2. \A u \in todo[c] : Enabled(u)
    BY <1>16 DEF GatherDispatch, Justified
  <2>3. Justified(c)'
    BY <2>1, <2>2 DEF TypeOK, Grows, Justified, Enabled
  <2>4. ASSUME NEW d \in Coros, d # c PROVE Justified(d)'
    BY <1>16, <2>4, JustifiedStable DEF GatherDispatch, Goto, DispatchNext,
       TypeOK
  <2> QED
    BY <2>3, <2>4
<1>17. ASSUME NEW c \in Coros, StartLoadRunning(c)
      PROVE  \A d \in Coros : Justified(d)'
  <2>1. /\ pc'[c] = "saveRunning" /\ cur'[c] \in Tasks
        /\ todo'[c] \subseteq todo[c]
    BY <1>17 DEF StartLoadRunning, LoadLists, Goto, TypeOK
  <2>2. \A u \in todo[c] : Enabled(u)
    BY <1>17 DEF StartLoadRunning, Justified
  <2>3. Justified(c)'
    BY <2>1, <2>2 DEF TypeOK, Grows, Justified, Enabled
  <2>4. ASSUME NEW d \in Coros, d # c PROVE Justified(d)'
    BY <1>17, <2>4, JustifiedStable DEF StartLoadRunning, LoadLists, Goto,
       TypeOK
  <2> QED
    BY <2>3, <2>4
<1>18. ASSUME NEW c \in Coros, CleanupState(c)
      PROVE  \A d \in Coros : Justified(d)'
  <2>1. Justified(c)'
    BY <1>18 DEF CleanupState, Forget, Goto, TypeOK, Grows, Justified, Doomed,
       Enabled, Announced, Settled
  <2>2. ASSUME NEW d \in Coros, d # c PROVE Justified(d)'
    BY <1>18, <2>2, JustifiedStable DEF CleanupState, Forget, Goto, TypeOK
  <2> QED
    BY <2>1, <2>2
<1>19. ASSUME NEW c \in Coros, SaveArtifacts(c) \/ SaveError(c)
      PROVE  \A d \in Coros : Justified(d)'
  <2>1. Justified(c)'
    BY <1>19 DEF SaveArtifacts, SaveError, Goto, Blocking, TypeOK, Grows, Justified,
       Doomed, Enabled, Announced, Settled
  <2>2. ASSUME NEW d \in Coros, d # c PROVE Justified(d)'
    BY <1>19, <2>2, JustifiedStable DEF SaveArtifacts, SaveError, Goto, Blocking,
       TypeOK
  <2> QED
    BY <2>1, <2>2
<1>20. ASSUME NEW c \in Coros, CallRaises(c)
      PROVE  \A d \in Coros : Justified(d)'
  <2>1. /\ \/ pc'[c] \in {"checkPhase", "idle"}
           \/ pc'[c] \in {"startLoad", "dispatch"} /\ pc[c] \in {"loadRunning", "saveRunning"}
        /\ UNCHANGED <<op, cur, todo, seenPhase>>
    BY <1>20 DEF CallRaises, Goto, DispatchNext, TypeOK
  <2>2. Justified(c)'
    BY <2>1 DEF TypeOK, Grows, Justified, Enabled
  <2>3. ASSUME NEW d \in Coros, d # c PROVE Justified(d)'
    BY <1>20, <2>3, JustifiedStable DEF CallRaises, Goto, DispatchNext, TypeOK
  <2> QED
    BY <2>2, <2>3
<1>21. ASSUME NEW t \in Tasks, NEW k \in Outcomes,
             WorkerDone(t, k) \/ WorkerRedelivered(t, k)
      PROVE  \A d \in Coros : Justified(d)'
  BY <1>21, JustifiedStable DEF WorkerDone, WorkerRedelivered, WorkerOutcome
<1>22. CASE Crash
  BY <1>22 DEF Crash, TypeOK, Justified
<1>23. CASE Expire \/ Housekeep \/ UNCHANGED vars
  BY <1>23, JustifiedStable DEF Expire, Forget, Housekeep, vars
<1> HIDE DEF redis, locals, env, errors, hist, bounds, Outcomes
<1> QED
  BY <1>1, <1>2, <1>3, <1>4, <1>5, <1>6, <1>7, <1>8, <1>9, <1>10, <1>11, <1>12, <1>13, <1>14,
     <1>15, <1>16, <1>17, <1>18, <1>19, <1>20, <1>21, <1>22, <1>23 DEF Next, Handle, Control,
     Resumed, CompletedHandler, FailedHandler, DispatchLoop, StartSteps, Worker

-----------------------------------------------------------------------------
(* The theorems.                                                            *)

LEMMA InvInit == Init => Inv
<1> SUFFICES ASSUME Init PROVE Inv
  OBVIOUS
<1>1. TypeOK
  BY BlankType, PhaseNames DEF Init, TypeOK, Labels, RedisCalls, OpNames, Outcomes, BusEvents
<1>2. Truthful(lists) /\ \A c \in Coros : Truthful(snap[c])
  BY BlankTruthful DEF Init
<1>3. OutcomesReal /\ DependenciesFirst /\ PhaseEventSound
  BY DEF Init, OutcomesReal, DependenciesFirst, PhaseEventSound, Outcomes
<1>4. \A c \in Coros : Justified(c)
  BY DEF Init, Justified
<1> QED
  BY <1>1, <1>2, <1>3, <1>4 DEF Inv

LEMMA InvNext == Inv /\ [Next]_vars => Inv'
<1> SUFFICES ASSUME Inv, [Next]_vars PROVE Inv'
  OBVIOUS
<1> USE DEF Inv
<1>1. Grows
  BY GrowsStep
<1>2. TypeOK'
  BY TypeStep
<1>3. Truth'
  BY <1>1, TruthStep DEF Truth
<1>4. OutcomesReal'
  BY <1>1, OutcomesStep
<1>5. \A c \in Coros : Justified(c)'
  BY <1>1, JustifiedStep DEF Truth
<1>6. DependenciesFirst'
  BY <1>1, DependenciesStep
<1>7. PhaseEventSound'
  BY <1>1, PhaseEventStep
<1> QED
  BY <1>2, <1>3, <1>4, <1>5, <1>6, <1>7 DEF Truth

\* The inductive invariant holds in every reachable state.
THEOREM Invariance == Spec => []Inv
BY InvInit, InvNext, PTL DEF Spec

\* Every variable keeps its type.
THEOREM TypeCorrect == Spec => []TypeOK
<1>1. Inv => TypeOK
  BY DEF Inv
<1> QED
  BY <1>1, Invariance, PTL

\* No task is ever in two of the lists, although no update of them is atomic.
THEOREM OneListAlways == Spec => []OneListPerTask
<1>1. Inv => OneListPerTask
  BY DEF Inv, Truthful, OneListPerTask
<1> QED
  BY <1>1, Invariance, PTL

\* No task is sent before all of its dependencies have succeeded, whatever the
\* graph, the handlers, the requests, the restarts and the repeated messages.
THEOREM DependenciesAlwaysFirst == Spec => []DependenciesFirst
<1>1. Inv => DependenciesFirst
  BY DEF Inv
<1> QED
  BY <1>1, Invariance, PTL

\* No phase is announced as completed while it has an untouched task.
THEOREM PhaseEventsSound == Spec => []PhaseEventSound
<1>1. Inv => PhaseEventSound
  BY DEF Inv
<1> QED
  BY <1>1, Invariance, PTL

\* A blocked task has a failed dependency and a failed one was announced.
THEOREM FailuresAccounted == Spec => []FailureAccounted
<1>1. Inv => FailureAccounted
  BY DEF Inv, Truthful, FailureAccounted, Doomed, Announced
<1> QED
  BY <1>1, Invariance, PTL

-----------------------------------------------------------------------------
(* The engine implements the contract.                                      *)

\* Every step is a step of the contract or leaves it alone.
LEMMA ContractStep ==
    ASSUME TypeOK, OutcomesReal, \A c \in Coros : Justified(c), [Next]_vars
    PROVE  [Contract!Next]_(Contract!pipeline)
<1> USE DEF errors, hist
<1>1. ASSUME NEW c \in Coros, DispatchTask(c)
      PROVE  [Contract!Next]_(Contract!pipeline)
  <2> DEFINE some == {t \in todo[c] : sent'[t] > sent[t]}
  <2>1. \A t \in some : Enabled(t)
    BY <1>1 DEF DispatchTask, Justified
  <2>2. {t \in Tasks : sent'[t] > 0} = {t \in Tasks : sent[t] > 0} \cup some
    BY <1>1 DEF DispatchTask, TypeOK
  <2>3. some \in SUBSET Tasks
    BY <1>1 DEF DispatchTask, TypeOK
  <2>4. UNCHANGED <<succeeded, everFailed, published>>
    BY <1>1 DEF DispatchTask
  <2>5. Contract!Start
    BY <2>1, <2>2, <2>3, <2>4 DEF Contract!Start, Enabled
  <2> QED
    BY <2>5 DEF Contract!Next
<1>2. ASSUME NEW c \in Coros, GatherDispatch(c)
      PROVE  [Contract!Next]_(Contract!pipeline)
  <2> DEFINE some == {t \in todo[c] : sent'[t] > sent[t]}
  <2>1. \A t \in some : Enabled(t)
    BY <1>2 DEF GatherDispatch, Justified
  <2>2. {t \in Tasks : sent'[t] > 0} = {t \in Tasks : sent[t] > 0} \cup some
    BY <1>2 DEF GatherDispatch, TypeOK
  <2>3. some \in SUBSET Tasks
    BY <1>2 DEF GatherDispatch, TypeOK
  <2>4. UNCHANGED <<succeeded, everFailed, published>>
    BY <1>2 DEF GatherDispatch
  <2>5. Contract!Start
    BY <2>1, <2>2, <2>3, <2>4 DEF Contract!Start, Enabled
  <2> QED
    BY <2>5 DEF Contract!Next
<1>3. ASSUME NEW c \in Coros, PublishPhase(c)
      PROVE  [Contract!Next]_(Contract!pipeline)
  <2>1. PICK p \in Phases : p = seenPhase[c]
    BY <1>3 DEF PublishPhase, TypeOK
  <2>2. published' = published \cup {<<"phase_completed", p>>}
    BY <1>3, <2>1 DEF PublishPhase
  <2>3. UNCHANGED <<sent, succeeded, everFailed>>
    BY <1>3 DEF PublishPhase
  <2>4. \A t \in Tasks : PhaseOf[t] = p => Contract!Settled(t)
    BY <1>3, <2>1 DEF PublishPhase, Justified, Contract!Settled, Settled
  <2>5. {q \in Phases : <<"phase_completed", q>> \in published'}
          = {q \in Phases : <<"phase_completed", q>> \in published} \cup {p}
    <3>1. \A a, b : <<"phase_completed", a>> = <<"phase_completed", b>> => a = b
      OBVIOUS
    <3> QED
      BY <2>2, <3>1
  <2>6. Contract!Announce(p)
    BY <2>3, <2>4, <2>5 DEF Contract!Announce
  <2> QED
    BY <2>6 DEF Contract!Next
<1>4. ASSUME NEW c \in Coros, PublishFailure(c)
      PROVE  [Contract!Next]_(Contract!pipeline)
  BY <1>4, KindsDiffer DEF PublishFailure, Contract!pipeline
<1>5. ASSUME NEW c \in Coros, OnTaskCompleted(c) \/ OnTaskFailed(c) \/ StartWorkflow(c) \/
             PauseWorkflow(c) \/ ResumeWorkflow(c) \/ AbortWorkflow(c) \/ SaveCompleted(c) \/
             SaveArtifacts(c) \/ SaveError(c) \/ CallRaises(c) \/ CheckPaused(c) \/
             CheckPhase(c) \/ AdvancePhase(c) \/ LoadFailed(c) \/ SaveFailed(c) \/
             LoadBlocked(c) \/ SaveBlocked(c) \/ LoadState(c) \/ GetReadyTasks(c) \/
             DispatchFails(c) \/ LoadRunning(c) \/ SaveRunning(c) \/ SetExpiry(c) \/
             SetExecutionPhase(c) \/ StartLoadRunning(c) \/ CleanupState(c)
      PROVE  [Contract!Next]_(Contract!pipeline)
  BY <1>5 DEF OnTaskCompleted, OnTaskFailed, StartWorkflow, PauseWorkflow, ResumeWorkflow,
     AbortWorkflow, SaveCompleted, SaveArtifacts, SaveError, CallRaises, CheckPaused,
     CheckPhase, AdvancePhase, LoadFailed, SaveFailed, LoadBlocked, SaveBlocked, LoadState,
     GetReadyTasks, DispatchFails, LoadRunning, SaveRunning, SetExpiry, SetExecutionPhase,
     StartLoadRunning, CleanupState, Contract!pipeline
<1>6. ASSUME NEW t \in Tasks, NEW k \in Outcomes,
             WorkerDone(t, k) \/ WorkerRedelivered(t, k)
      PROVE  [Contract!Next]_(Contract!pipeline)
  <2>1. sent[t] > 0
    BY <1>6 DEF WorkerDone, WorkerRedelivered, WorkerOutcome, OutcomesReal, TypeOK
  <2>2. UNCHANGED <<sent, published>>
    BY <1>6 DEF WorkerDone, WorkerRedelivered, WorkerOutcome
  <2>3. CASE k = "completed"
    <3>1. succeeded' = succeeded \cup {t} /\ everFailed' = everFailed
      BY <1>6, <2>3 DEF WorkerDone, WorkerRedelivered, WorkerOutcome
    <3>2. Contract!Succeed(t)
      BY <3>1, <2>1, <2>2 DEF Contract!Succeed
    <3> QED
      BY <3>2 DEF Contract!Next
  <2>4. CASE k = "failed"
    <3>1. everFailed' = everFailed \cup {t} /\ succeeded' = succeeded
      BY <1>6, <2>4 DEF WorkerDone, WorkerRedelivered, WorkerOutcome
    <3>2. Contract!Fail(t)
      BY <3>1, <2>1, <2>2 DEF Contract!Fail
    <3> QED
      BY <3>2 DEF Contract!Next
  <2> QED
    BY <2>3, <2>4 DEF Outcomes
<1>7. CASE Expire \/ Housekeep \/ Crash \/ UNCHANGED vars
  BY <1>7 DEF Expire, Housekeep, Crash, vars, Contract!pipeline
<1> QED
  BY <1>1, <1>2, <1>3, <1>4, <1>5, <1>6, <1>7 DEF Next, Handle, Control,
     Resumed, CompletedHandler, FailedHandler, DispatchLoop, StartSteps, Worker

\* The detailed engine implements the abstract pipeline contract.
THEOREM Refinement == Spec => ImplementsContract
<1>1. Init => Contract!Init
  BY DEF Init, Contract!Init
<1>2. Inv /\ [Next]_vars => [Contract!Next]_(Contract!pipeline)
  BY ContractStep DEF Inv
<1> QED
  BY <1>1, <1>2, Invariance, PTL DEF Spec, ImplementsContract, Contract!Spec

-----------------------------------------------------------------------------
(* One request and one listener, workers slower than the request.  The       *)
(* coroutines then take turns, and what one has read is still so when it     *)
(* writes: the lists are complete as well as truthful.                       *)

\* Whoever moves, the others are idle.
LEMMA OthersIdle ==
    ASSUME Quiet, TypeOK, OneAtATime, NEW c \in Coros,
           Handle(c) \/ Control(c) \/ Resumed(c)
    PROVE  \A d \in Coros : d # c => pc[d] = "idle" /\ pc'[d] = "idle"
<1>1. \A d \in Coros : d # c => pc'[d] = pc[d]
  BY DEF Handle, Control, Resumed, CompletedHandler, FailedHandler, DispatchLoop, StartSteps,
     OnTaskCompleted, OnTaskFailed, StartWorkflow, PauseWorkflow, ResumeWorkflow, AbortWorkflow,
     SaveCompleted, SaveArtifacts, SaveError, CallRaises, CheckPaused, CheckPhase, AdvancePhase,
     PublishPhase, PublishFailure, LoadFailed, SaveFailed, LoadBlocked, SaveBlocked, LoadState,
     GetReadyTasks, DispatchTask, DispatchFails, LoadRunning, SaveRunning, SetExpiry,
     SetExecutionPhase, GatherDispatch, StartLoadRunning, CleanupState, Goto, TypeOK
<1>2. CASE Handle(c)
  <2>1. c \in Listeners /\ \E k \in Outcomes, t \in Tasks : events[k][t] > 0
    BY <1>2 DEF Handle, OnTaskCompleted, OnTaskFailed, Outcomes
  <2>2. \A a \in Apis : ~Busy(a)
    BY <2>1 DEF OneAtATime, TypeOK
  <2> QED
    BY <1>1, <2>1, <2>2, <1>2 DEF Quiet, Coros, Busy, Handle, OnTaskCompleted, OnTaskFailed
<1>3. CASE Control(c)
  <2>1. apiCalls = 0
    BY <1>3, EngineAssumption DEF Control, StartWorkflow, PauseWorkflow, ResumeWorkflow,
       AbortWorkflow, Request, Quiet, OneAtATime
  <2> QED
    BY <1>1, <2>1 DEF OneAtATime, Busy
<1>4. CASE Resumed(c)
  <2>1. Busy(c)
    BY <1>4 DEF Busy, Quiet, Resumed, CompletedHandler, FailedHandler, DispatchLoop, StartSteps,
       SaveCompleted, SaveArtifacts, SaveError, CallRaises, CheckPaused, CheckPhase,
       AdvancePhase, PublishPhase, PublishFailure, LoadFailed, SaveFailed, LoadBlocked,
       SaveBlocked, LoadState, GetReadyTasks, DispatchTask, DispatchFails, LoadRunning,
       SaveRunning, SetExpiry, SetExecutionPhase, GatherDispatch, StartLoadRunning, CleanupState
  <2> QED
    BY <1>1, <2>1 DEF OneAtATime, Busy
<1> QED
  BY <1>2, <1>3, <1>4

\* A coroutine that goes on keeps to its turn.
LEMMA OneAtATimeResumed ==
    ASSUME Quiet, TypeOK, OneAtATime, NEW c \in Coros, Resumed(c)
    PROVE  OneAtATime'
<1> USE DEF Outcomes, redis, locals, env, errors, hist, bounds
<1>1. \A d \in Coros : d # c => pc[d] = "idle" /\ pc'[d] = "idle"
  BY OthersIdle
<1>2. apiCalls' = apiCalls /\ Busy(c) /\ pc'[c] # "delete"
  BY DEF Busy, Quiet, TypeOK, Labels, RedisCalls, Resumed, CompletedHandler, FailedHandler,
     DispatchLoop, StartSteps, SaveCompleted, SaveArtifacts, SaveError, CallRaises, CheckPaused,
     CheckPhase, AdvancePhase, PublishPhase, PublishFailure, LoadFailed, SaveFailed,
     LoadBlocked, SaveBlocked, LoadState, GetReadyTasks, DispatchTask, DispatchFails,
     DispatchNext, LoadRunning, SaveRunning, SetExpiry, SetExecutionPhase, GatherDispatch,
     StartLoadRunning, CleanupState, Goto
<1>3. events' = events \/ c \in Listeners
  BY DEF Resumed, CompletedHandler, FailedHandler, DispatchLoop, StartSteps,
     SaveCompleted, SaveArtifacts, SaveError, CallRaises, CheckPaused, CheckPhase, AdvancePhase,
     PublishPhase, PublishFailure, LoadFailed, SaveFailed, LoadBlocked, SaveBlocked, LoadState,
     GetReadyTasks, DispatchTask, DispatchFails, LoadRunning, SaveRunning, SetExpiry,
     SetExecutionPhase, GatherDispatch, StartLoadRunning, CleanupState
<1>4. ASSUME NEW a \in Apis, Busy(a)' PROVE \A k \in Outcomes, t \in Tasks : events'[k][t] = 0
  <2>1. a = c /\ events' = events
    BY <1>1, <1>3, <1>4, EngineAssumption DEF Busy, Coros
  <2> QED
    BY <1>2, <2>1 DEF OneAtATime
<1>5. CASE hasGraph
  <2>1. hasGraph' /\ apiCalls # 0
    BY <1>5 DEF OneAtATime, Busy, TypeOK, Resumed, CompletedHandler, FailedHandler,
       DispatchLoop, StartSteps, SaveCompleted, SaveArtifacts, SaveError, CallRaises, SaveLists,
       CheckPaused, CheckPhase, AdvancePhase, PublishPhase, PublishFailure, LoadFailed,
       SaveFailed, LoadBlocked, SaveBlocked, LoadState, GetReadyTasks, DispatchTask,
       DispatchFails, LoadRunning, SaveRunning, SetExpiry, SetExecutionPhase, GatherDispatch,
       StartLoadRunning, CleanupState
  <2> QED
    BY <1>1, <1>2, <1>4, <2>1 DEF OneAtATime, Busy, Coros
<1>6. CASE ~hasGraph
  <2>1. pc[c] \in {"loadState", "delete"} /\ NothingSent
    BY <1>2, <1>6 DEF OneAtATime, Busy
  <2>2. LoadState(c) \/ CleanupState(c)
    BY <2>1 DEF Resumed, CompletedHandler, FailedHandler, DispatchLoop, StartSteps,
       Quiet, SaveCompleted, SaveArtifacts, SaveError, CallRaises, CheckPaused, CheckPhase,
       AdvancePhase, PublishPhase, PublishFailure,
       LoadFailed, SaveFailed, LoadBlocked, SaveBlocked, GetReadyTasks, DispatchTask,
       DispatchFails, LoadRunning, SaveRunning, SetExpiry, SetExecutionPhase, GatherDispatch,
       StartLoadRunning
  <2>3. /\ pc'[c] = "idle" /\ ~hasGraph' /\ UNCHANGED <<sent, inflight, events>>
    BY <1>6, <2>2 DEF LoadState, CleanupState, Forget, Goto, TypeOK
  <2>4. NothingSent'
    BY <1>2, <2>1, <2>3 DEF NothingSent
  <2> QED
    BY <1>1, <1>2, <1>4, <2>3, <2>4 DEF OneAtATime, Busy, Coros
<1> QED
  BY <1>5, <1>6

\* The request and the handlers take turns.
LEMMA OneAtATimeStep ==
    ASSUME Quiet, TypeOK, OutcomesReal, OneAtATime, [Next]_vars
    PROVE  OneAtATime'
<1> USE DEF Outcomes, redis, locals, env, errors, hist, bounds
<1>1. ASSUME NEW c \in Coros, Resumed(c) PROVE OneAtATime'
  BY <1>1, OneAtATimeResumed
<1>2. ASSUME NEW c \in Coros, Handle(c) PROVE OneAtATime'
  <2>1. \A d \in Coros : d # c => pc[d] = "idle" /\ pc'[d] = "idle"
    BY <1>2, OthersIdle
  <2>2. /\ c \in Listeners /\ UNCHANGED <<hasGraph, apiCalls, sent, inflight>>
        /\ pc'[c] # "delete"
        /\ \E k \in Outcomes, t \in Tasks : events[k][t] > 0
    BY <1>2 DEF Handle, OnTaskCompleted, OnTaskFailed, Goto, TypeOK
  <2>3. hasGraph /\ apiCalls # 0
    BY <2>2 DEF OneAtATime, NothingSent
  <2>4. \A a \in Apis : pc'[a] = "idle"
    BY <2>1, <2>2, EngineAssumption DEF Coros
  <2> QED
    BY <2>1, <2>2, <2>3, <2>4 DEF OneAtATime, Busy
<1>3. ASSUME NEW c \in Coros, Control(c) PROVE OneAtATime'
  <2>1. \A d \in Coros : d # c => pc[d] = "idle" /\ pc'[d] = "idle"
    BY <1>3, OthersIdle
  <2>2. apiCalls = 0 /\ apiCalls' = 1
    BY <1>3, EngineAssumption DEF Control, StartWorkflow, PauseWorkflow, ResumeWorkflow,
       AbortWorkflow, Request, Quiet, OneAtATime
  <2>3. ~hasGraph /\ NothingSent /\ pc[c] = "idle"
    BY <2>2 DEF OneAtATime, Busy
  <2>4. /\ UNCHANGED <<sent, inflight, events>>
        /\ hasGraph' \/ (~hasGraph' /\ pc'[c] \in {"idle", "loadState", "delete"})
        /\ pc'[c] = "delete" => ~hasGraph'
    BY <1>3, <2>3 DEF Control, StartWorkflow, PauseWorkflow, ResumeWorkflow, AbortWorkflow,
       Goto, TypeOK
  <2>5. NothingSent'
    BY <2>3, <2>4 DEF NothingSent
  <2>6. \A k \in Outcomes, t \in Tasks : events'[k][t] = 0
    BY <2>5 DEF NothingSent
  <2> QED
    BY <2>1, <2>2, <2>4, <2>5, <2>6 DEF OneAtATime, Busy
<1>4. ASSUME NEW t \in Tasks, NEW k \in Outcomes, WorkerDone(t, k) \/ WorkerRedelivered(t, k)
      PROVE  OneAtATime'
  <2>1. /\ inflight[t] > 0 /\ UNCHANGED <<hasGraph, pc, apiCalls>>
        /\ \A a \in Apis : pc[a] = "idle"
    BY <1>4 DEF WorkerDone, WorkerRedelivered, WorkerOutcome, Quiet
  <2>2. hasGraph
    BY <2>1 DEF OneAtATime, NothingSent
  <2> QED
    BY <2>1, <2>2 DEF OneAtATime, Busy
<1>5. CASE Crash
  <2>1. apiCalls = 0 /\ apiCalls' = 1 /\ UNCHANGED <<hasGraph, sent, inflight, events>>
    BY <1>5, EngineAssumption DEF Crash, Quiet, OneAtATime
  <2>2. \A c \in Coros : pc'[c] = "idle"
    BY <1>5 DEF Crash
  <2>3. NothingSent' /\ ~hasGraph'
    BY <2>1 DEF OneAtATime, NothingSent
  <2> QED
    BY <2>1, <2>2, <2>3 DEF OneAtATime, Busy, NothingSent, Coros
<1>6. CASE Housekeep \/ UNCHANGED vars
  BY <1>6 DEF Housekeep, vars, OneAtATime, Busy, NothingSent
<1>7. ~Expire
  BY DEF Expire, Quiet
<1> QED
  BY <1>1, <1>2, <1>3, <1>4, <1>5, <1>6, <1>7 DEF Next, Worker

\* Marking a task adds it to those that the lists know of.
LEMMA InFlightMarked ==
    ASSUME NEW l \in Lists, NEW t \in Tasks
    PROVE  /\ InFlight(MarkRunning(l, t)) = InFlight(l) \cup {t}
           /\ InFlight(MarkCompleted(l, t)) = InFlight(l) \cup {t}
           /\ InFlight(MarkFailed(l, t)) = InFlight(l) \cup {t}
           /\ InFlight(MarkBlocked(l, t)) = InFlight(l) \cup {t}
<1>1. ASSUME NEW n \in ListNames PROVE InFlight(MoveTo(l, t, n)) = InFlight(l) \cup {t}
  <2>1. \A u : u \in InFlight(l) <=> \E m \in ListNames : u \in l[m]
    BY DEF InFlight
  <2>2. \A u : u \in InFlight(MoveTo(l, t, n)) <=> \E m \in ListNames : u \in MoveTo(l, t, n)[m]
    BY DEF InFlight
  <2>3. \A m \in ListNames : MoveTo(l, t, n)[m] = IF m = n THEN l[m] \cup {t} ELSE l[m] \ {t}
    BY DEF MoveTo
  <2>4. ASSUME NEW u PROVE u \in InFlight(MoveTo(l, t, n)) <=> u \in InFlight(l) \/ u = t
    <3>1. CASE u = t
      BY <2>2, <2>3, <3>1
    <3>2. CASE u # t
      <4>1. \A m \in ListNames : u \in MoveTo(l, t, n)[m] <=> u \in l[m]
        BY <2>3, <3>2
      <4> QED
        BY <2>1, <2>2, <3>2, <4>1
    <3> QED
      BY <3>1, <3>2
  <2> QED
    BY <2>4
<1> QED
  BY <1>1 DEF MarkRunning, MarkCompleted, MarkFailed, MarkBlocked, ListNames

\* What is active after a task was marked.
LEMMA ActiveMarked ==
    ASSUME NEW l \in Lists, NEW t \in Tasks
    PROVE  /\ MarkRunning(l, t)["active"] = l["active"] \cup {t}
           /\ MarkCompleted(l, t)["active"] = l["active"] \ {t}
           /\ MarkFailed(l, t)["active"] = l["active"] \ {t}
           /\ MarkBlocked(l, t)["active"] = l["active"] \ {t}
BY DEF MarkRunning, MarkCompleted, MarkFailed, MarkBlocked, MoveTo, ListNames

\* With nothing left to mark, each message of a task that the lists do not know
\* has lost its mark.
LEMMA UnsentUnknown ==
    ASSUME TypeOK, SentCounted, \A c \in Coros, t \in Tasks : ~ToMark(c, t),
           NEW t \in Tasks, t \notin InFlight(lists)
    PROVE  sent[t] <= unmarked[t]
BY DEF SentCounted

\* What a coroutine has read is up to date, because nobody else is about.
LEMMA UpToDateStep ==
    ASSUME Quiet, Inv, QuietInv, [Next]_vars
    PROVE  \A d \in Coros : UpToDate(d)'
<1>0. TypeOK /\ OneAtATime /\ SentCounted /\ (\A d \in Coros : UpToDate(d))
      /\ (\A d \in Coros : Justified(d))
  BY DEF Inv, QuietInv
<1> USE <1>0 DEF redis, locals, env, errors, hist, bounds
<1>1. ASSUME NEW c \in Coros, Handle(c) \/ Control(c) \/ Resumed(c), UpToDate(c)'
      PROVE  \A d \in Coros : UpToDate(d)'
  <2>1. ASSUME NEW d \in Coros, d # c PROVE UpToDate(d)'
    <3>1. pc'[d] = "idle"
      BY <1>1, <2>1, OthersIdle
    <3> QED
      BY <3>1 DEF UpToDate
  <2> QED
    BY <1>1, <2>1
<1>2. ASSUME NEW c \in Coros, Handle(c) PROVE UpToDate(c)'
  BY <1>2 DEF Handle, OnTaskCompleted, OnTaskFailed, LoadLists, Goto, TypeOK, UpToDate
<1>3. ASSUME NEW c \in Coros, Control(c) PROVE UpToDate(c)'
  <2>1. pc'[c] \in {"idle", "expire", "loadState", "delete"}
    BY <1>3 DEF Control, StartWorkflow, PauseWorkflow, ResumeWorkflow, AbortWorkflow, Request,
       Goto, TypeOK
  <2> QED
    BY <2>1 DEF UpToDate
<1>4. ASSUME NEW c \in Coros, SaveCompleted(c) \/ SaveArtifacts(c) \/ SaveError(c) \/
             PublishPhase(c) \/ PublishFailure(c) \/
             SaveFailed(c) \/ SaveBlocked(c) \/ SetExpiry(c) \/ SetExecutionPhase(c) \/
             AdvancePhase(c) \/ CleanupState(c)
      PROVE  UpToDate(c)'
  <2>1. /\ pc'[c] \in {"saveArtifacts", "loadState", "idle", "loadFailed", "saveError",
                       "loadBlocked", "setPhase", "ready", "publishPhase"}
        /\ op'[c] = op[c]
        /\ pc'[c] \in {"setPhase", "ready"} => pc[c] = "expire" \/ op[c] = "start"
    BY <1>4 DEF SaveCompleted, SaveArtifacts, SaveError, PublishPhase, PublishFailure,
       SaveFailed, SaveBlocked, SetExpiry, SetExecutionPhase, AdvancePhase, CleanupState, Goto,
       TypeOK
  <2>2. pc[c] = "expire" => op[c] = "start"
    BY DEF Justified
  <2> QED
    BY <2>1, <2>2 DEF UpToDate
<1>5. ASSUME NEW c \in Coros, CheckPaused(c) \/ CheckPhase(c) \/ LoadState(c) \/ LoadRunning(c)
             \/ LoadFailed(c) \/ LoadBlocked(c)
      PROVE  UpToDate(c)'
  BY <1>5 DEF CheckPaused, CheckPhase, LoadState, LoadRunning, LoadFailed, LoadBlocked,
     LoadLists, Goto, TypeOK, UpToDate
<1>6. ASSUME NEW c \in Coros, GetReadyTasks(c) PROVE UpToDate(c)'
  <2>1. pc[c] = "ready" /\ todo'[c] = Ready(lists)
        /\ UNCHANGED <<lists, phase, op, snap, seenPhase, sent, unmarked>>
        /\ pc'[c] = IF op[c] = "start" /\ Ready(lists) # {} THEN "gather"
                    ELSE DispatchNext(c, Ready(lists))
    BY <1>6 DEF GetReadyTasks, Goto, TypeOK
  <2>2. \A d \in Coros, t \in Tasks : ~ToMark(d, t)
    <3>1. \A d \in Coros : d # c => pc[d] = "idle"
      BY <1>6, OthersIdle DEF Resumed, DispatchLoop
    <3> QED
      BY <2>1, <3>1 DEF ToMark
  <2>3. \A t \in Ready(lists) : sent[t] <= unmarked[t]
    BY <2>2, UnsentUnknown DEF Ready
  <2> QED
    BY <2>1, <2>3 DEF UpToDate, DispatchNext
<1>7. ASSUME NEW c \in Coros, DispatchTask(c) PROVE UpToDate(c)'
  <2>1. PICK t \in todo[c] : /\ sent' = [sent EXCEPT ![t] = @ + 1]
                             /\ todo' = [todo EXCEPT ![c] = @ \ {t}]
    BY <1>7 DEF DispatchTask
  <2>2. /\ pc[c] = "dispatch" /\ pc'[c] = "loadRunning"
        /\ UNCHANGED <<phase, op, seenPhase, unmarked>>
    BY <1>7 DEF DispatchTask, Goto, TypeOK
  <2>3. \A u \in todo'[c] : sent'[u] <= unmarked'[u]
    BY <2>1, <2>2 DEF TypeOK, UpToDate
  <2> QED
    BY <2>2, <2>3 DEF UpToDate
<1>8. ASSUME NEW c \in Coros, DispatchFails(c) PROVE UpToDate(c)'
  <2>1. /\ pc[c] = "dispatch" /\ pc'[c] = DispatchNext(c, todo'[c]) /\ todo'[c] \subseteq todo[c]
        /\ UNCHANGED <<lists, phase, op, snap, seenPhase, sent, unmarked>>
    BY <1>8 DEF DispatchFails, Goto, TypeOK
  <2> QED
    BY <2>1 DEF UpToDate, DispatchNext
<1>9. ASSUME NEW c \in Coros, SaveRunning(c) PROVE UpToDate(c)'
  <2>1. /\ pc[c] = "saveRunning" /\ pc'[c] = DispatchNext(c, todo[c])
        /\ UNCHANGED <<phase, op, todo, seenPhase, sent, unmarked>>
    BY <1>9 DEF SaveRunning, SaveLists, Goto, TypeOK
  <2> QED
    BY <2>1 DEF UpToDate, DispatchNext
<1>10. ASSUME NEW c \in Coros, GatherDispatch(c) \/ StartLoadRunning(c) PROVE UpToDate(c)'
  <2>1. op[c] = "start" /\ op'[c] = "start"
    BY <1>10 DEF GatherDispatch, StartLoadRunning, UpToDate
  <2>2. pc'[c] \in {"startLoad", "idle"} \/ (pc'[c] = "saveRunning" /\ snap'[c] = lists')
    BY <1>10, <2>1 DEF GatherDispatch, StartLoadRunning, LoadLists, DispatchNext, Goto, TypeOK
  <2> QED
    BY <2>1, <2>2 DEF UpToDate
<1>11. ASSUME NEW t \in Tasks, NEW k \in Outcomes, WorkerDone(t, k) \/ WorkerRedelivered(t, k)
       PROVE  \A d \in Coros : UpToDate(d)'
  BY <1>11 DEF WorkerDone, WorkerRedelivered, WorkerOutcome, UpToDate
<1>12. CASE Housekeep \/ UNCHANGED vars
  BY <1>12 DEF Housekeep, vars, UpToDate
<1>13. CASE Crash
  BY <1>13 DEF Crash, UpToDate
<1>14. ~Expire
  BY DEF Expire, Quiet
<1>15. ASSUME NEW c \in Coros, CallRaises(c) PROVE UpToDate(c)'
  <2>1. /\ pc[c] \in {"startLoad", "loadRunning", "saveRunning"}
        /\ UNCHANGED <<lists, phase, op, todo, seenPhase, sent>>
        /\ pc'[c] = IF pc[c] \in {"loadRunning", "saveRunning"} /\ op[c] = "completed"
                    THEN DispatchNext(c, todo[c]) ELSE "idle"
    BY <1>15 DEF CallRaises, Quiet, Goto, TypeOK
  <2>2. \A t \in Tasks : sent[t] <= unmarked[t] => sent'[t] <= unmarked'[t]
    BY <1>15, <2>1 DEF CallRaises, TypeOK
  <2>3. todo[c] \subseteq Tasks
    BY DEF TypeOK
  <2> QED
    BY <2>1, <2>2, <2>3 DEF UpToDate, DispatchNext
<1>16. ASSUME NEW c \in Coros, Resumed(c) PROVE UpToDate(c)'
  BY <1>4, <1>5, <1>6, <1>7, <1>8, <1>9, <1>10, <1>15, <1>16 DEF Resumed, CompletedHandler,
     FailedHandler, DispatchLoop, StartSteps
<1> QED
  BY <1>1, <1>2, <1>3, <1>11, <1>12, <1>13, <1>14, <1>16 DEF Next, Worker

\* The step of one coroutine leaves what the others have to mark and handle,
\* which is nothing.
LEMMA OthersOweNothing ==
    ASSUME Quiet, TypeOK, OneAtATime, NEW c \in Coros,
           Handle(c) \/ Control(c) \/ Resumed(c), NEW t \in Tasks
    PROVE  /\ (\E d \in Coros : ToMark(d, t)) <=> ToMark(c, t)
           /\ (\E d \in Coros : ToMark(d, t)') <=> ToMark(c, t)'
           /\ (\E d \in Coros : Handling(d, t)) <=> Handling(c, t)
           /\ (\E d \in Coros : Handling(d, t)') <=> Handling(c, t)'
<1>1. \A d \in Coros : d # c => pc[d] = "idle" /\ pc'[d] = "idle"
  BY OthersIdle
<1>2. \A d \in Coros : d # c => /\ ~ToMark(d, t) /\ ~ToMark(d, t)'
                                /\ ~Handling(d, t) /\ ~Handling(d, t)'
  BY <1>1 DEF ToMark, Handling
<1> QED
  BY <1>2

\* A message that was sent is counted, by the lists, by who will mark it or as
\* one whose mark was lost.
LEMMA SentCountedStep ==
    ASSUME Quiet, Inv, QuietInv, [Next]_vars
    PROVE  SentCounted'
<1>0. TypeOK /\ OneAtATime /\ SentCounted /\ (\A d \in Coros : UpToDate(d))
      /\ (\A d \in Coros : Justified(d))
  BY DEF Inv, QuietInv
<1> USE <1>0 DEF redis, locals, env, errors, hist, bounds
<1>1. ASSUME NEW c \in Coros, Handle(c) \/ Control(c) \/ Resumed(c),
             \A t \in Tasks : /\ sent'[t] <= 1 + unmarked'[t]
                              /\ \/ t \in InFlight(lists)' \/ ToMark(c, t)'
                                 \/ sent'[t] <= unmarked'[t]
      PROVE  SentCounted'
  BY <1>1, OthersOweNothing DEF SentCounted
<1>2. ASSUME NEW c \in Coros, Handle(c) \/ Control(c) \/ Resumed(c),
             UNCHANGED <<sent, unmarked>>, InFlight(lists) \subseteq InFlight(lists)',
             \A t \in Tasks : ToMark(c, t) => ToMark(c, t)' \/ t \in InFlight(lists)'
      PROVE  SentCounted'
  <2>1. \A t \in Tasks : t \in InFlight(lists) \/ ToMark(c, t) \/ sent[t] <= unmarked[t]
    BY <1>2, OthersOweNothing DEF SentCounted
  <2> QED
    BY <1>1, <1>2, <2>1 DEF SentCounted
<1>3. ASSUME NEW c \in Coros, Handle(c) PROVE SentCounted'
  <2>1. UNCHANGED <<sent, unmarked, lists>> /\ pc[c] = "idle"
    BY <1>3 DEF Handle, OnTaskCompleted, OnTaskFailed
  <2> QED
    BY <1>2, <1>3, <2>1 DEF ToMark, InFlight
<1>4. ASSUME NEW c \in Coros, Control(c) PROVE SentCounted'
  <2>1. apiCalls = 0 /\ UNCHANGED <<sent, unmarked>>
    BY <1>4, EngineAssumption DEF Control, StartWorkflow, PauseWorkflow, ResumeWorkflow,
       AbortWorkflow, Request, Quiet, OneAtATime
  <2>2. \A t \in Tasks : sent'[t] <= unmarked'[t] /\ sent'[t] <= 1 + unmarked'[t]
    BY <2>1 DEF OneAtATime, NothingSent, TypeOK
  <2> QED
    BY <1>1, <1>4, <2>2
<1>5. ASSUME NEW c \in Coros, SaveArtifacts(c) \/ SaveError(c) \/ CheckPaused(c) \/
             CheckPhase(c) \/ AdvancePhase(c) \/ PublishPhase(c) \/ PublishFailure(c) \/
             LoadFailed(c) \/ LoadBlocked(c) \/ LoadState(c) \/ GetReadyTasks(c) \/
             DispatchFails(c) \/ SetExpiry(c) \/ SetExecutionPhase(c)
      PROVE  SentCounted'
  <2>1. /\ UNCHANGED <<sent, unmarked, lists>>
        /\ pc[c] \notin {"loadRunning", "saveRunning", "startLoad"}
    BY <1>5 DEF SaveArtifacts, SaveError, CheckPaused, CheckPhase, AdvancePhase, PublishPhase,
       PublishFailure, LoadFailed, LoadBlocked, LoadState, GetReadyTasks, DispatchFails,
       SetExpiry, SetExecutionPhase
  <2>2. Resumed(c)
    BY <1>5 DEF Resumed, CompletedHandler, FailedHandler, DispatchLoop, StartSteps
  <2> QED
    BY <1>2, <2>1, <2>2 DEF ToMark, InFlight
<1>6. ASSUME NEW c \in Coros, SaveCompleted(c) \/ SaveFailed(c) \/ SaveBlocked(c)
      PROVE  SentCounted'
  <2>1. /\ UNCHANGED <<sent, unmarked>>
        /\ pc[c] \notin {"loadRunning", "saveRunning", "startLoad"}
        /\ cur[c] \in Tasks /\ lists \in Lists
        /\ lists' \in {MarkCompleted(lists, cur[c]), MarkFailed(lists, cur[c]),
                       MarkBlocked(lists, cur[c])}
    BY <1>6 DEF SaveCompleted, SaveFailed, SaveBlocked, SaveLists, UpToDate, Justified, TypeOK
  <2>2. Resumed(c)
    BY <1>6 DEF Resumed, CompletedHandler, FailedHandler, DispatchLoop, StartSteps
  <2>3. InFlight(lists') = InFlight(lists) \cup {cur[c]}
    BY <2>1, InFlightMarked
  <2>4. InFlight(lists)' = InFlight(lists')
    BY DEF InFlight
  <2> QED
    BY <1>2, <2>1, <2>2, <2>3, <2>4 DEF ToMark
<1>7. ASSUME NEW c \in Coros, DispatchTask(c) PROVE SentCounted'
  <2>1. Resumed(c)
    BY <1>7 DEF Resumed, DispatchLoop
  <2>2. PICK t \in todo[c] : /\ sent' = [sent EXCEPT ![t] = @ + 1]
                             /\ cur' = [cur EXCEPT ![c] = t]
    BY <1>7 DEF DispatchTask
  <2>3. pc[c] = "dispatch" /\ pc'[c] = "loadRunning" /\ UNCHANGED <<lists, unmarked>>
    BY <1>7 DEF DispatchTask, Goto, TypeOK
  <2>4. t \in Tasks /\ sent[t] <= unmarked[t]
    BY <2>2, <2>3 DEF UpToDate, TypeOK
  <2>5. ToMark(c, t)'
    BY <2>2, <2>3 DEF ToMark, TypeOK
  <2>6. sent'[t] <= 1 + unmarked'[t] /\ \A u \in Tasks : u # t => sent'[u] = sent[u]
    BY <2>2, <2>3, <2>4 DEF TypeOK
  <2>7. \A u \in Tasks : u \in InFlight(lists) \/ sent[u] <= unmarked[u]
    BY <2>1, <2>3, OthersOweNothing DEF SentCounted, ToMark
  <2>8. InFlight(lists)' = InFlight(lists)
    BY <2>3 DEF InFlight
  <2>9. \A u \in Tasks : sent[u] <= 1 + unmarked[u]
    BY DEF SentCounted
  <2> QED
    BY <1>1, <2>1, <2>3, <2>5, <2>6, <2>7, <2>8, <2>9
<1>8. ASSUME NEW c \in Coros, LoadRunning(c) PROVE SentCounted'
  <2>1. Resumed(c) /\ UNCHANGED <<sent, unmarked>> /\ InFlight(lists)' = InFlight(lists)
    BY <1>8 DEF Resumed, DispatchLoop, LoadRunning, InFlight
  <2>2. pc[c] = "loadRunning" /\ pc'[c] = "saveRunning" /\ cur' = cur
    BY <1>8 DEF LoadRunning, Goto, TypeOK
  <2> QED
    BY <1>2, <2>1, <2>2 DEF ToMark
<1>9. ASSUME NEW c \in Coros, SaveRunning(c) PROVE SentCounted'
  <2>1. Resumed(c) /\ UNCHANGED <<sent, unmarked, op, cur, todo>>
    BY <1>9 DEF Resumed, DispatchLoop, SaveRunning
  <2>2. pc[c] = "saveRunning" /\ pc'[c] = DispatchNext(c, todo[c])
        /\ lists' = MarkRunning(lists, cur[c]) /\ cur[c] \in Tasks /\ lists \in Lists
    BY <1>9 DEF SaveRunning, SaveLists, Goto, TypeOK, UpToDate, Justified
  <2>3. InFlight(lists)' = InFlight(lists) \cup {cur[c]}
    <3>1. InFlight(lists)' = InFlight(lists')
      BY DEF InFlight
    <3> QED
      BY <2>2, <3>1, InFlightMarked
  <2>4. \A t \in Tasks : ToMark(c, t) => t = cur[c] \/ (op[c] = "start" /\ t \in todo[c])
    BY DEF ToMark
  <2>5. \A t \in todo[c] : op[c] = "start" => ToMark(c, t)'
    BY <2>1, <2>2 DEF ToMark, DispatchNext
  <2> QED
    BY <1>2, <2>1, <2>3, <2>4, <2>5
<1>10. ASSUME NEW c \in Coros, GatherDispatch(c) PROVE SentCounted'
  <2>1. Resumed(c) /\ pc[c] = "gather" /\ op[c] = "start" /\ op'[c] = "start"
    BY <1>10 DEF Resumed, StartSteps, GatherDispatch, UpToDate
  <2>2. PICK accepted \in SUBSET todo[c] :
            /\ sent' = [t \in Tasks |-> IF t \in accepted THEN sent[t] + 1 ELSE sent[t]]
            /\ todo' = [todo EXCEPT ![c] = accepted]
            /\ Goto(c, DispatchNext(c, accepted))
    BY <1>10 DEF GatherDispatch
  <2>3. unmarked' = unmarked /\ \A t \in todo[c] : sent[t] <= unmarked[t]
    BY <1>10, <2>1 DEF GatherDispatch, UpToDate
  <2>4. \A t \in accepted : ToMark(c, t)'
    BY <2>1, <2>2 DEF ToMark, DispatchNext, Goto, TypeOK
  <2>5. \A u \in Tasks : /\ sent[u] <= 1 + unmarked[u]
                         /\ u \in InFlight(lists) \/ sent[u] <= unmarked[u]
    BY <2>1, OthersOweNothing DEF SentCounted, ToMark
  <2>6. \A t \in Tasks : IF t \in accepted THEN sent'[t] <= 1 + unmarked'[t]
                                            ELSE sent'[t] = sent[t]
    <3> SUFFICES ASSUME NEW t \in Tasks, t \in accepted PROVE sent'[t] <= 1 + unmarked'[t]
      BY <2>2
    <3>1. sent'[t] = sent[t] + 1 /\ sent[t] <= unmarked[t] /\ unmarked'[t] = unmarked[t]
      BY <2>2, <2>3
    <3>2. sent[t] \in Nat /\ unmarked[t] \in Nat
      BY DEF TypeOK
    <3> QED
      BY <3>1, <3>2
  <2>7. InFlight(lists)' = InFlight(lists)
    BY <1>10 DEF GatherDispatch, InFlight
  <2> QED
    BY <1>1, <2>1, <2>3, <2>4, <2>5, <2>6, <2>7
<1>11. ASSUME NEW c \in Coros, StartLoadRunning(c) PROVE SentCounted'
  <2>1. Resumed(c) /\ pc[c] = "startLoad" /\ op[c] = "start" /\ op'[c] = "start"
        /\ UNCHANGED <<sent, unmarked>>
    BY <1>11 DEF Resumed, StartSteps, StartLoadRunning, UpToDate
  <2>2. InFlight(lists)' = InFlight(lists)
    BY <1>11 DEF StartLoadRunning, InFlight
  <2>3. PICK t \in todo[c] : /\ cur' = [cur EXCEPT ![c] = t]
                             /\ todo' = [todo EXCEPT ![c] = @ \ {t}]
    BY <1>11 DEF StartLoadRunning
  <2>4. pc'[c] = "saveRunning"
    BY <1>11 DEF StartLoadRunning, Goto, TypeOK
  <2>5. cur'[c] = t /\ todo'[c] = todo[c] \ {t}
    BY <2>3 DEF TypeOK
  <2> QED
    BY <1>2, <2>1, <2>2, <2>4, <2>5 DEF ToMark
<1>12. ASSUME NEW c \in Coros, CleanupState(c) PROVE SentCounted'
  <2>1. Resumed(c) /\ UNCHANGED <<sent, unmarked>> /\ pc[c] = "delete"
    BY <1>12 DEF Resumed, CleanupState
  <2>2. \A t \in Tasks : sent'[t] <= unmarked'[t] /\ sent'[t] <= 1 + unmarked'[t]
    BY <2>1 DEF OneAtATime, NothingSent, TypeOK
  <2> QED
    BY <1>1, <2>1, <2>2
<1>13. ASSUME NEW t \in Tasks, NEW k \in Outcomes, WorkerDone(t, k) \/ WorkerRedelivered(t, k)
       PROVE  SentCounted'
  BY <1>13 DEF WorkerDone, WorkerRedelivered, WorkerOutcome, SentCounted, ToMark, InFlight
<1>14. CASE Housekeep \/ UNCHANGED vars
  BY <1>14 DEF Housekeep, vars, SentCounted, ToMark, InFlight
<1>15. CASE Crash
  <2>1. apiCalls = 0 /\ UNCHANGED <<sent, unmarked>>
    BY <1>15, EngineAssumption DEF Crash, Quiet, OneAtATime
  <2>2. \A t \in Tasks : sent'[t] <= unmarked'[t] /\ sent'[t] <= 1 + unmarked'[t]
    BY <2>1 DEF OneAtATime, NothingSent, TypeOK
  <2> QED
    BY <2>2 DEF SentCounted
<1>16. ~Expire
  BY DEF Expire, Quiet
<1>17. ASSUME NEW c \in Coros, CallRaises(c) PROVE SentCounted'
  <2>1. /\ Resumed(c) /\ UNCHANGED <<sent, lists>>
        /\ unmarked' = [t \in Tasks |-> IF ToMark(c, t) THEN unmarked[t] + 1 ELSE unmarked[t]]
    BY <1>17 DEF Resumed, CallRaises
  <2>2. InFlight(lists)' = InFlight(lists)
    BY <2>1 DEF InFlight
  <2>3. ASSUME NEW t \in Tasks
        PROVE  /\ sent'[t] <= 1 + unmarked'[t]
               /\ t \in InFlight(lists)' \/ sent'[t] <= unmarked'[t]
    <3>1. /\ sent[t] \in Nat /\ unmarked[t] \in Nat /\ sent'[t] = sent[t]
          /\ sent[t] <= 1 + unmarked[t]
      BY <2>1 DEF TypeOK, SentCounted
    <3>2. CASE ToMark(c, t)
      <4>1. unmarked'[t] = unmarked[t] + 1
        BY <2>1, <3>2
      <4> QED
        BY <3>1, <4>1
    <3>3. CASE ~ToMark(c, t)
      <4>1. unmarked'[t] = unmarked[t] /\ (t \in InFlight(lists) \/ sent[t] <= unmarked[t])
        BY <2>1, <3>3, OthersOweNothing DEF SentCounted
      <4> QED
        BY <2>2, <3>1, <4>1
    <3> QED
      BY <3>2, <3>3
  <2> QED
    BY <1>1, <2>1, <2>3
<1>18. ASSUME NEW c \in Coros, Resumed(c) PROVE SentCounted'
  BY <1>5, <1>6, <1>7, <1>8, <1>9, <1>10, <1>11, <1>12, <1>17, <1>18 DEF Resumed,
     CompletedHandler, FailedHandler, DispatchLoop, StartSteps
<1> QED
  BY <1>3, <1>4, <1>13, <1>14, <1>15, <1>16, <1>18 DEF Next, Worker

\* What is listed as active, or soon will be, has an outcome to come.
LEMMA ActiveOutstandingStep ==
    ASSUME Quiet, Inv, QuietInv, [Next]_vars
    PROVE  ActiveOutstanding'
<1>0. TypeOK /\ OneAtATime /\ SentCounted /\ ActiveOutstanding
      /\ (\A d \in Coros : UpToDate(d)) /\ (\A d \in Coros : Justified(d))
  BY DEF Inv, QuietInv
<1> USE <1>0 DEF redis, locals, env, errors, hist, bounds
<1>1. ASSUME NEW c \in Coros, Handle(c) \/ Control(c) \/ Resumed(c),
             \A t \in Tasks : t \in lists'["active"] \/ ToMark(c, t)' => Outstanding(t)'
      PROVE  ActiveOutstanding'
  BY <1>1, OthersOweNothing DEF ActiveOutstanding
<1>2. \A t \in Tasks : t \in lists["active"] => Outstanding(t)
  BY DEF ActiveOutstanding
<1>3. ASSUME NEW c \in Coros, Handle(c) \/ Control(c) \/ Resumed(c), NEW t \in Tasks,
             Outstanding(t), inflight' = inflight,
             \A k \in Outcomes : events[k][t] > 0 => events'[k][t] > 0,
             Handling(c, t) => Handling(c, t)'
      PROVE  Outstanding(t)'
  BY <1>3, OthersOweNothing DEF Outstanding
<1>4. ASSUME NEW c \in Coros, Handle(c) PROVE ActiveOutstanding'
  <2>1. PICK k \in Outcomes, t \in Tasks :
            /\ events' = [events EXCEPT ![k][t] = @ - 1] /\ cur' = [cur EXCEPT ![c] = t]
            /\ events[k][t] > 0
    BY <1>4 DEF Handle, OnTaskCompleted, OnTaskFailed, Outcomes
  <2>2. /\ lists' = lists /\ inflight' = inflight /\ pc[c] = "idle"
        /\ pc'[c] \in {"saveCompleted", "publishFailure"} \/ ~hasGraph
    BY <1>4 DEF Handle, OnTaskCompleted, OnTaskFailed, Goto, TypeOK
  <2>3. hasGraph
    BY <2>1 DEF OneAtATime, NothingSent
  <2>4. cur'[c] = t
    BY <2>1 DEF TypeOK
  <2>5. Handling(c, t)' /\ \A u \in Tasks : ~ToMark(c, u)'
    BY <2>2, <2>3, <2>4 DEF Handling, ToMark
  <2>6. ASSUME NEW u \in Tasks, Outstanding(u), u # t PROVE Outstanding(u)'
    <3>1. \A h \in Outcomes : events'[h][u] = events[h][u]
      BY <2>1, <2>6 DEF TypeOK
    <3>2. ~Handling(c, u)
      BY <2>2 DEF Handling
    <3> QED
      BY <1>4, <2>2, <2>6, <3>1, <3>2, OthersOweNothing DEF Outstanding
  <2>7. Outstanding(t)'
    BY <2>5 DEF Outstanding
  <2> QED
    BY <1>1, <1>2, <1>4, <2>2, <2>5, <2>6, <2>7
<1>5. ASSUME NEW c \in Coros, Control(c) PROVE ActiveOutstanding'
  <2>1. apiCalls = 0 /\ UNCHANGED <<inflight, events>>
    BY <1>5, EngineAssumption DEF Control, StartWorkflow, PauseWorkflow, ResumeWorkflow,
       AbortWorkflow, Request, Quiet, OneAtATime
  <2>2. pc[c] = "idle"
    BY <2>1 DEF OneAtATime, Busy
  <2>3. /\ pc'[c] \in {"idle", "expire", "loadState", "delete"}
        /\ lists' = lists \/ lists' = Blank
    BY <1>5, <2>2 DEF Control, StartWorkflow, PauseWorkflow, ResumeWorkflow, AbortWorkflow,
       Request, Goto, TypeOK
  <2>4. \A t \in Tasks : t \in lists'["active"] => t \in lists["active"]
    BY <2>3 DEF Blank, ListNames
  <2>5. \A t \in Tasks : ~Handling(c, t) /\ ~ToMark(c, t)'
    BY <2>2, <2>3 DEF Handling, ToMark
  <2> QED
    BY <1>1, <1>2, <1>3, <1>5, <2>1, <2>4, <2>5
<1>6. ASSUME NEW c \in Coros, Resumed(c), inflight' = inflight,
             \A t \in Tasks, k \in Outcomes : events[k][t] > 0 => events'[k][t] > 0,
             \A t \in Tasks : ToMark(c, t)' => ToMark(c, t),
             \A t \in Tasks : t \in lists'["active"] => t \in lists["active"] \/ ToMark(c, t),
             \A t \in Tasks : Handling(c, t) => Handling(c, t)' \/ t \notin lists'["active"],
             \A t \in Tasks : ~Handling(c, t) \/ ~ToMark(c, t)'
      PROVE  ActiveOutstanding'
  <2>1. \A t \in Tasks : t \in lists["active"] \/ ToMark(c, t) => Outstanding(t)
    BY <1>6 DEF ActiveOutstanding
  <2>2. ASSUME NEW t \in Tasks, t \in lists'["active"] \/ ToMark(c, t)' PROVE Outstanding(t)'
    BY <1>3, <1>6, <2>1, <2>2
  <2> QED
    BY <1>1, <1>6, <2>2
<1>7. ASSUME NEW c \in Coros, SaveArtifacts(c) \/ SaveError(c) \/ CheckPaused(c) \/
             CheckPhase(c) \/ AdvancePhase(c) \/ PublishPhase(c) \/ LoadFailed(c) \/
             LoadBlocked(c) \/ LoadState(c) \/ GetReadyTasks(c) \/ DispatchFails(c) \/
             LoadRunning(c) \/ SetExpiry(c) \/ SetExecutionPhase(c)
      PROVE  ActiveOutstanding'
  <2>1. Resumed(c) /\ UNCHANGED <<inflight, events, lists, op>>
    BY <1>7 DEF Resumed, CompletedHandler, FailedHandler, DispatchLoop, StartSteps,
       SaveArtifacts, SaveError, CheckPaused, CheckPhase, AdvancePhase, PublishPhase,
       LoadFailed, LoadBlocked, LoadState, GetReadyTasks, DispatchFails, LoadRunning, SetExpiry,
       SetExecutionPhase
  <2>2. /\ pc[c] \notin {"saveCompleted", "saveFailed", "saveRunning", "startLoad"}
        /\ pc[c] # "publishFailure"
        /\ pc[c] = "loadFailed" => pc'[c] = "saveFailed" /\ cur' = cur
        /\ pc[c] = "loadRunning" => pc'[c] = "saveRunning" /\ cur' = cur
        /\ pc[c] # "loadRunning" => pc'[c] \notin {"loadRunning", "saveRunning"}
        /\ pc'[c] = "startLoad" => op[c] = "start" /\ pc[c] \in {"ready", "dispatch"}
    BY <1>7 DEF SaveArtifacts, SaveError, CheckPaused, CheckPhase, AdvancePhase, PublishPhase,
       LoadFailed, LoadBlocked, LoadState, GetReadyTasks, DispatchFails, DispatchNext,
       LoadRunning, SetExpiry, SetExecutionPhase, Goto, TypeOK
  <2>3. pc'[c] # "startLoad"
    <3>1. CASE pc[c] = "ready"
      <4>1. pc'[c] = IF op[c] = "start" /\ Ready(lists) # {} THEN "gather"
                     ELSE DispatchNext(c, Ready(lists))
        BY <1>7, <3>1 DEF SaveArtifacts, SaveError, CheckPaused, CheckPhase, AdvancePhase,
           PublishPhase, LoadFailed, LoadBlocked, LoadState, GetReadyTasks, DispatchFails,
           LoadRunning, SetExpiry, SetExecutionPhase, Goto, TypeOK
      <4> QED
        BY <2>2, <4>1 DEF DispatchNext
    <3>2. CASE pc[c] = "dispatch"
      BY <2>2, <3>2 DEF UpToDate
    <3> QED
      BY <2>2, <3>1, <3>2
  <2>4. pc[c] = "loadRunning" => op[c] # "start"
    BY DEF UpToDate
  <2>5. \A t \in Tasks : /\ Handling(c, t) => Handling(c, t)'
                         /\ ToMark(c, t)' => ToMark(c, t)
                         /\ ~Handling(c, t) \/ ~ToMark(c, t)'
    BY <2>1, <2>2, <2>3, <2>4 DEF Handling, ToMark
  <2> QED
    BY <1>6, <2>1, <2>5
<1>8. ASSUME NEW c \in Coros, SaveCompleted(c) \/ SaveFailed(c) \/ SaveBlocked(c)
      PROVE  ActiveOutstanding'
  <2>1. Resumed(c) /\ UNCHANGED <<inflight, events>>
    BY <1>8 DEF Resumed, CompletedHandler, FailedHandler, SaveCompleted, SaveFailed, SaveBlocked
  <2>2. /\ pc'[c] \in {"saveArtifacts", "loadState", "saveError", "loadBlocked", "idle"}
        /\ cur[c] \in Tasks /\ lists \in Lists
        /\ lists' \in {MarkCompleted(lists, cur[c]), MarkFailed(lists, cur[c]),
                       MarkBlocked(lists, cur[c])}
    BY <1>8 DEF SaveCompleted, SaveFailed, SaveBlocked, SaveLists, Goto, UpToDate, Justified,
       TypeOK
  <2>3. lists'["active"] = lists["active"] \ {cur[c]}
    BY <2>2, ActiveMarked
  <2> QED
    BY <1>6, <2>1, <2>2, <2>3 DEF Handling, ToMark
<1>9. ASSUME NEW c \in Coros, DispatchTask(c) PROVE ActiveOutstanding'
  <2>1. Resumed(c) /\ UNCHANGED <<events, lists, op>>
    BY <1>9 DEF Resumed, DispatchLoop, DispatchTask
  <2>2. PICK t \in todo[c] : /\ inflight' = [inflight EXCEPT ![t] = @ + 1]
                             /\ cur' = [cur EXCEPT ![c] = t]
    BY <1>9 DEF DispatchTask
  <2>3. pc[c] = "dispatch" /\ pc'[c] = "loadRunning" /\ op[c] # "start"
    BY <1>9 DEF DispatchTask, Goto, UpToDate, TypeOK
  <2>4. /\ t \in Tasks /\ inflight'[t] > 0
        /\ \A u \in Tasks : inflight[u] > 0 => inflight'[u] > 0
    BY <2>2 DEF TypeOK
  <2>5. Outstanding(t)'
    BY <2>4 DEF Outstanding
  <2>6. \A u \in Tasks : ToMark(c, u)' => u = t
    BY <2>1, <2>2, <2>3 DEF ToMark, TypeOK
  <2>7. ASSUME NEW u \in Tasks, Outstanding(u) PROVE Outstanding(u)'
    <3>1. ~Handling(c, u)
      BY <2>3 DEF Handling
    <3> QED
      BY <2>1, <2>4, <2>7, <3>1, OthersOweNothing DEF Outstanding
  <2> QED
    BY <1>1, <1>2, <2>1, <2>5, <2>6, <2>7
<1>10. ASSUME NEW c \in Coros, SaveRunning(c) PROVE ActiveOutstanding'
  <2>1. Resumed(c) /\ UNCHANGED <<inflight, events, op, cur, todo>>
    BY <1>10 DEF Resumed, DispatchLoop, SaveRunning
  <2>2. pc[c] = "saveRunning" /\ pc'[c] = DispatchNext(c, todo[c])
        /\ lists' = MarkRunning(lists, cur[c]) /\ cur[c] \in Tasks /\ lists \in Lists
    BY <1>10 DEF SaveRunning, SaveLists, Goto, TypeOK, UpToDate, Justified
  <2>3. lists'["active"] = lists["active"] \cup {cur[c]}
    BY <2>2, ActiveMarked
  <2>4. \A t \in Tasks : ToMark(c, t)' => ToMark(c, t)
    BY <2>1, <2>2 DEF ToMark, DispatchNext
  <2> QED
    BY <1>6, <2>1, <2>2, <2>3, <2>4 DEF ToMark, Handling
<1>11. ASSUME NEW c \in Coros, GatherDispatch(c) PROVE ActiveOutstanding'
  <2>1. Resumed(c) /\ pc[c] = "gather" /\ op[c] = "start" /\ UNCHANGED <<events, lists, op>>
    BY <1>11 DEF Resumed, StartSteps, GatherDispatch, UpToDate
  <2>2. PICK accepted \in SUBSET todo[c] :
            /\ inflight' = [t \in Tasks |-> IF t \in accepted THEN inflight[t] + 1
                                                             ELSE inflight[t]]
            /\ todo' = [todo EXCEPT ![c] = accepted]
            /\ Goto(c, DispatchNext(c, accepted))
    BY <1>11 DEF GatherDispatch
  <2>3. pc'[c] \in {"startLoad", "idle"} /\ todo'[c] = accepted
    BY <2>1, <2>2 DEF DispatchNext, Goto, TypeOK
  <2>4. \A t \in Tasks : /\ inflight[t] > 0 => inflight'[t] > 0
                         /\ t \in accepted => inflight'[t] > 0
    BY <2>2 DEF TypeOK
  <2>5. ASSUME NEW t \in Tasks, ToMark(c, t)' PROVE Outstanding(t)'
    <3>1. t \in accepted
      BY <2>3, <2>5 DEF ToMark
    <3> QED
      BY <2>4, <3>1 DEF Outstanding
  <2>6. ASSUME NEW t \in Tasks, Outstanding(t) PROVE Outstanding(t)'
    <3>1. ~Handling(c, t)
      BY <2>1 DEF Handling
    <3> QED
      BY <2>1, <2>4, <2>6, <3>1, OthersOweNothing DEF Outstanding
  <2> QED
    BY <1>1, <1>2, <2>1, <2>5, <2>6
<1>12. ASSUME NEW c \in Coros, StartLoadRunning(c) PROVE ActiveOutstanding'
  <2>1. Resumed(c) /\ pc[c] = "startLoad" /\ op[c] = "start" /\ op'[c] = "start"
        /\ UNCHANGED <<inflight, events, lists>>
    BY <1>12 DEF Resumed, StartSteps, StartLoadRunning, UpToDate
  <2>2. PICK t \in todo[c] : /\ cur' = [cur EXCEPT ![c] = t]
                             /\ todo' = [todo EXCEPT ![c] = @ \ {t}]
    BY <1>12 DEF StartLoadRunning
  <2>3. pc'[c] = "saveRunning"
    BY <1>12 DEF StartLoadRunning, Goto, TypeOK
  <2>4. cur'[c] = t /\ todo'[c] = todo[c] \ {t}
    BY <2>2 DEF TypeOK
  <2>5. \A u \in Tasks : (ToMark(c, u)' => ToMark(c, u)) /\ ~Handling(c, u)
    BY <2>1, <2>3, <2>4 DEF ToMark, Handling
  <2> QED
    BY <1>6, <2>1, <2>5
<1>13. ASSUME NEW c \in Coros, CleanupState(c) PROVE ActiveOutstanding'
  <2>1. Resumed(c) /\ lists'["active"] = {} /\ pc'[c] = "idle"
    BY <1>13 DEF Resumed, CleanupState, Forget, Goto, Blank, ListNames, TypeOK
  <2> QED
    BY <1>1, <2>1 DEF ToMark
<1>14. ASSUME NEW t \in Tasks, NEW k \in Outcomes, WorkerDone(t, k) \/ WorkerRedelivered(t, k)
       PROVE  ActiveOutstanding'
  <2>1. UNCHANGED <<lists, pc, op, cur, todo>> /\ events' = [events EXCEPT ![k][t] = @ + 1]
    BY <1>14 DEF WorkerDone, WorkerRedelivered, WorkerOutcome
  <2>2. \A u \in Tasks : u # t => inflight'[u] = inflight[u]
    BY <1>14 DEF WorkerDone, WorkerRedelivered, TypeOK
  <2>3. /\ events'[k][t] > 0
        /\ \A h \in Outcomes, u \in Tasks : events[h][u] > 0 => events'[h][u] > 0
    BY <2>1 DEF TypeOK
  <2>4. Outstanding(t)'
    BY <2>3 DEF Outstanding
  <2>5. ASSUME NEW u \in Tasks, u # t, Outstanding(u) PROVE Outstanding(u)'
    BY <2>1, <2>2, <2>3, <2>5 DEF Outstanding, Handling
  <2> QED
    BY <2>1, <2>4, <2>5 DEF ActiveOutstanding, ToMark
<1>15. CASE Housekeep \/ UNCHANGED vars
  BY <1>15 DEF Housekeep, vars, ActiveOutstanding, Outstanding, ToMark, Handling
<1>16. CASE Crash
  <2>1. apiCalls = 0 /\ UNCHANGED <<lists, inflight, events>> /\ \A c \in Coros : pc'[c] = "idle"
    BY <1>16, EngineAssumption DEF Crash, Quiet, OneAtATime
  <2>2. \A c \in Coros : pc[c] = "idle"
    BY <2>1 DEF OneAtATime, Busy
  <2> QED
    BY <2>1, <2>2 DEF ActiveOutstanding, Outstanding, ToMark, Handling
<1>17. ~Expire
  BY DEF Expire, Quiet
<1>18. ASSUME NEW c \in Coros, PublishFailure(c) PROVE ActiveOutstanding'
  <2>1. Resumed(c) /\ UNCHANGED <<inflight, lists, cur>>
    BY <1>18 DEF Resumed, FailedHandler, PublishFailure
  <2>2. pc[c] = "publishFailure" /\ pc'[c] = "loadFailed" /\ cur[c] \in Tasks
    BY <1>18 DEF PublishFailure, Goto, TypeOK, Justified
  <2>3. PICK n \in 0 .. 2 : events' = [events EXCEPT !["failed"][cur[c]] = @ + n]
    BY <1>18 DEF PublishFailure
  <2>4. \A t \in Tasks, k \in Outcomes : events[k][t] > 0 => events'[k][t] > 0
    BY <2>2, <2>3 DEF TypeOK
  <2>5. \A t \in Tasks : ~ToMark(c, t)' /\ (Handling(c, t) => Handling(c, t)')
    BY <2>1, <2>2 DEF ToMark, Handling
  <2> QED
    BY <1>6, <2>1, <2>4, <2>5
<1>19. ASSUME NEW c \in Coros, CallRaises(c) PROVE ActiveOutstanding'
  <2>1. Resumed(c) /\ UNCHANGED <<inflight, events, lists, op>>
    BY <1>19 DEF Resumed, CallRaises
  <2>2. /\ pc[c] \in {"startLoad", "loadRunning", "saveRunning"}
        /\ pc'[c] \in {"dispatch", "checkPhase", "idle"}
    BY <1>19 DEF CallRaises, Quiet, DispatchNext, Goto, TypeOK
  <2>3. \A t \in Tasks : ~ToMark(c, t)' /\ ~Handling(c, t)
    BY <2>2 DEF ToMark, Handling
  <2> QED
    BY <1>6, <2>1, <2>3
<1>20. ASSUME NEW c \in Coros, Resumed(c) PROVE ActiveOutstanding'
  BY <1>7, <1>8, <1>9, <1>10, <1>11, <1>12, <1>13, <1>18, <1>19, <1>20 DEF Resumed,
     CompletedHandler, FailedHandler, DispatchLoop, StartSteps
<1> QED
  BY <1>4, <1>5, <1>14, <1>15, <1>16, <1>17, <1>20 DEF Next, Worker

LEMMA QuietInit == ASSUME Init PROVE QuietInv
<1>1. \A c \in Coros : pc[c] = "idle"
  BY DEF Init
<1>2. OneAtATime
  BY <1>1 DEF Init, OneAtATime, NothingSent, Busy, Outcomes
<1>3. \A c \in Coros : UpToDate(c)
  BY <1>1 DEF UpToDate
<1>4. \A c \in Coros, t \in Tasks : ~ToMark(c, t)
  BY <1>1 DEF ToMark
<1>5. SentCounted
  <2>1. \A t \in Tasks : sent[t] = 0 /\ unmarked[t] = 0
    BY DEF Init
  <2>2. ASSUME NEW t \in Tasks PROVE sent[t] <= 1 + unmarked[t] /\ sent[t] <= unmarked[t]
    BY <2>1
  <2> QED
    BY <2>2 DEF SentCounted
<1>6. ActiveOutstanding
  BY <1>4 DEF Init, ActiveOutstanding, Blank, ListNames
<1> QED
  BY <1>2, <1>3, <1>5, <1>6 DEF QuietInv

LEMMA QuietNext == ASSUME Quiet, Inv, QuietInv, [Next]_vars PROVE QuietInv'
<1>1. OneAtATime'
  BY OneAtATimeStep DEF Inv, QuietInv
<1>2. (\A c \in Coros : UpToDate(c))'
  BY UpToDateStep
<1>3. SentCounted' /\ ActiveOutstanding'
  BY SentCountedStep, ActiveOutstandingStep
<1> QED
  BY <1>1, <1>2, <1>3 DEF QuietInv

\* In the quiet regime the coroutines take turns, and whatever was sent is in
\* the lists, about to be, or was sent as often as its mark was lost.
THEOREM QuietInvariance == Quiet => (Spec => []QuietInv)
<1> SUFFICES ASSUME Quiet PROVE Spec => []QuietInv
  OBVIOUS
<1>1. Init => QuietInv
  BY QuietInit
<1>2. Inv /\ QuietInv /\ [Next]_vars => QuietInv'
  BY QuietNext
<1> QED
  BY <1>1, <1>2, Invariance, PTL DEF Spec

\* A task is sent once, and once more for every mark as running that was lost,
\* however often Celery repeats a message or an outcome, as long as the control
\* request is over before the first worker answers.
THEOREM OneDispatchAtMost == Quiet => (Spec => []AtMostOneDispatch)
<1> SUFFICES ASSUME Quiet PROVE Spec => []AtMostOneDispatch
  OBVIOUS
<1>1. QuietInv => AtMostOneDispatch
  BY DEF QuietInv, SentCounted, AtMostOneDispatch
<1>2. Spec => []QuietInv
  BY QuietInvariance
<1> QED
  BY <1>1, <1>2, PTL

\* With the engine at rest, a worker holds every task that is listed as active.
THEOREM ActiveNeverGhost == Quiet => (Spec => []NoGhostActive)
<1> SUFFICES ASSUME Quiet PROVE Spec => []NoGhostActive
  OBVIOUS
<1>1. Inv /\ QuietInv => NoGhostActive
  <2> SUFFICES ASSUME Inv, QuietInv, Quiescent, NEW t \in lists["active"]
               PROVE  inflight[t] > 0
    BY DEF NoGhostActive
  <2>1. t \in Tasks
    BY DEF Inv, TypeOK, Lists, ListNames
  <2>2. Outstanding(t)
    BY <2>1 DEF QuietInv, ActiveOutstanding
  <2>3. \A c \in Coros : ~Handling(c, t)
    BY DEF Quiescent, Handling
  <2> QED
    BY <2>1, <2>2, <2>3 DEF Quiescent, Outstanding
<1>2. Spec => []QuietInv
  BY QuietInvariance
<1> QED
  BY <1>1, <1>2, Invariance, PTL

\* The phase moves one step at a time: the handler that advances it has read
\* the phase that is still current.
THEOREM PhasesAlwaysStepwise == Quiet => (Spec => PhaseStepwise)
<1> SUFFICES ASSUME Quiet PROVE Spec => PhaseStepwise
  OBVIOUS
<1>1. Inv /\ QuietInv /\ [Next]_vars
        => [phase' \in {PHASE_TRANSITIONS[phase], "execution", "intent"}]_phase
  <2> SUFFICES ASSUME Inv, QuietInv, [Next]_vars, phase' # phase
               PROVE  phase' \in {PHASE_TRANSITIONS[phase], "execution", "intent"}
    OBVIOUS
  <2> USE DEF redis, locals, env, errors, hist, bounds
  <2>1. ASSUME NEW c \in Coros, Resumed(c)
        PROVE  phase' \in {PHASE_TRANSITIONS[phase], "execution", "intent"}
    <3>1. AdvancePhase(c) \/ SetExecutionPhase(c) \/ CleanupState(c)
      BY <2>1 DEF Resumed, CompletedHandler, FailedHandler, DispatchLoop, StartSteps,
         SaveCompleted, SaveArtifacts, SaveError, CallRaises, SaveLists, CheckPaused,
         CheckPhase, PublishPhase, PublishFailure, LoadFailed, SaveFailed, LoadBlocked,
         SaveBlocked, LoadState, GetReadyTasks, DispatchTask, DispatchFails, LoadRunning,
         SaveRunning, SetExpiry, GatherDispatch, StartLoadRunning
    <3>2. CASE AdvancePhase(c)
      BY <3>2 DEF AdvancePhase, QuietInv, UpToDate
    <3> QED
      BY <3>1, <3>2 DEF SetExecutionPhase, CleanupState, Forget
  <2>2. ASSUME NEW c \in Coros, Handle(c) \/ Control(c)
        PROVE  phase' \in {PHASE_TRANSITIONS[phase], "execution", "intent"}
    BY <2>2 DEF Handle, Control, OnTaskCompleted, OnTaskFailed, StartWorkflow, PauseWorkflow,
       ResumeWorkflow, AbortWorkflow
  <2>3. ASSUME NEW t \in Tasks, Worker(t) PROVE FALSE
    BY <2>3 DEF Worker, WorkerDone, WorkerRedelivered, WorkerOutcome
  <2>4. CASE Expire \/ Housekeep \/ Crash \/ UNCHANGED vars
    BY <2>4 DEF Expire, Forget, Housekeep, Crash, vars
  <2> QED
    BY <2>1, <2>2, <2>3, <2>4 DEF Next
<1>2. Spec => []QuietInv
  BY QuietInvariance
<1> QED
  BY <1>1, <1>2, Invariance, PTL DEF Spec, PhaseStepwise
===============================================================================
