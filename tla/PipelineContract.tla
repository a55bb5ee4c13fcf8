--------------------------- MODULE PipelineContract ---------------------------
(***************************************************************************)
(* What the orchestration core owes to the owner of a task graph, without  *)
(* queues, events, lists or coroutines: a task is started only after its   *)
(* dependencies have succeeded, an outcome belongs to a task that was      *)
(* started, and a phase is announced as completed only once each of its    *)
(* tasks has succeeded, has failed or is cut off by a failed dependency.   *)
(* WorkflowEngine implements it (WorkflowProperties!ImplementsContract).   *)
(***************************************************************************)
CONSTANTS Tasks, Deps, PhaseOf, Phases

VARIABLES started, succeeded, failed, announced
pipeline == <<started, succeeded, failed, announced>>

Init == started = {} /\ succeeded = {} /\ failed = {} /\ announced = {}

\* Any number of tasks may be started in one step.
Start == \E some \in SUBSET Tasks :
    /\ \A t \in some : Deps[t] \subseteq succeeded
    /\ started' = started \cup some
    /\ UNCHANGED <<succeeded, failed, announced>>

\* A task that was run twice may succeed once and fail once.
Succeed(t) == /\ t \in started
              /\ succeeded' = succeeded \cup {t}
              /\ UNCHANGED <<started, failed, announced>>

Fail(t) == /\ t \in started
           /\ failed' = failed \cup {t}
           /\ UNCHANGED <<started, succeeded, announced>>

Settled(t) == t \in succeeded \cup failed \/ Deps[t] \cap failed # {}

Announce(p) == /\ \A t \in Tasks : PhaseOf[t] = p => Settled(t)
               /\ announced' = announced \cup {p}
               /\ UNCHANGED <<started, succeeded, failed>>

Next == \/ Start
        \/ \E t \in Tasks : Succeed(t) \/ Fail(t)
        \/ \E p \in Phases : Announce(p)

Spec == Init /\ [][Next]_pipeline
===============================================================================
