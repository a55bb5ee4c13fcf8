------------------------------ MODULE MCWorkflow ------------------------------
(* Instances of WorkflowEngine for TLC.                                     *)
EXTENDS WorkflowInvariant

\* Two parallel execution tasks below a specification task, and a
\* verification task that joins them.
DiamondTasks == {"s", "e1", "e2", "v"}
DiamondDeps  == [s |-> {}, e1 |-> {"s"}, e2 |-> {"s"}, v |-> {"e1", "e2"}]
DiamondPhase == [s |-> "specification", e1 |-> "execution",
                 e2 |-> "execution", v |-> "verification"]

\* A task and the one that depends on it.
ChainTasks == {"e1", "v"}
ChainDeps  == [e1 |-> {}, v |-> {"e1"}]
ChainPhase == [e1 |-> "execution", v |-> "verification"]
===============================================================================
