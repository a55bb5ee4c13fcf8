------------------------------ MODULE MCTaskGraph -----------------------------
(* Instances of TaskGraphProperties for TLC.                                *)
EXTENDS TaskGraphProperties

\* Every graph over three tasks, cycles and self-loops included.
ThreeTasks ==
    LET T == {"a", "b", "c"}
    IN  [tasks : {T}, deps : [T -> SUBSET T], minutes : [T -> {1, 3}]]

\* Every acyclic graph over four ordered tasks.
FourTasks ==
    LET T == 1 .. 4
    IN  [tasks : {T}, deps : {f \in [T -> SUBSET T] : \A t \in T : f[t] \subseteq 1 .. t - 1},
         minutes : [T -> {1, 3}]]

NoTasks == [tasks |-> {}, deps |-> <<>>, minutes |-> <<>>]

Service1 == [name |-> <<"shop">>, kind |-> "backend"]
Service2 == [name |-> <<"web">>, kind |-> "frontend"]
\* A name whose words meet those of another service's api_client.
Service3 == [name |-> <<"web", "api">>, kind |-> "frontend"]
Service4 == [name |-> <<"shop", "tests">>, kind |-> "worker"]

MCPlans == {{}, {Service1}, {Service2}, {Service2, Service3}, {Service1, Service4}}
Generated == {Generate(plan) : plan \in MCPlans}

SmallGraphs == ThreeTasks \cup FourTasks \cup {NoTasks}
WebPlan == {{Service2}}
WebGraph == {Generate({Service2})}
AllGraphs == SmallGraphs \cup Generated
===============================================================================
