------------------------- MODULE TaskGraphGeneration -------------------------
(***************************************************************************)
(* The task graph that TaskGraphEngine.generate (task_graph.py) builds for *)
(* the services of an architecture plan: the tasks of the five builders    *)
(* and the edges of _calculate_dependencies.                               *)
(*                                                                         *)
(* A task stands for its task_id "phase:role:name".  The name is the       *)
(* sequence of the words the code joins with underscores where it splits   *)
(* them again, and a single word where it compares the name as a whole.    *)
(***************************************************************************)
EXTENDS Naturals, Sequences, FiniteSets

Task(phase, role, name) == [phase |-> phase, role |-> role, name |-> name]

SpecificationTasks ==
    {Task("specification", "architect", <<c>>) :
        c \in {"prd", "db_schema", "api_contract", "ui_structure", "permissions"}}

ArchitectureTasks ==
    {Task("architecture", "architect", <<c>>) :
        c \in {"service_topology", "data_flow", "infra_plan", "security_arch"}}

\* A plan is a set of services [name, kind].
BackendServices(plan) == {s \in plan : s.kind \in {"backend", "worker"}}
FrontendServices(plan) == {s \in plan : s.kind = "frontend"}

ExecutionTasks(plan) ==
         {Task("execution", "backend", Append(s.name, c)) :
            s \in BackendServices(plan),
            c \in {"models", "services", "routes", "schemas", "tests"}}
    \cup {Task("execution", "frontend", s.name \o c) :
            s \in FrontendServices(plan),
            c \in {<<"pages">>, <<"components">>, <<"state">>, <<"api", "client">>}}
    \cup {Task("execution", "infra", <<c>>) :
            c \in {"dockerfile", "docker_compose", "k8s_manifests",
                   "terraform", "ci_cd", "env_config"}}

VerificationTasks ==
         {Task("verification", "qa", <<c>>) :
            c \in {"run_tests", "lint", "type_check", "performance_test"}}
    \cup {Task("verification", "security", <<"security_scan">>)}

DeploymentTasks ==
    {Task("deployment", "infra", <<c>>) :
        c \in {"build_images", "push_registry", "apply_migrations",
               "deploy_services", "smoke_tests"}}

TasksOf(plan) == SpecificationTasks \cup ArchitectureTasks \cup ExecutionTasks(plan)
                     \cup VerificationTasks \cup DeploymentTasks

-----------------------------------------------------------------------------
(* The edge rules: <<task, dependency>> pairs.                              *)

\* Mutant: deployment does not wait for verification.
PhaseOrderUnverified == {<<"architecture", "specification">>,
                         <<"execution", "architecture">>, <<"verification", "execution">>}

PhaseOrder == {<<"architecture", "specification">>, <<"execution", "architecture">>,
               <<"verification", "execution">>, <<"deployment", "verification">>}

\* The name is split at its last underscore: service, then suffix.
Service(t) == SubSeq(t.name, 1, Len(t.name) - 1)
Suffix(t)  == t.name[Len(t.name)]

\* Mutant: the models are written against the tests.
BackendOrderTestsFirst == {<<"services", "models">>, <<"models", "tests">>,
                           <<"tests", "routes">>, <<"routes", "services">>}

BackendOrder == {<<"services", "models">>,
                 <<"routes", "services">>, <<"routes", "schemas">>,
                 <<"tests", "routes">>, <<"tests", "services">>}

\* No suffix is the word "api_client": it is split into "api" and "client".
FrontendOrder == {<<"pages", "components">>, <<"pages", "api_client">>,
                  <<"state", "api_client">>}

InfraOrder == {<<"k8s_manifests", "dockerfile">>, <<"terraform", "dockerfile">>,
               <<"ci_cd", "k8s_manifests">>, <<"ci_cd", "terraform">>}

DeploymentOrder == {<<"push_registry", "build_images">>,
                    <<"apply_migrations", "push_registry">>,
                    <<"deploy_services", "apply_migrations">>,
                    <<"smoke_tests", "deploy_services">>}

Both(t, d, phase, role) == /\ t.phase = phase /\ d.phase = phase
                           /\ t.role = role /\ d.role = role

DependsOn(t, d) ==
    \/ <<t.phase, d.phase>> \in PhaseOrder
    \/ /\ Both(t, d, "execution", "backend") /\ Service(t) = Service(d)
       /\ <<Suffix(t), Suffix(d)>> \in BackendOrder
    \/ /\ Both(t, d, "execution", "frontend") /\ Service(t) = Service(d)
       /\ <<Suffix(t), Suffix(d)>> \in FrontendOrder
    \/ /\ Both(t, d, "execution", "infra")
       /\ <<Suffix(t), Suffix(d)>> \in InfraOrder
    \/ /\ Both(t, d, "deployment", "infra")
       /\ <<Suffix(t), Suffix(d)>> \in DeploymentOrder

\* Every role's token estimate rounds to one minute or less.
EstimatedMinutes(t) == 1

Generate(plan) ==
    LET tasks == TasksOf(plan)
    IN  [tasks   |-> tasks,
         deps    |-> [t \in tasks |-> {d \in tasks : DependsOn(t, d)}],
         minutes |-> [t \in tasks |-> EstimatedMinutes(t)]]
===============================================================================
