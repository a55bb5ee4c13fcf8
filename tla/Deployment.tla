------------------------------ MODULE Deployment ------------------------------
(***************************************************************************)
(* DeploymentEngine and RollbackManager (core/deployment/engine.py,        *)
(* rollback.py) for one project and environment, with one engine that      *)
(* serves concurrent requests.  Each request is a coroutine that loses the *)
(* loop while a provisioning command runs and while the health endpoint is *)
(* polled.  The registries of the two classes are always written in the    *)
(* same step, so they are one: the deployments whose record is registered. *)
(*                                                                         *)
(* A deployment's id is its place in `records`, in the order in which the  *)
(* records are constructed, which is that of their created_at.  Left out   *)
(* is health_status, which check_health writes and no decision reads.      *)
(*                                                                         *)
(* What a provisioning command makes of a configuration depends on its     *)
(* target.  The health check polls the same local address whatever the     *)
(* target is, so one service is live: what the last command put there.     *)
(***************************************************************************)
EXTENDS Naturals, Sequences, FiniteSetsExt

CONSTANTS
    Requests,       \* coroutines that serve deployment requests
    Configs,        \* deployment configurations
    Healthy,        \* those whose service answers the health check
    Unprobed,       \* those without a health_check_path
    NeedSecrets,    \* those whose service needs the project's secrets
    Means,          \* what the command of a configuration's target is given
    MaxRecords,     \* bound: records constructed
    MaxUpkeep       \* bound: restarts and calls of disable_rollback

ASSUME NoConfigAssumption == {"no_config", "workspace"} \cap Configs = {}
ASSUME DeploymentAssumption ==
    /\ Healthy \subseteq Configs /\ Unprobed \subseteq Configs
    /\ NeedSecrets \subseteq Configs
    /\ Means \in [Configs -> {"manifest", "tag", "nothing", "dry_run"}]
    /\ MaxRecords \in Nat /\ MaxUpkeep \in Nat

VARIABLES
    live,       \* what is provisioned: an image, with secrets or not
    records,    \* the DeploymentRecords constructed so far
    pc, op,     \* where a request is suspended, what it is
    config,     \* the configuration it provisions
    prev,       \* deploy: previous_id, read before the first suspension
    target,     \* deploy: its record, 0 before; rollback: what it rolls back
    upkeep,
    \* History: two requests were under way at once; a provisioning command
    \* failed or the process restarted.
    overlapped, faulted

locals == <<config, prev, target>>
vars == <<live, records, pc, op, locals, upkeep, overlapped, faulted>>

NoConfig == "no_config"
Workspace == "workspace"   \* an image that no configuration names
Nothing == [config |-> NoConfig, secrets |-> FALSE]
Live == {Nothing} \cup [config : Configs \cup {Workspace}, secrets : BOOLEAN]

\* A provisioner without a terminal, or without a k8s_manager, only logs.
DryRun(k) == Means[k] = "dry_run"

\* What the command of k's target puts live.  The Kubernetes manifest names the
\* image and carries the environment, into which a deploy has merged the
\* secrets; a rollback takes the stored configuration, which has none.  gcloud
\* is given the image tag only.  docker-compose, vercel, railway and the ECS
\* update are given neither: they run what they find.
Put(kind, k) ==
    [config  |-> IF Means[k] = "nothing" THEN Workspace ELSE k,
     secrets |-> Means[k] = "manifest" /\ kind = "deploy"]

\* DeploymentRecord.  0 is no previous deployment.
Record ==
    [kind : {"deploy", "rollback"}, config : Configs,
     status : {"in_progress", "success", "failed"},
     previous : Nat, available : BOOLEAN, registered : BOOLEAN]

Ids == 1 .. Len(records)
Registered == {d \in Ids : records[d].registered}

\* Can the service that is live answer the health check with 200?  What a
\* command found in the workspace can be any service.
Answering(l) ==
    \/ l.config = Workspace
    \/ l.config \in Healthy /\ (l.config \in NeedSecrets => l.secrets)

Init ==
    /\ live = Nothing /\ records = <<>>
    /\ pc = [c \in Requests |-> "idle"]
    /\ op = [c \in Requests |-> "none"]
    /\ config = [c \in Requests |-> NoConfig]
    /\ prev = [c \in Requests |-> 0]
    /\ target = [c \in Requests |-> 0]
    /\ upkeep = 0 /\ overlapped = FALSE /\ faulted = FALSE

-----------------------------------------------------------------------------

Goto(c, label) == pc' = [pc EXCEPT ![c] = label]

\* The request ends, and its variables with it.
Return(c) ==
    /\ Goto(c, "idle")
    /\ op' = [op EXCEPT ![c] = "none"]
    /\ config' = [config EXCEPT ![c] = NoConfig]
    /\ prev' = [prev EXCEPT ![c] = 0]
    /\ target' = [target EXCEPT ![c] = 0]

\* A request arrives; whether another one is under way is remembered.
Arrive(c, name) ==
    /\ pc[c] = "idle"
    /\ op' = [op EXCEPT ![c] = name]
    /\ overlapped' = (overlapped \/ \E o \in Requests : pc[o] # "idle")

\* Mutant: the newest deployment, whatever became of it.
FindNewest ==
    IF Registered = {} THEN 0 ELSE Max(Registered)

\* _find_latest_deployment_id: the newest successful deployment.
FindLatest ==
    LET candidates == {d \in Registered : records[d].status = "success"}
    IN  IF candidates = {} THEN 0 ELSE Max(candidates)

\* deploy, and deploy_with_rollback, up to the provisioning command.  The
\* secrets have been read, the current deployment is looked up here.
Deploy(c) ==
    /\ \E name \in {"deploy", "deployWithRollback"} : Arrive(c, name)
    /\ \E k \in Configs : config' = [config EXCEPT ![c] = k]
    /\ prev' = [prev EXCEPT ![c] = FindLatest]
    /\ target' = [target EXCEPT ![c] = 0]
    /\ Goto(c, "provision")
    /\ UNCHANGED <<live, records, upkeep, faulted>>

\* What the record of a request under way is a record of.
Kind(c) == IF op[c] = "rollback" THEN "rollback" ELSE "deploy"

\* The command takes effect, unless it is a dry run.  (Neither a dry run nor
\* apply_manifest gives up the loop; the model lets others run around them.)
Provision(c) ==
    /\ pc[c] = "provision"
    /\ live' = IF DryRun(config[c]) THEN live ELSE Put(Kind(c), config[c])
    /\ Goto(c, "provisioned")
    /\ UNCHANGED <<records, op, locals, upkeep, overlapped, faulted>>

\* It fails, before or after it took effect (a non-zero exit code, a command
\* that timed out).  The request ends without a record of it; for a
\* deploy_with_rollback that was rolling back, the failed record is returned.
ProvisionFails(c) ==
    /\ pc[c] \in {"provision", "provisioned"} /\ ~DryRun(config[c])
    /\ faulted' = TRUE
    /\ Return(c)
    /\ UNCHANGED <<live, records, upkeep, overlapped>>

NewRecord(c, kind, status, previous, registered) ==
    /\ Len(records) < MaxRecords
    /\ records' = Append(records,
           [kind |-> kind, config |-> config[c], status |-> status,
            previous |-> previous, available |-> TRUE, registered |-> registered])

\* Mutant: the record is registered before the health check.
ProvisionedRegistersEarly(c) ==
    /\ pc[c] = "provisioned" /\ op[c] # "rollback"
    /\ NewRecord(c, "deploy", "in_progress", prev[c], TRUE)
    /\ target' = [target EXCEPT ![c] = Len(records) + 1]
    /\ Goto(c, "health")
    /\ UNCHANGED <<live, op, config, prev, upkeep, overlapped, faulted>>

\* The command returns to deploy, which constructs the record.  Without a
\* health check it is registered at once.
Provisioned(c) ==
    /\ pc[c] = "provisioned" /\ op[c] # "rollback"
    /\ IF config[c] \in Unprobed
       THEN NewRecord(c, "deploy", "success", prev[c], TRUE) /\ Return(c)
       ELSE /\ NewRecord(c, "deploy", "in_progress", prev[c], FALSE)
            /\ target' = [target EXCEPT ![c] = Len(records) + 1]
            /\ Goto(c, "health")
            /\ UNCHANGED <<op, config, prev>>
    /\ UNCHANGED <<live, upkeep, overlapped, faulted>>

Conclude(d, status) ==
    records' = [records EXCEPT ![d].status = status, ![d].registered = TRUE]

\* Mutant: a deployment succeeds whatever the probes say.
BecomesHealthyAnyhow(c) ==
    /\ pc[c] = "health"
    /\ Conclude(target[c], "success")
    /\ Return(c)
    /\ UNCHANGED <<live, upkeep, overlapped, faulted>>

\* wait_for_healthy: a probe of the port was answered by what is live there,
\* which another deployment may have put there.
BecomesHealthy(c) ==
    /\ pc[c] = "health" /\ Answering(live)
    /\ Conclude(target[c], "success")
    /\ Return(c)
    /\ UNCHANGED <<live, upkeep, overlapped, faulted>>

\* can_rollback, for a record that has just been registered.
CanRollback(d) == /\ records[d].available
                  /\ records[d].previous \in Registered

\* Mutant: a deployment that failed its health check is not registered.
GivesUpUnrecorded(c) ==
    /\ pc[c] = "health"
    /\ Return(c)
    /\ UNCHANGED <<live, records, upkeep, overlapped, faulted>>

\* All probes failed; what is live may still have been starting.  With
\* deploy_with_rollback the previous configuration is provisioned next.
GivesUp(c) ==
    /\ pc[c] = "health"
    /\ Conclude(target[c], "failed")
    /\ IF op[c] = "deployWithRollback" /\ CanRollback(target[c])
       THEN /\ op' = [op EXCEPT ![c] = "rollback"]
            /\ config' = [config EXCEPT ![c] = records[prev[c]].config]
            /\ Goto(c, "provision")
            /\ UNCHANGED <<prev, target>>
       ELSE Return(c)
    /\ UNCHANGED <<live, upkeep, overlapped, faulted>>

\* rollback, up to the provisioning command.  rollback_available is not asked.
\* Without a previous deployment the request raises and changes nothing.
Rollback(c) ==
    /\ Arrive(c, "rollback")
    /\ \E d \in Registered :
        /\ records[d].previous \in Registered
        /\ target' = [target EXCEPT ![c] = d]
        /\ config' = [config EXCEPT ![c] = records[records[d].previous].config]
    /\ Goto(c, "provision")
    /\ UNCHANGED <<live, records, prev, upkeep, faulted>>

\* Mutant: a rollback points past what it rolled back, at a fresh id.
RolledBackAhead(c) ==
    /\ pc[c] = "provisioned" /\ op[c] = "rollback"
    /\ NewRecord(c, "rollback", "success", Len(records) + 2, TRUE)
    /\ Return(c)
    /\ UNCHANGED <<live, upkeep, overlapped, faulted>>

\* The command returns to rollback: the new record is a healthy success,
\* without a probe, and its previous deployment is the one rolled back.
RolledBack(c) ==
    /\ pc[c] = "provisioned" /\ op[c] = "rollback"
    /\ NewRecord(c, "rollback", "success", target[c], TRUE)
    /\ Return(c)
    /\ UNCHANGED <<live, upkeep, overlapped, faulted>>

\* disable_rollback
DisableRollback ==
    /\ upkeep < MaxUpkeep
    /\ upkeep' = upkeep + 1
    /\ \E d \in Registered : /\ records[d].available
                             /\ records' = [records EXCEPT ![d].available = FALSE]
    /\ UNCHANGED <<live, pc, op, locals, overlapped, faulted>>

\* The process restarts: requests and registries are gone, what is
\* provisioned stays.
Restart ==
    /\ upkeep < MaxUpkeep
    /\ upkeep' = upkeep + 1
    /\ faulted' = TRUE
    /\ records' = [d \in Ids |-> [records[d] EXCEPT !.registered = FALSE]]
    /\ pc' = [c \in Requests |-> "idle"]
    /\ op' = [c \in Requests |-> "none"]
    /\ config' = [c \in Requests |-> NoConfig]
    /\ prev' = [c \in Requests |-> 0]
    /\ target' = [c \in Requests |-> 0]
    /\ UNCHANGED <<live, overlapped>>

Request(c) ==
    \/ Deploy(c) \/ Rollback(c) \/ Provision(c) \/ ProvisionFails(c)
    \/ Provisioned(c) \/ BecomesHealthy(c) \/ GivesUp(c) \/ RolledBack(c)

Next == \/ \E c \in Requests : Request(c)
        \/ DisableRollback \/ Restart

Spec == Init /\ [][Next]_vars
===============================================================================
