------------------------- MODULE DeploymentProperties -------------------------
(* What the history of deployments is good for: that a rollback finds what *)
(* it returns to, that this once worked, and that the newest record tells  *)
(* what is live, as far as the target lets it.                             *)
EXTENDS Deployment

\* The type of every variable.  A request that polls has a record of its own,
\* which no other request finds as long as its outcome is open.
TypeOK ==
    /\ live \in Live
    /\ records \in Seq(Record)
    /\ pc \in [Requests -> {"idle", "provision", "provisioned", "health"}]
    /\ op \in [Requests -> {"none", "deploy", "deployWithRollback", "rollback"}]
    /\ config \in [Requests -> Configs \cup {NoConfig}]
    /\ prev \in [Requests -> 0 .. Len(records)]
    /\ target \in [Requests -> 0 .. Len(records)]
    /\ \A c \in Requests : pc[c] = "health" =>
          target[c] \in Ids /\ ~records[target[c]].registered
    /\ upkeep \in Nat /\ overlapped \in BOOLEAN /\ faulted \in BOOLEAN

\* The previous deployment of a registered record is an older registered one:
\* following previous_deployment_id ends, and the ROLLBACK_TARGET_MISSING of
\* rollback.py:101 is never raised, although the id was read long before the
\* record that holds it was registered.
PreviousIsKnown ==
    \A d \in Registered :
        records[d].previous # 0 => /\ records[d].previous < d
                                   /\ records[d].previous \in Registered

\* Rolling back a deployment returns to one that was recorded as a success
\* before it, in whatever order concurrent deployments finish (engine.py,
\* _find_latest_deployment_id and deploy_with_rollback).
DeployRollsBackToSuccess ==
    \A r \in Ids :
        LET d == records[r].previous
        IN  records[r].kind = "rollback" /\ records[d].kind = "deploy" =>
                \E s \in 1 .. d - 1 : /\ s = records[d].previous
                                      /\ records[s].status = "success"
                                      /\ records[r].config = records[s].config

AllIdle == \A c \in Requests : pc[c] = "idle"

\* The records of which something was provisioned.
Provisioning == {d \in Ids : ~DryRun(records[d].config)}

\* What is live was put there by what a record says, with concurrent requests
\* too, unless a command failed or the engine restarted (engine.py, deploy;
\* rollback.py, rollback).  For Kubernetes and Cloud Run this gives its
\* configuration; of the other targets it says that one of them was the last,
\* and of a dry run nothing.
LiveIsRecorded ==
    AllIdle /\ ~faulted =>
        \/ live = Nothing
        \/ \E d \in Registered \cap Provisioning :
              live = Put(records[d].kind, records[d].config)

\* With requests one at a time the newest record, dry runs apart, tells what is
\* live: which image if the target was given it, and that the secrets are
\* there after a deploy to Kubernetes and gone after its rollback.  A
\* deployment that was found healthy is one that can answer.
NewestRecordIsLive ==
    AllIdle /\ ~faulted /\ ~overlapped =>
        /\ Provisioning = {} => live = Nothing
        /\ \A d \in Provisioning : (\A e \in Provisioning : e <= d) =>
              live = Put(records[d].kind, records[d].config)
        /\ records # <<>> =>
              LET newest == records[Len(records)]
              IN  newest.kind = "deploy" /\ newest.status = "success"
                     /\ newest.config \notin Unprobed => Answering(live)
===============================================================================
