----------------------------- MODULE MCDeployment -----------------------------
(* Instances of DeploymentProperties for TLC: a configuration for           *)
(* Kubernetes that works with the project's secrets, one of a target that   *)
(* is not given the image and is not probed, and a dry run; any probe may   *)
(* time out.                                                                *)
EXTENDS DeploymentProperties, TLC

CONSTANTS c1, c2
TwoRequests == {c1, c2}
Symmetric == Permutations(TwoRequests)
MCConfigs == {"good", "plain", "dry"}
MCMeans == [good |-> "manifest", plain |-> "nothing", dry |-> "dry_run"]
===============================================================================
