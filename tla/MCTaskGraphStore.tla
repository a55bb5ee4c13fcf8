-------------------------- MODULE MCTaskGraphStore --------------------------
(***************************************************************************)
(* Three tasks that join or form a chain, with the policies of the code:   *)
(* an architect (critical, 5 retries), a documentation task (none) and a   *)
(* backend task (3), whose retries are sent through Celery.                *)
(***************************************************************************)
EXTENDS TaskGraphStoreProperties, TLC

CONSTANTS t1, t2, t3

MCTasks == {t1, t2, t3}
Join    == (t1 :> {}) @@ (t2 :> {}) @@ (t3 :> {t1, t2})
Chain   == (t1 :> {}) @@ (t2 :> {t1}) @@ (t3 :> {t2})
MCEdges == {Join, Chain}
MCMaxRetries == (t1 :> 5) @@ (t2 :> 0) @@ (t3 :> 3)
MCCritical   == {t1}
MCByCelery   == {t3}
===============================================================================
