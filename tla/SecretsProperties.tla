--------------------------- MODULE SecretsProperties ---------------------------
(***************************************************************************)
(* What a stored secret may count on.                                      *)
(***************************************************************************)
EXTENDS Secrets

\* Whatever rotations were made, failed half-way or were cut off by a restart, a name
\* has one row with the value last stored under it, or none after a deletion
\* (store_secret, rotate_master_key), as long as no store of it ran at the same time as
\* another write of it or a rotation: those can leave two rows, which nothing reads,
\* or write the value before last back.
NoValueLost ==
    \A n \in Names \ tangled :
        IF latest[n] = None THEN RowsOf(n) = {}
        ELSE Cardinality(RowsOf(n)) = 1 /\ ValueOf(n) = latest[n]

\* After a rotation that nothing disturbed has returned, its process can decrypt every
\* row of the scope that was rotated, and those it stores there later, until it starts
\* again, rotates again, or another process writes there (rotate_master_key).
RotationReadable ==
    good # None =>
        \A x \in rows : ScopeOf[x.name] = good.scope => x.key = fernet[good.by]
=============================================================================
