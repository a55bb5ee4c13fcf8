--------------------------- MODULE MCIntentSession ---------------------------
(***************************************************************************)
(* Three fields, of which one is required and any two give enough          *)
(* confidence; two requests at a time.                                     *)
(***************************************************************************)
EXTENDS IntentSessionProperties, TLC

CONSTANTS core, users, scale, p1, p2, r1, r2

MCFields  == {core, users, scale}
MCEnough  == {F \in SUBSET MCFields : Cardinality(F) >= 2}
MCAnswers == {{core}, {users, scale}}
Symmetric == Permutations({r1, r2})
===============================================================================
