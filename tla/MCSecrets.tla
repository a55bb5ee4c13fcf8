------------------------------- MODULE MCSecrets -------------------------------
(***************************************************************************)
(* Two processes, two secrets of one scope and one of another, three calls *)
(* and one fault.                                                          *)
(***************************************************************************)
EXTENDS SecretsProperties

CONSTANTS M1, M2, A, B, C, R1, R2, R3, Old, New, Newer

MCManagers == {M1, M2}
MCNames == {A, B, C}
MCScopeOf == [n \in MCNames |-> IF n = C THEN "staging" ELSE "production"]
MCRequests == {R1, R2, R3}
Symmetry == Permutations(MCManagers) \cup Permutations({A, B}) \cup Permutations(MCRequests)
=============================================================================
