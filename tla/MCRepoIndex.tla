------------------------------ MODULE MCRepoIndex ------------------------------
(***************************************************************************)
(* The index on three files, two calls, one change of a file and one failed query.       *)
(***************************************************************************)
EXTENDS RepoIndexProperties

CONSTANTS A, B, C, R1, R2

MCFiles == {A, B, C}

\* A chunk is its number.  A file may be empty, or import the other two, or itself.
Empty == [defs |-> {}, imports |-> {}]
Leaf  == [defs |-> {1}, imports |-> {}]
OnC   == [defs |-> {1, 2}, imports |-> {C}]
OnBC  == [defs |-> {1}, imports |-> {B, C}]
MCContents == {Empty, Leaf, OnC, OnBC}

MCDisk == [f \in MCFiles |-> CASE f = A -> Empty [] f = B -> OnC [] f = C -> Leaf]

MCRequests == {R1, R2}
MCCalls == {[op |-> "index", files |-> <<>>], [op |-> "delete", files |-> <<>>],
            [op |-> "update", files |-> <<B, C>>]}
Symmetry == Permutations(MCRequests)
=============================================================================
