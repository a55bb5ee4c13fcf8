-------------------------- MODULE RepoIndexProperties --------------------------
(***************************************************************************)
(* What the index owes to those who search it and follow its imports.      *)
(***************************************************************************)
EXTENDS RepoIndex, BuildOrder

\* What an index has read is in the graph when it has returned, and stays there
\* until a deletion, whatever other calls do at the same time, unless a query of its
\* own failed or a deletion came across it (index_project, map_project): a file that
\* has chunks, its chunks, and its imports that were resolved.
IndexCovers ==
    due # None =>
        /\ \A f \in Files : \A c \in Chunks(due, f) : node[f] # None /\ c \in contains
        /\ Resolved(due) \subseteq imports

\* What is found by the search and what the graph holds are the same chunks, when
\* every call has returned, unless a query failed, or a deletion or a change of a file
\* came across an index or an update (index_project and update_index parse twice, once
\* for each store; delete_index deletes from both).
SearchMatchesGraph == InFlight \cup disturbed \cup moved = {} => rows = chunks

\* A file of the project counts as external, and is left out of every build order,
\* only if it was imported when nothing was in it (create_dependency_edge), or in a
\* call that was disturbed.
ExternalWasBare == disturbed = {} => \A f \in Files : node[f] = "external" => f \in bare

-----------------------------------------------------------------------------
(* The order to build in.                                                   *)

\* The edges get_build_order asks the graph for.
Internal == {e \in imports : node[e[1]] = "file" /\ node[e[2]] = "file"}

\* A file that is on a cycle of imports, or imports one that is, directly or not: it is
\* one of some files each of which imports one of them.
Cyclic(edges, f) ==
    \E W \in SUBSET NodesOf(edges) : f \in W /\ \A g \in W : Needs(edges, g) \cap W # {}

\* Every file that imports or is imported is in the build order once, and comes after
\* all it imports, in whatever order the database answers; a cycle spoils the order of
\* its files and of those that import them, directly or not, and of no other
\* (get_build_order).
DependenciesBuiltFirst ==
    \A order \in BuildOrders(Internal) :
        /\ order \in SetToSeqs(NodesOf(Internal))
        /\ \A e \in Internal : ~Cyclic(Internal, e[1]) =>
               \A i, j \in DOMAIN order : order[i] = e[1] /\ order[j] = e[2] => j < i
=============================================================================
