------------------------------ MODULE BuildOrder ------------------------------
(***************************************************************************)
(* DependencyMapper.get_build_order (repo_intelligence): Kahn's algorithm  *)
(* on the imports that the graph answers.  An edge <<f, g>> says that f    *)
(* imports g.  all_nodes is a set of strings and the answer has no ORDER   *)
(* BY, so whatever the code lists it lists in any order: the algorithm is  *)
(* in one of a set of states, and has a set of results.                    *)
(***************************************************************************)
EXTENDS Naturals, FiniteSets, SequencesExt

NodesOf(edges) == {e[1] : e \in edges} \cup {e[2] : e \in edges}

Needs(edges, f) == {g \in NodesOf(edges) : <<f, g>> \in edges}

Ready(edges) ==
    {[queue |-> q, order |-> <<>>,
      degree |-> [f \in NodesOf(edges) |-> Cardinality(Needs(edges, f))]] :
        q \in SetToSeqs({f \in NodesOf(edges) : Needs(edges, f) = {}})}

\* Mutant: a file is queued with the first of its imports.
TakeEager(edges, s) ==
    LET f == Head(s.queue)
        freed == {g \in NodesOf(edges) : <<g, f>> \in edges}
    IN  IF s.queue = <<>> THEN {s}
        ELSE IF f \in ToSet(s.order) THEN {[s EXCEPT !.queue = Tail(@)]}
        ELSE {[queue |-> Tail(s.queue) \o q, order |-> Append(s.order, f), degree |-> s.degree] :
                 q \in SetToSeqs(freed)}

\* A round of the loop: the first of the queue is placed, unless it was before, and
\* every file that imports it has one import less to wait for.
Take(edges, s) ==
    LET f == Head(s.queue)
        degree == [g \in DOMAIN s.degree |->
                      IF <<g, f>> \in edges THEN s.degree[g] - 1 ELSE s.degree[g]]
        freed == {g \in NodesOf(edges) : <<g, f>> \in edges /\ degree[g] = 0}
    IN  IF s.queue = <<>> THEN {s}
        ELSE IF f \in ToSet(s.order) THEN {[s EXCEPT !.queue = Tail(@)]}
        ELSE {[queue |-> Tail(s.queue) \o q, order |-> Append(s.order, f), degree |-> degree] :
                 q \in SetToSeqs(freed)}

\* The loop takes each file at most once for each import and once more.
Rounds(edges) == Cardinality(edges) + Cardinality(NodesOf(edges))

\* The states after any number of rounds.
States(edges) ==
    LET after[n \in Nat] ==
            IF n = 0 THEN Ready(edges) ELSE UNION {Take(edges, s) : s \in after[n - 1]}
    IN  after

\* What the loop never reached comes last.
BuildOrders(edges) ==
    UNION {{s.order \o rest : rest \in SetToSeqs(NodesOf(edges) \ ToSet(s.order))} :
              s \in States(edges)[Rounds(edges)]}
=============================================================================
