---------------------------- MODULE RepoIndexProofs ----------------------------
(***************************************************************************)
(* That what an index has read is in the graph when it returns, that only  *)
(* a file that was imported when it was empty is marked external, and that *)
(* search and graph agree when all is quiet, for any files, contents and   *)
(* numbers of calls, changes and refused queries.                          *)
(*                                                                         *)
(* A query that matches nothing does nothing and tells nobody, so what an  *)
(* index owes depends on the order of its queries.  MapInvariant says of   *)
(* every query that is still to be sent that what it matches is there, or  *)
(* is created by a query before it.  SearchInvariant relates the stores:   *)
(* search has a chunk first, and its call owes it to the graph.  Both rest *)
(* on CallInvariant, the types and the places where a call can be.  Last,  *)
(* the build order of every graph of imports that the index can hold.      *)
(***************************************************************************)
EXTENDS RepoIndexProperties, FiniteSetTheorems, TLAPS

Names == UNION {c.defs : c \in Contents}
Tree == [Files -> Contents \cup {None}]

Queries ==
    [op : {"row", "chunk", "attach"}, at : Files \X Names]
    \cup [op : {"file"}, at : Files] \cup [op : {"target", "edge"}, at : Files \X Files]
    \cup {Raw} \cup [op : {"delete rows", "delete graph"}]

TypeOK ==
    /\ disk \in Tree
    /\ rows \subseteq Files \X Names /\ node \in [Files -> {None, "file", "external"}]
    /\ chunks \subseteq Files \X Names /\ contains \subseteq Files \X Names
    /\ imports \subseteq Files \X Files
    /\ call \in [Requests -> [op : {"index", "update", "delete"}, files : Seq(Files)]]
    /\ pc \in [Requests -> {"new", "embed", "graph", "map", "next", "delete", "done"}]
    /\ todo \in [Requests -> Seq(Queries)]
    /\ read \in [Requests -> Tree]
    /\ edits \in Nat /\ refused \in Nat
    /\ disturbed \subseteq Requests /\ moved \subseteq Requests
    /\ due \in Tree \cup {None} /\ bare \subseteq Files

\* All the chunks of the files of S.
ChunksOf(files, S) == UNION {Chunks(files, f) : f \in S}

Writing(r) == pc[r] \in {"embed", "graph", "map"}
IsMapping(r) == pc[r] = "map" /\ call[r].op = "index"

\* Where a call can be, and the queries it can have to send there.
Placed(r) ==
    /\ pc[r] = "graph" => call[r].op = "index"
    /\ pc[r] = "delete" <=> call[r].op = "delete" /\ pc[r] \notin {"new", "done"}
    /\ Writing(r) /\ call[r].op = "update" => call[r].files # <<>>
    /\ \A i \in DOMAIN todo[r] :
          /\ pc[r] = "embed" => todo[r][i].op = "row"
          /\ todo[r][i].op = "row" => pc[r] = "embed"
          /\ todo[r][i].op \in {"target", "edge"} => IsMapping(r)
          /\ todo[r][i].op = "target" => i < Len(todo[r])
          /\ todo[r][i].op \in {"delete rows", "delete graph"} => pc[r] = "delete"

\* A call that writes and is not disturbed runs while no deletion does.
Peaceful ==
    \A r, d \in Requests :
        r \notin disturbed /\ pc[r] \in {"embed", "graph", "map", "next"} => pc[d] # "delete"

CallInvariant == TypeOK /\ Peaceful /\ \A r \in Requests : Placed(r)

-----------------------------------------------------------------------------

Among(s, q) == \E i \in DOMAIN s : s[i] = q
Before(s, i, q) == \E j \in 1 .. (i - 1) : s[j] = q

\* A query of the list s finds what it matches, when there are these nodes and chunks.
Founded(s, nodes, made, spared) ==
    \A i \in DOMAIN s :
        LET op == s[i].op
            at == s[i].at
        IN  /\ op = "attach" => /\ nodes[at[1]] # None \/ Before(s, i, File(at[1]))
                                /\ at \in made \/ Before(s, i, Chunk(at))
            /\ op = "target" => \/ at[2] \in spared \/ nodes[at[2]] # None
                                \/ Before(s, i, File(at[2]))
            /\ op = "edge" => /\ nodes[at[1]] # None \/ Before(s, i, File(at[1]))
                              /\ nodes[at[2]] # None \/ Before(s, i, Target(at))

\* What was read of the files is in the graph, or a query of the list brings it there.
Covering(files, s, nodes, held, linked) ==
    /\ \A c \in ChunksOf(files, Files) :
          /\ nodes[c[1]] # None \/ Among(s, File(c[1]))
          /\ c \in held \/ Among(s, Attach(c))
    /\ \A p \in Resolved(files) : p \in linked \/ Among(s, Edge(p))

Mapped ==
    \A r \in Requests :
        r \notin disturbed /\ IsMapping(r) =>
            /\ Founded(todo[r], node, chunks, bare)
            /\ Covering(read[r], todo[r], node, contains, imports)

MapInvariant == Mapped /\ IndexCovers /\ ExternalWasBare

-----------------------------------------------------------------------------

\* The chunks that a part of a call is about.
Work(r) ==
    IF call[r].op = "index" THEN ChunksOf(read[r], Files)
    ELSE Chunks(read[r], Head(call[r].files))

\* The call will still bring the chunk into the graph.
Owes(r, c) ==
    /\ pc[r] \in {"embed", "graph"} \/ (pc[r] = "map" /\ Among(todo[r], Chunk(c)))
    /\ c \in Work(r)

\* Search comes first: the chunks of a call are found before they are in the graph.
Searched(r) ==
    Writing(r) =>
        /\ read[r] = disk
        /\ pc[r] = "embed" => \A c \in Work(r) : c \in rows \/ Among(todo[r], Row(c))
        /\ pc[r] # "embed" => Work(r) \subseteq rows
        /\ pc[r] = "map" => \A c \in Work(r) : c \in chunks \/ Among(todo[r], Chunk(c))
        /\ \A i \in DOMAIN todo[r] :
              todo[r][i].op \in {"row", "chunk"} => todo[r][i].at \in Work(r)

DeletingRows == [op |-> "delete rows"]
DeletingGraph == [op |-> "delete graph"]

\* What a deletion has been answered is gone.
Deleted(d) ==
    pc[d] = "delete" => /\ rows = {} \/ Among(todo[d], DeletingRows)
                        /\ chunks = {} \/ Among(todo[d], DeletingGraph)

\* Search and graph hold the same chunks, but for what the calls still owe.
Agreeing ==
    /\ \A r \in Requests : Searched(r)
    /\ \A d \in Requests : Deleted(d)
    /\ (\A d \in Requests : pc[d] # "delete") =>
          /\ chunks \subseteq rows
          /\ \A c \in rows : c \in chunks \/ \E r \in Requests : Owes(r, c)

SearchInvariant == disturbed \cup moved = {} => Agreeing
-----------------------------------------------------------------------------
(* A query in a list, and those before it.                                  *)

\* u is s followed by t.
JoinOf(u, s, t, Q) ==
    /\ u \in Seq(Q)
    /\ \A q : Among(u, q) <=> Among(s, q) \/ Among(t, q)
    /\ \A i \in DOMAIN u :
          \/ i \in DOMAIN s /\ u[i] = s[i] /\ \A q : Before(s, i, q) => Before(u, i, q)
          \/ \E k \in DOMAIN t :
                /\ u[i] = t[k] /\ (k < Len(t) => i < Len(u))
                /\ \A q : Among(s, q) \/ Before(t, k, q) => Before(u, i, q)

LEMMA Joined ==
    ASSUME NEW Q, NEW s, NEW t, s \in Seq(Q), t \in Seq(Q)
    PROVE  JoinOf(s \o t, s, t, Q)
<1> DEFINE u == s \o t
<1>1. u \in Seq(Q) /\ Len(u) = Len(s) + Len(t) /\ Len(s) \in Nat /\ Len(t) \in Nat
  OBVIOUS
<1>2. /\ DOMAIN u = 1..Len(s) + Len(t) /\ DOMAIN s = 1..Len(s) /\ DOMAIN t = 1..Len(t)
  BY <1>1
<1>3. \A i \in 1..Len(s) : u[i] = s[i]
  OBVIOUS
<1>4. \A k \in 1..Len(t) : u[Len(s) + k] = t[k]
  OBVIOUS
<1> HIDE DEF u
<1>5. ASSUME NEW q PROVE Among(u, q) <=> Among(s, q) \/ Among(t, q)
  <2>1. ASSUME Among(s, q) PROVE Among(u, q)
    BY <1>1, <1>2, <1>3, <2>1 DEF Among
  <2>2. ASSUME Among(t, q) PROVE Among(u, q)
    <3>1. PICK k \in 1..Len(t) : t[k] = q
      BY <1>2, <2>2 DEF Among
    <3>2. Len(s) + k \in DOMAIN u /\ u[Len(s) + k] = q
      BY <1>1, <1>2, <1>4, <3>1
    <3> QED  BY <3>2 DEF Among
  <2>3. ASSUME Among(u, q) PROVE Among(s, q) \/ Among(t, q)
    <3>1. PICK i \in 1..Len(s) + Len(t) : u[i] = q
      BY <1>2, <2>3 DEF Among
    <3>2. CASE i \in 1..Len(s)
      BY <1>2, <1>3, <3>1, <3>2 DEF Among
    <3>3. CASE i \notin 1..Len(s)
      <4>1. i - Len(s) \in 1..Len(t) /\ Len(s) + (i - Len(s)) = i
        BY <1>1, <3>1, <3>3
      <4>2. t[i - Len(s)] = q
        BY <1>4, <3>1, <4>1
      <4> QED  BY <1>2, <4>1, <4>2 DEF Among
    <3> QED  BY <3>2, <3>3
  <2> QED  BY <2>1, <2>2, <2>3
<1>6. ASSUME NEW i \in DOMAIN u, i \in DOMAIN s
      PROVE  u[i] = s[i] /\ \A q : Before(s, i, q) => Before(u, i, q)
  <2>1. \A j \in 1..(i - 1) : u[j] = s[j]
    BY <1>1, <1>2, <1>3, <1>6
  <2> QED  BY <1>2, <1>3, <1>6, <2>1 DEF Before
<1>7. ASSUME NEW i \in DOMAIN u, i \notin DOMAIN s
      PROVE  \E k \in DOMAIN t :
                /\ u[i] = t[k] /\ (k < Len(t) => i < Len(u))
                /\ \A q : Among(s, q) \/ Before(t, k, q) => Before(u, i, q)
  <2> DEFINE k == i - Len(s)
  <2>1. k \in 1..Len(t) /\ i = Len(s) + k
    BY <1>1, <1>2, <1>7
  <2>2. u[i] = t[k] /\ (k < Len(t) => i < Len(u))
    BY <1>1, <1>4, <2>1
  <2>3. ASSUME NEW q, Among(s, q) PROVE Before(u, i, q)
    <3>1. PICK j \in 1..Len(s) : s[j] = q
      BY <1>2, <2>3 DEF Among
    <3>2. j \in 1..(i - 1)
      BY <1>1, <2>1, <3>1
    <3> QED  BY <1>3, <3>1, <3>2 DEF Before
  <2>4. ASSUME NEW q, Before(t, k, q) PROVE Before(u, i, q)
    <3>1. PICK j \in 1..(k - 1) : t[j] = q
      BY <2>4 DEF Before
    <3>2. j \in 1..Len(t) /\ Len(s) + j \in 1..(i - 1)
      BY <1>1, <2>1, <3>1
    <3>3. u[Len(s) + j] = q
      BY <1>4, <3>1, <3>2
    <3> QED  BY <3>2, <3>3 DEF Before
  <2> QED  BY <1>2, <2>1, <2>2, <2>3, <2>4
<1>8. JoinOf(u, s, t, Q)
  BY <1>1, <1>5, <1>6, <1>7 DEF JoinOf
<1> QED  BY <1>8 DEF u

\* The list without its first query.
RestOf(t, s, Q) ==
    /\ t \in Seq(Q) /\ Head(s) \in Q
    /\ 1 \in DOMAIN s /\ s[1] = Head(s) /\ \A q : ~Before(s, 1, q)
    /\ \A q : Among(s, q) => q = Head(s) \/ Among(t, q)
    /\ \A i \in DOMAIN t :
          /\ i + 1 \in DOMAIN s /\ t[i] = s[i + 1] /\ (i + 1 < Len(s) => i < Len(t))
          /\ \A q : Before(s, i + 1, q) => q = Head(s) \/ Before(t, i, q)

LEMMA Shortened ==
    ASSUME NEW Q, NEW s, s \in Seq(Q), s # <<>>
    PROVE  RestOf(Tail(s), s, Q)
<1> DEFINE t == Tail(s)
<1>1. /\ Len(s) \in Nat /\ Len(s) > 0 /\ t \in Seq(Q) /\ Len(t) = Len(s) - 1
      /\ DOMAIN s = 1..Len(s) /\ DOMAIN t = 1..(Len(s) - 1)
      /\ Head(s) = s[1] /\ Head(s) \in Q
  OBVIOUS
<1>2. \A i \in 1..(Len(s) - 1) : t[i] = s[i + 1]
  OBVIOUS
<1> HIDE DEF t
<1>3. ASSUME NEW q, Among(s, q) PROVE q = Head(s) \/ Among(t, q)
  <2>1. PICK i \in 1..Len(s) : s[i] = q
    BY <1>1, <1>3 DEF Among
  <2>2. CASE i = 1
    BY <1>1, <2>1, <2>2
  <2>3. CASE i # 1
    <3>1. i - 1 \in 1..(Len(s) - 1) /\ (i - 1) + 1 = i
      BY <1>1, <2>1, <2>3
    <3>2. t[i - 1] = q
      BY <1>2, <2>1, <3>1
    <3> QED  BY <1>1, <3>1, <3>2 DEF Among
  <2> QED  BY <2>2, <2>3
<1>4. ASSUME NEW i \in DOMAIN t
      PROVE  /\ i + 1 \in DOMAIN s /\ t[i] = s[i + 1] /\ (i + 1 < Len(s) => i < Len(t))
             /\ \A q : Before(s, i + 1, q) => q = Head(s) \/ Before(t, i, q)
  <2>1. i + 1 \in DOMAIN s /\ t[i] = s[i + 1] /\ (i + 1 < Len(s) => i < Len(t))
    BY <1>1, <1>2
  <2>2. ASSUME NEW q, Before(s, i + 1, q) PROVE q = Head(s) \/ Before(t, i, q)
    <3>1. PICK j \in 1..((i + 1) - 1) : s[j] = q
      BY <2>2 DEF Before
    <3>2. CASE j = 1
      BY <1>1, <3>1, <3>2
    <3>3. CASE j # 1
      <4>1. /\ j - 1 \in 1..(i - 1) /\ j - 1 \in 1..(Len(s) - 1) /\ (j - 1) + 1 = j
        BY <1>1, <3>1, <3>3
      <4>2. t[j - 1] = q
        BY <1>2, <3>1, <4>1
      <4> QED  BY <4>1, <4>2 DEF Before
    <3> QED  BY <3>2, <3>3
  <2> QED  BY <2>1, <2>2
<1>5. RestOf(t, s, Q)
  BY <1>1, <1>3, <1>4 DEF RestOf, Before
<1> QED  BY <1>5 DEF t

\* The list without the query at i.
WithoutOf(t, s, i, Q) ==
    /\ t \in Seq(Q) /\ Len(t) = Len(s) - 1
    /\ \A k \in DOMAIN t : \E j \in DOMAIN s : t[k] = s[j]
    /\ \A q : Among(s, q) => q = s[i] \/ Among(t, q)

LEMMA Removed ==
    ASSUME NEW Q, NEW s, NEW i, s \in Seq(Q), i \in DOMAIN s
    PROVE  WithoutOf(RemoveAt(s, i), s, i, Q)
<1> DEFINE a == SubSeq(s, 1, i - 1)
           b == SubSeq(s, i + 1, Len(s))
           t == a \o b
<1>1. Len(s) \in Nat /\ DOMAIN s = 1..Len(s) /\ i \in 1..Len(s)
  OBVIOUS
<1>2. a \in Seq(Q) /\ Len(a) = i - 1 /\ \A k \in 1..(i - 1) : a[k] = s[k]
  BY <1>1
<1>3. b \in Seq(Q) /\ Len(b) = Len(s) - i /\ \A k \in 1..(Len(s) - i) : b[k] = s[i + k]
  BY <1>1
<1>4. DOMAIN a = 1..(i - 1) /\ DOMAIN b = 1..(Len(s) - i)
  BY <1>1, <1>2, <1>3
<1> HIDE DEF a, b
<1>5. t \in Seq(Q) /\ Len(t) = Len(s) - 1
  <2>1. a \in Seq(Q) /\ b \in Seq(Q)
    BY <1>2, <1>3
  <2>2. t \in Seq(Q) /\ Len(t) = Len(a) + Len(b)
    BY <2>1
  <2> QED  BY <1>1, <1>2, <1>3, <2>2
<1>6. JoinOf(t, a, b, Q)
  BY <1>2, <1>3, Joined
<1>7. RemoveAt(s, i) = t
  BY DEF RemoveAt, a, b
<1> HIDE DEF t
<1>8. ASSUME NEW k \in DOMAIN t PROVE \E j \in DOMAIN s : t[k] = s[j]
  <2>1. Among(t, t[k])
    BY DEF Among
  <2>2. Among(a, t[k]) \/ Among(b, t[k])
    BY <1>6, <2>1 DEF JoinOf
  <2>3. CASE Among(a, t[k])
    BY <1>1, <1>2, <1>4, <2>3 DEF Among
  <2>4. CASE Among(b, t[k])
    <3>1. PICK j \in 1..(Len(s) - i) : b[j] = t[k]
      BY <1>4, <2>4 DEF Among
    <3>2. i + j \in DOMAIN s /\ s[i + j] = t[k]
      BY <1>1, <1>3, <3>1
    <3> QED  BY <3>2
  <2> QED  BY <2>2, <2>3, <2>4
<1>9. ASSUME NEW q, Among(s, q) PROVE q = s[i] \/ Among(t, q)
  <2>1. PICK j \in 1..Len(s) : s[j] = q
    BY <1>1, <1>9 DEF Among
  <2>2. CASE j < i
    <3>1. j \in 1..(i - 1)
      BY <1>1, <2>1, <2>2
    <3>2. Among(a, q)
      BY <1>2, <1>4, <2>1, <3>1 DEF Among
    <3> QED  BY <1>6, <3>2 DEF JoinOf
  <2>3. CASE j > i
    <3>1. j - i \in 1..(Len(s) - i) /\ i + (j - i) = j
      BY <1>1, <2>1, <2>3
    <3>2. Among(b, q)
      BY <1>3, <1>4, <2>1, <3>1 DEF Among
    <3> QED  BY <1>6, <3>2 DEF JoinOf
  <2>4. CASE j = i
    BY <2>1, <2>4
  <2> QED  BY <1>1, <2>1, <2>2, <2>3, <2>4
<1>10. WithoutOf(t, s, i, Q)
  BY <1>5, <1>8, <1>9 DEF WithoutOf
<1> QED  BY <1>7, <1>10

-----------------------------------------------------------------------------
(* The lists of queries.                                                    *)

LEMMA Listed ==
    ASSUME NEW S, IsFiniteSet(S)
    PROVE  \E n \in Nat : /\ SetToSeq(S) \in [1..n -> S]
                          /\ \A x \in S : \E i \in 1..n : SetToSeq(S)[i] = x
<1> DEFINE n == Cardinality(S)
<1>1. n \in Nat
  BY FS_CardinalityType
<1>2. \E f \in [1..n -> S] : IsInjective(f)
  <2>1. ExistsBijection(1..n, S)
    BY FS_CardinalityType
  <2>2. PICK f \in Bijection(1..n, S) : TRUE
    BY <2>1 DEF ExistsBijection
  <2> QED  BY <2>2 DEF Bijection, Injection
<1>3. SetToSeq(S) \in [1..n -> S] /\ IsInjective(SetToSeq(S))
  BY <1>2 DEF SetToSeq
<1>4. SetToSeq(S) \in Injection(1..n, S)
  BY <1>3 DEF Injection
<1>5. IsFiniteSet(1..n) /\ Cardinality(1..n) = Cardinality(S)
  BY <1>1, FS_Interval
<1>6. SetToSeq(S) \in Surjection(1..n, S)
  BY <1>4, <1>5, FS_Injection
<1> QED  BY <1>1, <1>3, <1>6 DEF Surjection

ListOf(a, n, Q) == a \in [1..n -> Q]

\* The two lists a and b, of n elements each, in turn.
TurnsOf(s, a, b, n, Q) ==
    /\ s \in Seq(Q) /\ Len(s) = 2 * n
    /\ \A i \in 1..n : s[2 * i - 1] = a[i] /\ s[2 * i] = b[i]
    /\ \A k \in DOMAIN s : \E i \in 1..n :
          (k = 2 * i - 1 /\ s[k] = a[i]) \/ (k = 2 * i /\ s[k] = b[i])

\* Alternately takes two lists of the same length in turn.
LEMMA InTurn ==
    ASSUME NEW Q, NEW n \in Nat, NEW a, NEW b, ListOf(a, n, Q), ListOf(b, n, Q)
    PROVE  TurnsOf(Alternately(a, b), a, b, n, Q)
<1> DEFINE s == Alternately(a, b)
<1>0. a \in [1..n -> Q] /\ b \in [1..n -> Q]
  BY DEF ListOf
<1>1. Len(a) = n
  BY <1>0
<1>2. s = [i \in 1..2 * n |-> IF i % 2 = 1 THEN a[(i + 1) \div 2] ELSE b[i \div 2]]
  BY <1>1 DEF Alternately
<1> HIDE DEF s
<1>3. ASSUME NEW k \in 1..2 * n
      PROVE  \E i \in 1..n : (k = 2 * i - 1 /\ s[k] = a[i]) \/ (k = 2 * i /\ s[k] = b[i])
  <2>1. CASE k % 2 = 1
    <3>1. (k + 1) \div 2 \in 1..n /\ k = (2 * ((k + 1) \div 2)) - 1
      BY <2>1
    <3> QED  BY <1>2, <2>1, <3>1
  <2>2. CASE k % 2 # 1
    <3>1. k \div 2 \in 1..n /\ k = 2 * (k \div 2)
      BY <2>2
    <3> QED  BY <1>2, <2>2, <3>1
  <2> QED  BY <2>1, <2>2
<1>4. ASSUME NEW i \in 1..n
      PROVE  s[2 * i - 1] = a[i] /\ s[2 * i] = b[i]
  <2>1. /\ (2 * i - 1) \in 1..2 * n /\ ((2 * i - 1) % 2) = 1 /\ ((2 * i - 1) + 1) \div 2 = i
        /\ (2 * i) \in 1..2 * n /\ ((2 * i) % 2) # 1 /\ (2 * i) \div 2 = i
    OBVIOUS
  <2> QED  BY <1>2, <2>1
<1>5. s \in [1..2 * n -> Q] /\ 2 * n \in Nat
  <2>1. \A k \in 1..2 * n : s[k] \in Q
    BY <1>0, <1>3
  <2> QED  BY <1>2, <2>1
<1>6. s \in Seq(Q) /\ Len(s) = 2 * n /\ DOMAIN s = 1..2 * n
  BY <1>5
<1>7. TurnsOf(s, a, b, n, Q)
  BY <1>3, <1>4, <1>6 DEF TurnsOf
<1> QED  BY <1>7 DEF s

LEMMA ChunkTypes ==
    ASSUME NEW files \in Tree, NEW f \in Files
    PROVE  /\ Chunks(files, f) \subseteq Files \X Names
           /\ \A c \in Chunks(files, f) : c[1] = f
           /\ IsFiniteSet(Chunks(files, f))
<1>1. CASE files[f] = None
  BY <1>1, FS_EmptySet DEF Chunks
<1>2. CASE files[f] # None
  <2>1. files[f] \in Contents
    BY <1>2 DEF Tree
  <2>2. Chunks(files, f) = {<<f, d>> : d \in files[f].defs}
    BY <1>2 DEF Chunks
  <2>3. files[f].defs \subseteq Names /\ IsFiniteSet(files[f].defs)
    BY <2>1, IndexAssumption DEF Names
  <2>4. IsFiniteSet({<<f, d>> : d \in files[f].defs})
    <3> DEFINE S == {<<f, d>> : d \in files[f].defs}
               g == [d \in files[f].defs |-> <<f, d>>]
    <3>1. g \in Surjection(files[f].defs, S)
      BY DEF Surjection
    <3> HIDE DEF S, g
    <3>2. IsFiniteSet(S)
      BY <2>3, <3>1, FS_Surjection
    <3> QED  BY <3>2 DEF S
  <2> QED  BY <2>2, <2>3, <2>4
<1> QED  BY <1>1, <1>2

LEMMA ChunksOfTypes ==
    ASSUME NEW files \in Tree, NEW S \in SUBSET Files
    PROVE  ChunksOf(files, S) \subseteq Files \X Names /\ IsFiniteSet(ChunksOf(files, S))
<1> DEFINE T == {Chunks(files, f) : f \in S}
           g == [f \in S |-> Chunks(files, f)]
<1>1. IsFiniteSet(S)
  BY IndexAssumption, FS_Subset
<1>2. g \in Surjection(S, T)
  BY DEF Surjection
<1>3. IsFiniteSet(T)
  <2> HIDE DEF T, g
  <2> QED  BY <1>1, <1>2, FS_Surjection
<1>4. \A C \in T : IsFiniteSet(C) /\ C \subseteq Files \X Names
  BY ChunkTypes
<1>5. IsFiniteSet(UNION T)
  <2> HIDE DEF T
  <2> QED  BY <1>3, <1>4, FS_UNION
<1> QED  BY <1>4, <1>5 DEF ChunksOf

LEMMA ResolvedTypes ==
    ASSUME NEW files \in Tree
    PROVE  /\ Resolved(files) \subseteq Files \X Files /\ IsFiniteSet(Resolved(files))
           /\ \A p \in Resolved(files) : Chunks(files, p[1]) # {}
<1>1. Resolved(files) \in SUBSET (Files \X Files)
  BY DEF Resolved
<1>2. IsFiniteSet(Files \X Files)
  BY IndexAssumption, FS_Product
<1> QED  BY <1>1, <1>2, FS_Subset DEF Resolved

LEMMA EmbeddingList ==
    ASSUME NEW files \in Tree, NEW S \in SUBSET Files
    PROVE  LET s == Embedding(files, S)
           IN  /\ s \in Seq(Queries)
               /\ \A i \in DOMAIN s : s[i].op = "row" /\ s[i].at \in ChunksOf(files, S)
               /\ \A c \in ChunksOf(files, S) : \E i \in DOMAIN s : s[i] = Row(c)
<1> DEFINE all == AllChunks(files, S)
<1>1. PICK n \in Nat : /\ all \in [1..n -> ChunksOf(files, S)]
                       /\ \A c \in ChunksOf(files, S) : \E i \in 1..n : all[i] = c
  BY ChunksOfTypes, Listed DEF AllChunks, ChunksOf
<1>2. Embedding(files, S) = [i \in 1..n |-> Row(all[i])]
  BY <1>1 DEF Embedding
<1>3. \A c \in ChunksOf(files, S) : Row(c) \in Queries /\ Row(c).op = "row" /\ Row(c).at = c
  BY ChunksOfTypes DEF Row, Queries
<1> HIDE DEF all
<1>4. Embedding(files, S) \in [1..n -> Queries]
  BY <1>1, <1>2, <1>3
<1> QED  BY <1>1, <1>2, <1>3, <1>4

LEMMA ChunkNodesList ==
    ASSUME NEW files \in Tree, NEW S \in SUBSET Files
    PROVE  LET s == ChunkNodes(files, S)
           IN  /\ s \in Seq(Queries)
               /\ \A i \in DOMAIN s :
                     /\ s[i].op \in {"chunk", "attach"} /\ s[i].at \in ChunksOf(files, S)
                     /\ s[i].op = "attach" => \E j \in 1..(i - 1) : s[j] = Chunk(s[i].at)
               /\ \A c \in ChunksOf(files, S) :
                     /\ \E i \in DOMAIN s : s[i] = Chunk(c)
                     /\ \E i \in DOMAIN s : s[i] = Attach(c)
<1> DEFINE all == AllChunks(files, S)
           s == ChunkNodes(files, S)
<1>1. PICK n \in Nat : /\ all \in [1..n -> ChunksOf(files, S)]
                       /\ \A c \in ChunksOf(files, S) : \E i \in 1..n : all[i] = c
  BY ChunksOfTypes, Listed DEF AllChunks, ChunksOf
<1> DEFINE a == [i \in 1..n |-> Chunk(all[i])]
           b == [i \in 1..n |-> Attach(all[i])]
<1>2. s = Alternately(a, b)
  BY <1>1 DEF ChunkNodes
<1>3. \A c \in ChunksOf(files, S) :
          /\ Chunk(c) \in Queries /\ Chunk(c).op = "chunk" /\ Chunk(c).at = c
          /\ Attach(c) \in Queries /\ Attach(c).op = "attach" /\ Attach(c).at = c
  BY ChunksOfTypes DEF Chunk, Attach, Queries
<1> HIDE DEF all, s
<1>4. a \in [1..n -> Queries] /\ b \in [1..n -> Queries]
  BY <1>1, <1>3
<1>5. \A i \in 1..n : /\ all[i] \in ChunksOf(files, S)
                      /\ a[i] = Chunk(all[i]) /\ b[i] = Attach(all[i])
  BY <1>1
<1> HIDE DEF a, b
<1>6. /\ s \in Seq(Queries) /\ Len(s) = 2 * n
      /\ \A i \in 1..n : s[2 * i - 1] = a[i] /\ s[2 * i] = b[i]
      /\ \A k \in DOMAIN s : \E i \in 1..n :
            (k = 2 * i - 1 /\ s[k] = a[i]) \/ (k = 2 * i /\ s[k] = b[i])
  <2>1. ListOf(a, n, Queries) /\ ListOf(b, n, Queries)
    BY <1>4 DEF ListOf
  <2>2. TurnsOf(s, a, b, n, Queries)
    BY <1>2, <2>1, InTurn
  <2> QED  BY <2>2 DEF TurnsOf
<1>7. ASSUME NEW k \in DOMAIN s
      PROVE  /\ s[k].op \in {"chunk", "attach"} /\ s[k].at \in ChunksOf(files, S)
             /\ s[k].op = "attach" => \E j \in 1..(k - 1) : s[j] = Chunk(s[k].at)
  <2>1. PICK i \in 1..n : (k = 2 * i - 1 /\ s[k] = a[i]) \/ (k = 2 * i /\ s[k] = b[i])
    BY <1>6
  <2>2. CASE k = 2 * i - 1 /\ s[k] = a[i]
    BY <1>3, <1>5, <2>2
  <2>3. CASE k = 2 * i /\ s[k] = b[i]
    <3>1. (2 * i - 1) \in 1..(k - 1)
      BY <2>3
    <3>2. s[2 * i - 1] = Chunk(all[i]) /\ s[k].at = all[i] /\ s[k].op = "attach"
      BY <1>3, <1>5, <1>6, <2>3
    <3> QED  BY <1>5, <3>1, <3>2
  <2> QED  BY <2>1, <2>2, <2>3
<1>8. ASSUME NEW c \in ChunksOf(files, S)
      PROVE  (\E i \in DOMAIN s : s[i] = Chunk(c)) /\ (\E i \in DOMAIN s : s[i] = Attach(c))
  <2>1. PICK i \in 1..n : all[i] = c
    BY <1>1
  <2>2. (2 * i - 1) \in DOMAIN s /\ (2 * i) \in DOMAIN s
    BY <1>6
  <2> QED  BY <1>5, <1>6, <2>1, <2>2
<1> QED  BY <1>6, <1>7, <1>8 DEF s

LEMMA EdgesList ==
    ASSUME NEW files \in Tree
    PROVE  LET s == Edges(files)
           IN  /\ s \in Seq(Queries)
               /\ \A i \in DOMAIN s :
                     /\ s[i].op \in {"target", "edge"} /\ s[i].at \in Resolved(files)
                     /\ s[i].op = "edge" => \E j \in 1..(i - 1) : s[j] = Target(s[i].at)
                     /\ s[i].op = "target" => i < Len(s)
               /\ \A p \in Resolved(files) : \E i \in DOMAIN s : s[i] = Edge(p)
<1> DEFINE all == SetToSeq(Resolved(files))
           s == Edges(files)
<1>1. PICK n \in Nat : /\ all \in [1..n -> Resolved(files)]
                       /\ \A p \in Resolved(files) : \E i \in 1..n : all[i] = p
  BY ResolvedTypes, Listed
<1> DEFINE a == [i \in 1..n |-> Target(all[i])]
           b == [i \in 1..n |-> Edge(all[i])]
<1>2. s = Alternately(a, b)
  BY <1>1 DEF Edges
<1>3. \A p \in Resolved(files) :
          /\ Target(p) \in Queries /\ Target(p).op = "target" /\ Target(p).at = p
          /\ Edge(p) \in Queries /\ Edge(p).op = "edge" /\ Edge(p).at = p
  BY ResolvedTypes DEF Target, Edge, Queries
<1> HIDE DEF all, s
<1>4. a \in [1..n -> Queries] /\ b \in [1..n -> Queries]
  BY <1>1, <1>3
<1>5. \A i \in 1..n : /\ all[i] \in Resolved(files)
                      /\ a[i] = Target(all[i]) /\ b[i] = Edge(all[i])
  BY <1>1
<1> HIDE DEF a, b
<1>6. /\ s \in Seq(Queries) /\ Len(s) = 2 * n
      /\ \A i \in 1..n : s[2 * i - 1] = a[i] /\ s[2 * i] = b[i]
      /\ \A k \in DOMAIN s : \E i \in 1..n :
            (k = 2 * i - 1 /\ s[k] = a[i]) \/ (k = 2 * i /\ s[k] = b[i])
  <2>1. ListOf(a, n, Queries) /\ ListOf(b, n, Queries)
    BY <1>4 DEF ListOf
  <2>2. TurnsOf(s, a, b, n, Queries)
    BY <1>2, <2>1, InTurn
  <2> QED  BY <2>2 DEF TurnsOf
<1>7. ASSUME NEW k \in DOMAIN s
      PROVE  /\ s[k].op \in {"target", "edge"} /\ s[k].at \in Resolved(files)
             /\ s[k].op = "edge" => \E j \in 1..(k - 1) : s[j] = Target(s[k].at)
             /\ s[k].op = "target" => k < Len(s)
  <2>1. PICK i \in 1..n : (k = 2 * i - 1 /\ s[k] = a[i]) \/ (k = 2 * i /\ s[k] = b[i])
    BY <1>6
  <2>2. CASE k = 2 * i - 1 /\ s[k] = a[i]
    <3>1. k < Len(s)
      BY <1>6, <2>2
    <3> QED  BY <1>3, <1>5, <2>2, <3>1
  <2>3. CASE k = 2 * i /\ s[k] = b[i]
    <3>1. (2 * i - 1) \in 1..(k - 1)
      BY <2>3
    <3>2. s[2 * i - 1] = Target(all[i]) /\ s[k].at = all[i] /\ s[k].op = "edge"
      BY <1>3, <1>5, <1>6, <2>3
    <3> QED  BY <1>5, <3>1, <3>2
  <2> QED  BY <2>1, <2>2, <2>3
<1>8. ASSUME NEW p \in Resolved(files)
      PROVE  \E i \in DOMAIN s : s[i] = Edge(p)
  <2>1. PICK i \in 1..n : all[i] = p
    BY <1>1
  <2>2. (2 * i) \in DOMAIN s
    BY <1>6
  <2> QED  BY <1>5, <1>6, <2>1, <2>2
<1> QED  BY <1>6, <1>7, <1>8 DEF s

\* The list makes the nodes of the chunks of C and of their files.
Brings(s, C) ==
    /\ s \in Seq(Queries)
    /\ \A i \in DOMAIN s :
          /\ s[i].op \in {"file", "chunk", "attach", "raw"}
          /\ s[i].op \in {"chunk", "attach"} => s[i].at \in C
          /\ s[i].op = "attach" =>
                Before(s, i, Chunk(s[i].at)) /\ Before(s, i, File(s[i].at[1]))
    /\ \A c \in C : Among(s, File(c[1])) /\ Among(s, Chunk(c)) /\ Among(s, Attach(c))

\* A list of files and the chunks in those files.
LEMMA FilesFirst ==
    ASSUME NEW files \in Tree, NEW S \in SUBSET Files, NEW s, NEW n \in Nat,
           s \in [1..n -> {File(f) : f \in Files}],
           \A c \in ChunksOf(files, S) : Among(s, File(c[1]))
    PROVE  Brings(s \o ChunkNodes(files, S), ChunksOf(files, S))
<1> DEFINE t == ChunkNodes(files, S)
           u == s \o t
           C == ChunksOf(files, S)
<1>1. \A f \in Files : File(f) \in Queries /\ File(f).op = "file"
  BY DEF File, Queries
<1>2. /\ \A i \in DOMAIN s : s[i].op = "file"
      /\ s \in Seq(Queries)
  BY <1>1
<1>3. /\ t \in Seq(Queries)
      /\ \A i \in DOMAIN t :
            /\ t[i].op \in {"chunk", "attach"} /\ t[i].at \in C
            /\ t[i].op = "attach" => Before(t, i, Chunk(t[i].at))
      /\ \A c \in C : Among(t, Chunk(c)) /\ Among(t, Attach(c))
  BY ChunkNodesList DEF Before, Among
<1> HIDE DEF t, C
<1>4. JoinOf(u, s, t, Queries)
  BY <1>2, <1>3, Joined
<1> HIDE DEF u
<1>5. ASSUME NEW i \in DOMAIN u
      PROVE  /\ u[i].op \in {"file", "chunk", "attach", "raw"}
             /\ u[i].op \in {"chunk", "attach"} => u[i].at \in C
             /\ u[i].op = "attach" =>
                   Before(u, i, Chunk(u[i].at)) /\ Before(u, i, File(u[i].at[1]))
  <2>1. CASE i \in DOMAIN s /\ u[i] = s[i]
    BY <1>2, <2>1
  <2>2. CASE \E k \in DOMAIN t :
                /\ u[i] = t[k]
                /\ \A q : Among(s, q) \/ Before(t, k, q) => Before(u, i, q)
    <3>1. PICK k \in DOMAIN t :
                /\ u[i] = t[k]
                /\ \A q : Among(s, q) \/ Before(t, k, q) => Before(u, i, q)
      BY <2>2
    <3>2. u[i].op \in {"chunk", "attach"} /\ u[i].at \in C
      BY <1>3, <3>1
    <3>3. ASSUME u[i].op = "attach" PROVE Before(u, i, Chunk(u[i].at))
      BY <1>3, <3>1, <3>3
    <3>4. Before(u, i, File(u[i].at[1]))
      BY <3>1, <3>2 DEF C
    <3> QED  BY <3>2, <3>3, <3>4
  <2> QED  BY <1>4, <2>1, <2>2 DEF JoinOf
<1>6. \A c \in C : Among(u, File(c[1])) /\ Among(u, Chunk(c)) /\ Among(u, Attach(c))
  BY <1>3, <1>4 DEF JoinOf, C
<1>7. Brings(u, C)
  BY <1>4, <1>5, <1>6 DEF Brings, JoinOf
<1> QED  BY <1>7 DEF u, t, C

LEMMA UpdatingList ==
    ASSUME NEW files \in Tree, NEW f \in Files
    PROVE  Brings(Updating(files, f), ChunksOf(files, {f}))
<1> DEFINE s == <<File(f)>>
<1>1. s \in [1..1 -> {File(g) : g \in Files}] /\ s[1] = File(f)
  OBVIOUS
<1>2. \A c \in ChunksOf(files, {f}) : c[1] = f
  BY ChunkTypes DEF ChunksOf
<1>3. Among(s, File(f))
  BY <1>1 DEF Among
<1> HIDE DEF s
<1>4. Brings(s \o ChunkNodes(files, {f}), ChunksOf(files, {f}))
  BY <1>1, <1>2, <1>3, FilesFirst
<1> QED  BY <1>4 DEF s, Updating

LEMMA GraphList ==
    ASSUME NEW files \in Tree
    PROVE  Brings(Graph(files), ChunksOf(files, Files))
<1> DEFINE S == {f \in Files : Chunks(files, f) # {}}
           seen == SetToSeq(S)
           C == ChunksOf(files, Files)
<1>1. PICK n \in Nat : seen \in [1..n -> S] /\ \A f \in S : \E i \in 1..n : seen[i] = f
  <2>1. IsFiniteSet(S)
    BY IndexAssumption, FS_Subset
  <2> HIDE DEF S
  <2> QED  BY <2>1, Listed
<1> DEFINE s == [i \in DOMAIN seen |-> File(seen[i])]
           t == s \o ChunkNodes(files, Files)
           last == IF seen = <<>> THEN <<>> ELSE <<Raw>>
<1>2. s \in [1..n -> {File(f) : f \in Files}]
  BY <1>1
<1>3. \A c \in C : c[1] \in S
  BY ChunkTypes DEF ChunksOf
<1>4. \A c \in C : Among(s, File(c[1]))
  <2> HIDE DEF C, S, seen
  <2> QED  BY <1>1, <1>3 DEF Among
<1>5. Brings(t, C)
  <2> HIDE DEF s
  <2> QED  BY <1>2, <1>4, FilesFirst
<1>6. last \in Seq(Queries) /\ \A i \in DOMAIN last : last[i].op = "raw"
  <2>1. Raw \in Queries /\ Raw.op = "raw"
    BY DEF Raw, Queries
  <2> HIDE DEF seen
  <2> QED  BY <2>1
<1>7. Graph(files) = t \o last
  BY DEF Graph
<1> HIDE DEF t, last, C
<1> DEFINE u == t \o last
<1>8. JoinOf(u, t, last, Queries)
  BY <1>5, <1>6, Joined DEF Brings
<1> HIDE DEF u
<1>9. ASSUME NEW i \in DOMAIN u
      PROVE  /\ u[i].op \in {"file", "chunk", "attach", "raw"}
             /\ u[i].op \in {"chunk", "attach"} => u[i].at \in C
             /\ u[i].op = "attach" =>
                   Before(u, i, Chunk(u[i].at)) /\ Before(u, i, File(u[i].at[1]))
  <2>1. CASE i \in DOMAIN t /\ u[i] = t[i] /\ \A q : Before(t, i, q) => Before(u, i, q)
    BY <1>5, <2>1 DEF Brings
  <2>2. CASE \E k \in DOMAIN last : u[i] = last[k]
    BY <1>6, <2>2
  <2> QED  BY <1>8, <2>1, <2>2 DEF JoinOf
<1>10. \A c \in C : Among(u, File(c[1])) /\ Among(u, Chunk(c)) /\ Among(u, Attach(c))
  BY <1>5, <1>8 DEF JoinOf, Brings
<1>11. Brings(u, C)
  BY <1>8, <1>9, <1>10 DEF Brings, JoinOf
<1> QED  BY <1>7, <1>11 DEF u, C

\* The list makes those nodes and then the edges of the imports.
Maps(s, files) ==
    /\ s \in Seq(Queries)
    /\ \A i \in DOMAIN s :
          /\ s[i].op \in {"file", "chunk", "attach", "raw", "target", "edge"}
          /\ s[i].op \in {"chunk", "attach"} => s[i].at \in ChunksOf(files, Files)
          /\ s[i].op = "attach" =>
                Before(s, i, Chunk(s[i].at)) /\ Before(s, i, File(s[i].at[1]))
          /\ s[i].op \in {"target", "edge"} =>
                /\ s[i].at \in Resolved(files)
                /\ \A c \in ChunksOf(files, Files) : Before(s, i, File(c[1]))
          /\ s[i].op = "target" => i < Len(s)
          /\ s[i].op = "edge" => Before(s, i, Target(s[i].at))
    /\ \A c \in ChunksOf(files, Files) :
          Among(s, File(c[1])) /\ Among(s, Chunk(c)) /\ Among(s, Attach(c))
    /\ \A p \in Resolved(files) : Among(s, Edge(p))

LEMMA MappingList ==
    ASSUME NEW files \in Tree
    PROVE  Maps(Mapping(files), files)
<1> DEFINE s == Graph(files)
           t == Edges(files)
           u == s \o t
           C == ChunksOf(files, Files)
           E == Resolved(files)
<1>1. Brings(s, C)
  BY GraphList
<1>2. /\ t \in Seq(Queries)
      /\ \A i \in DOMAIN t :
            /\ t[i].op \in {"target", "edge"} /\ t[i].at \in E
            /\ t[i].op = "edge" => Before(t, i, Target(t[i].at))
            /\ t[i].op = "target" => i < Len(t)
      /\ \A p \in E : Among(t, Edge(p))
  BY EdgesList DEF Before, Among
<1>3. Mapping(files) = u
  BY DEF Mapping
<1> HIDE DEF s, t, C, E
<1>4. JoinOf(u, s, t, Queries)
  BY <1>1, <1>2, Joined DEF Brings
<1> HIDE DEF u
<1>5. ASSUME NEW i \in DOMAIN u
      PROVE  /\ u[i].op \in {"file", "chunk", "attach", "raw", "target", "edge"}
             /\ u[i].op \in {"chunk", "attach"} => u[i].at \in C
             /\ u[i].op = "attach" =>
                   Before(u, i, Chunk(u[i].at)) /\ Before(u, i, File(u[i].at[1]))
             /\ u[i].op \in {"target", "edge"} =>
                   u[i].at \in E /\ \A c \in C : Before(u, i, File(c[1]))
             /\ u[i].op = "target" => i < Len(u)
             /\ u[i].op = "edge" => Before(u, i, Target(u[i].at))
  <2>1. CASE i \in DOMAIN s /\ u[i] = s[i] /\ \A q : Before(s, i, q) => Before(u, i, q)
    BY <1>1, <2>1 DEF Brings
  <2>2. CASE \E k \in DOMAIN t :
                /\ u[i] = t[k] /\ (k < Len(t) => i < Len(u))
                /\ \A q : Among(s, q) \/ Before(t, k, q) => Before(u, i, q)
    BY <1>1, <1>2, <2>2 DEF Brings
  <2> QED  BY <1>4, <2>1, <2>2 DEF JoinOf
<1>6. /\ \A c \in C : Among(u, File(c[1])) /\ Among(u, Chunk(c)) /\ Among(u, Attach(c))
      /\ \A p \in E : Among(u, Edge(p))
  BY <1>1, <1>2, <1>4 DEF JoinOf, Brings
<1>7. Maps(u, files)
  BY <1>4, <1>5, <1>6 DEF Maps, JoinOf, C, E
<1> QED  BY <1>3, <1>7
-----------------------------------------------------------------------------
(* Where the calls are.                                                     *)

LEMMA OthersPlaced ==
    ASSUME CallInvariant, NEW q \in Requests,
           pc'[q] = pc[q], call'[q] = call[q], todo'[q] = todo[q]
    PROVE  Placed(q)'
BY ZenonT(40) DEF CallInvariant, Placed, Writing, IsMapping

\* A list loses some of its queries.
LEMMA StillPlaced ==
    ASSUME NEW r \in Requests, Placed(r), NEW t,
           pc'[r] = pc[r], call'[r] = call[r], todo'[r] = t,
           \A i \in DOMAIN t : \E k \in DOMAIN todo[r] :
               todo[r][k] = t[i] /\ (k < Len(todo[r]) => i < Len(t))
    PROVE  Placed(r)'
<1> DEFINE s == todo[r]
           p == pc[r]
           c == call[r]
<1>1. /\ p = "graph" => c.op = "index"
      /\ p = "delete" <=> (c.op = "delete" /\ p \notin {"new", "done"})
      /\ p \in {"embed", "graph", "map"} /\ c.op = "update" => c.files # <<>>
      /\ \A i \in DOMAIN s :
            /\ p = "embed" => s[i].op = "row"
            /\ s[i].op = "row" => p = "embed"
            /\ s[i].op \in {"target", "edge"} => p = "map" /\ c.op = "index"
            /\ s[i].op = "target" => i < Len(s)
            /\ s[i].op \in {"delete rows", "delete graph"} => p = "delete"
  BY DEF Placed, Writing, IsMapping
<1> HIDE DEF s, p, c
<1>2. /\ \A i \in DOMAIN t :
            /\ p = "embed" => t[i].op = "row"
            /\ t[i].op = "row" => p = "embed"
            /\ t[i].op \in {"target", "edge"} => p = "map" /\ c.op = "index"
            /\ t[i].op = "target" => i < Len(t)
            /\ t[i].op \in {"delete rows", "delete graph"} => p = "delete"
  <2> SUFFICES ASSUME NEW i \in DOMAIN t
               PROVE  /\ p = "embed" => t[i].op = "row"
                      /\ t[i].op = "row" => p = "embed"
                      /\ t[i].op \in {"target", "edge"} => p = "map" /\ c.op = "index"
                      /\ t[i].op = "target" => i < Len(t)
                      /\ t[i].op \in {"delete rows", "delete graph"} => p = "delete"
    OBVIOUS
  <2>1. PICK k \in DOMAIN s : s[k] = t[i] /\ (k < Len(s) => i < Len(t))
    BY DEF s
  <2>2. /\ p = "embed" => s[k].op = "row"
        /\ s[k].op = "row" => p = "embed"
        /\ s[k].op \in {"target", "edge"} => p = "map" /\ c.op = "index"
        /\ s[k].op = "target" => k < Len(s)
        /\ s[k].op \in {"delete rows", "delete graph"} => p = "delete"
    BY <1>1
  <2> QED  BY <2>1, <2>2
<1>3. pc'[r] = p /\ call'[r] = c /\ todo'[r] = t
  BY DEF p, c
<1> QED  BY <1>1, <1>2, <1>3 DEF Placed, Writing, IsMapping

LEMMA DeletionsAre ==
    ASSUME CallInvariant
    PROVE  Deleting = {d \in Requests : pc[d] = "delete"}
BY DEF CallInvariant, Placed, Deleting, InFlight

\* Nothing is begun.
LEMMA PeaceStays ==
    ASSUME CallInvariant, disturbed \subseteq disturbed',
           \A d \in Requests : pc'[d] = "delete" => pc[d] = "delete",
           \A q \in Requests : pc'[q] \in {"embed", "graph", "map", "next"} =>
                                   pc[q] \in {"embed", "graph", "map", "next"}
    PROVE  Peaceful'
BY DEF CallInvariant, Peaceful

\* A call that writes begins, or goes on with its next file.
LEMMA PeaceBegins ==
    ASSUME CallInvariant, NEW r \in Requests, Begin(r), NEW part, part # "delete",
           pc' = [pc EXCEPT ![r] = part]
    PROVE  Peaceful'
<1>1. disturbed' = IF {d \in Requests : pc[d] = "delete"} # {} THEN disturbed \cup {r}
                   ELSE disturbed
  BY DeletionsAre DEF Begin
<1>2. pc \in [Requests -> {"new", "embed", "graph", "map", "next", "delete", "done"}]
  BY DEF CallInvariant, TypeOK
<1>3. ASSUME NEW q \in Requests, NEW d \in Requests, q \notin disturbed',
             pc'[q] \in {"embed", "graph", "map", "next"}
      PROVE  pc'[d] # "delete"
  <2>1. CASE q = r
    BY <1>1, <1>2, <1>3, <2>1
  <2>2. CASE q # r
    BY <1>1, <1>2, <1>3, <2>2 DEF CallInvariant, Peaceful
  <2> QED  BY <2>1, <2>2
<1> QED  BY <1>3 DEF Peaceful

LEMMA StartIndexCalls ==
    ASSUME CallInvariant, NEW r \in Requests, StartIndex(r)
    PROVE  CallInvariant'
<1> DEFINE s == Embedding(disk, Files)
<1>1. TypeOK /\ call[r].op = "index"
  BY DEF CallInvariant, StartIndex
<1>2. s \in Seq(Queries) /\ \A i \in DOMAIN s : s[i].op = "row"
  BY <1>1, EmbeddingList DEF TypeOK
<1> HIDE DEF s
<1>3. /\ pc' = [pc EXCEPT ![r] = "embed"] /\ todo' = [todo EXCEPT ![r] = s]
      /\ read' = [read EXCEPT ![r] = disk] /\ call' = call
  BY DEF StartIndex, Enter, s
<1>4. TypeOK'
  BY <1>1, <1>2, <1>3 DEF TypeOK, StartIndex, Begin, store
<1>5. Placed(r)'
  BY <1>1, <1>2, <1>3 DEF Placed, TypeOK, Writing, IsMapping
<1>6. \A q \in Requests : Placed(q)'
  <2>1. \A q \in Requests \ {r} : pc'[q] = pc[q] /\ call'[q] = call[q] /\ todo'[q] = todo[q]
    BY <1>1, <1>3 DEF TypeOK
  <2> QED  BY <1>5, <2>1, OthersPlaced
<1>7. Peaceful'
  BY <1>3, PeaceBegins DEF StartIndex
<1> QED  BY <1>4, <1>6, <1>7 DEF CallInvariant

LEMMA StartGraphCalls ==
    ASSUME CallInvariant, NEW r \in Requests, StartGraph(r)
    PROVE  CallInvariant'
<1> DEFINE s == Graph(read[r])
<1>1. TypeOK /\ call[r].op = "index" /\ pc[r] = "embed"
  BY DEF CallInvariant, StartGraph
<1>2. /\ s \in Seq(Queries)
      /\ \A i \in DOMAIN s : s[i].op \in {"file", "chunk", "attach", "raw"}
  BY <1>1, GraphList DEF TypeOK, Brings
<1> HIDE DEF s
<1>3. /\ pc' = [pc EXCEPT ![r] = "graph"] /\ todo' = [todo EXCEPT ![r] = s] /\ call' = call
      /\ disturbed' = disturbed
  BY DEF StartGraph, s
<1>4. TypeOK'
  BY <1>1, <1>2, <1>3 DEF TypeOK, StartGraph, store
<1>5. Placed(r)'
  BY <1>1, <1>2, <1>3 DEF Placed, TypeOK, Writing, IsMapping
<1>6. \A q \in Requests : Placed(q)'
  <2>1. \A q \in Requests \ {r} : pc'[q] = pc[q] /\ call'[q] = call[q] /\ todo'[q] = todo[q]
    BY <1>1, <1>3 DEF TypeOK
  <2> QED  BY <1>5, <2>1, OthersPlaced
<1>7. Peaceful'
  BY <1>1, <1>3, PeaceStays DEF TypeOK
<1> QED  BY <1>4, <1>6, <1>7 DEF CallInvariant

LEMMA StartMappingCalls ==
    ASSUME CallInvariant, NEW r \in Requests, StartMapping(r)
    PROVE  CallInvariant'
<1> DEFINE s == Mapping(disk)
           E == Resolved(disk)
<1>1. TypeOK /\ call[r].op = "index" /\ pc[r] = "graph"
  BY DEF CallInvariant, StartMapping, Placed
<1>2. /\ s \in Seq(Queries)
      /\ \A i \in DOMAIN s :
            /\ s[i].op \in {"file", "chunk", "attach", "raw", "target", "edge"}
            /\ s[i].op = "target" => i < Len(s)
  BY <1>1, MappingList DEF TypeOK, Maps
<1>3. E \subseteq Files \X Files
  BY <1>1, ResolvedTypes DEF TypeOK
<1> HIDE DEF s, E
<1>4. /\ pc' = [pc EXCEPT ![r] = "map"] /\ todo' = [todo EXCEPT ![r] = s]
      /\ read' = [read EXCEPT ![r] = disk] /\ call' = call /\ disturbed' = disturbed
      /\ bare' = bare \cup {p[2] : p \in {p \in E : Chunks(disk, p[2]) = {}}}
  BY DEF StartMapping, Enter, s, E
<1>5. bare' \subseteq Files
  BY <1>1, <1>3, <1>4 DEF TypeOK
<1>6. TypeOK'
  BY <1>1, <1>2, <1>4, <1>5 DEF TypeOK, StartMapping, store
<1>7. Placed(r)'
  BY <1>1, <1>2, <1>4 DEF Placed, TypeOK, Writing, IsMapping
<1>8. \A q \in Requests : Placed(q)'
  <2>1. \A q \in Requests \ {r} : pc'[q] = pc[q] /\ call'[q] = call[q] /\ todo'[q] = todo[q]
    BY <1>1, <1>4 DEF TypeOK
  <2> QED  BY <1>7, <2>1, OthersPlaced
<1>9. Peaceful'
  BY <1>1, <1>4, PeaceStays DEF TypeOK
<1> QED  BY <1>6, <1>8, <1>9 DEF CallInvariant

LEMMA IndexReturnsCalls ==
    ASSUME CallInvariant, NEW r \in Requests, IndexReturns(r)
    PROVE  CallInvariant'
<1>1. /\ TypeOK /\ Placed(r) /\ pc[r] = "map" /\ todo[r] = <<>>
      /\ pc' = [pc EXCEPT ![r] = "done"] /\ UNCHANGED <<call, todo, disturbed>>
  BY DEF CallInvariant, IndexReturns
<1>2. TypeOK'
  BY <1>1 DEF TypeOK, IndexReturns, store
<1>3. Placed(r)'
  BY <1>1 DEF Placed, TypeOK, Writing, IsMapping
<1>4. \A q \in Requests : Placed(q)'
  <2>1. \A q \in Requests \ {r} : pc'[q] = pc[q] /\ call'[q] = call[q] /\ todo'[q] = todo[q]
    BY <1>1 DEF TypeOK
  <2> QED  BY <1>3, <2>1, OthersPlaced
<1>5. Peaceful'
  BY <1>1, PeaceStays DEF TypeOK
<1> QED  BY <1>2, <1>4, <1>5 DEF CallInvariant

\* An update leaves its file: there is another list of files.
LEMMA NextFileCalls ==
    ASSUME TypeOK, NEW r \in Requests, call[r].files # <<>>, call' = NextFile(r)
    PROVE  /\ call' \in [Requests -> [op : {"index", "update", "delete"}, files : Seq(Files)]]
           /\ call'[r].op = call[r].op
           /\ \A q \in Requests \ {r} : call'[q] = call[q]
<1> DEFINE t == Tail(call[r].files)
<1>1. call[r].files \in Seq(Files) /\ call[r].op \in {"index", "update", "delete"}
  BY DEF TypeOK
<1>2. t \in Seq(Files)
  BY <1>1
<1>3. call' = [call EXCEPT ![r].files = t]
  BY DEF NextFile, TypeOK
<1> HIDE DEF t
<1> QED  BY <1>1, <1>2, <1>3 DEF TypeOK

LEMMA StartFileCalls ==
    ASSUME CallInvariant, NEW r \in Requests, StartFile(r)
    PROVE  CallInvariant'
<1> DEFINE f == Head(call[r].files)
<1>1. /\ TypeOK /\ Placed(r) /\ call[r].op = "update" /\ call[r].files # <<>>
      /\ pc[r] \in {"new", "next"}
  BY DEF CallInvariant, StartFile
<1>2. f \in Files
  BY <1>1 DEF TypeOK
<1> DEFINE s == IF Chunks(disk, f) = {} THEN <<>> ELSE Embedding(disk, {f})
           part == IF Chunks(disk, f) = {} THEN "next" ELSE "embed"
<1>3. s \in Seq(Queries) /\ \A i \in DOMAIN s : s[i].op = "row"
  <2>1. CASE Chunks(disk, f) = {}
    BY <2>1
  <2>2. CASE Chunks(disk, f) # {}
    <3>1. s = Embedding(disk, {f})
      BY <2>2
    <3>2. {f} \in SUBSET Files /\ disk \in Tree
      BY <1>1, <1>2 DEF TypeOK
    <3> HIDE DEF s, f
    <3> QED  BY <3>1, <3>2, EmbeddingList
  <2> QED  BY <2>1, <2>2
<1>4. part \in {"next", "embed"} /\ (part = "next" => s = <<>>)
  <2>1. CASE Chunks(disk, f) = {}
    BY <2>1
  <2>2. CASE Chunks(disk, f) # {}
    BY <2>2
  <2> QED  BY <2>1, <2>2
<1>5. /\ pc' = [pc EXCEPT ![r] = part] /\ todo' = [todo EXCEPT ![r] = s]
      /\ read' = [read EXCEPT ![r] = disk]
      /\ \/ call' = call /\ part = "embed"
         \/ call' = NextFile(r) /\ part = "next"
  <2>1. CASE Chunks(disk, f) = {}
    <3>1. part = "next" /\ s = <<>>
      BY <2>1
    <3>2. Enter(r, "next", <<>>) /\ call' = NextFile(r)
      BY <2>1 DEF StartFile
    <3> HIDE DEF part, s
    <3> QED  BY <3>1, <3>2 DEF Enter
  <2>2. CASE Chunks(disk, f) # {}
    <3>1. part = "embed" /\ s = Embedding(disk, {f})
      BY <2>2
    <3>2. Enter(r, "embed", Embedding(disk, {f})) /\ call' = call
      BY <2>2 DEF StartFile
    <3> HIDE DEF part, s
    <3> QED  BY <3>1, <3>2 DEF Enter
  <2> QED  BY <2>1, <2>2
<1> HIDE DEF s, part
<1>6. /\ call' \in [Requests -> [op : {"index", "update", "delete"}, files : Seq(Files)]]
      /\ call'[r].op = "update" /\ (part = "embed" => call'[r].files # <<>>)
      /\ \A q \in Requests \ {r} : call'[q] = call[q]
  <2>1. CASE call' = call
    BY <1>1, <2>1 DEF TypeOK
  <2>2. CASE call' = NextFile(r) /\ part = "next"
    BY <1>1, <2>2, NextFileCalls
  <2> QED  BY <1>5, <2>1, <2>2
<1>7. TypeOK'
  <2>1. /\ UNCHANGED <<disk, rows, node, chunks, contains, imports, edits, refused, moved,
                        due, bare>>
        /\ disturbed' \in {disturbed, disturbed \cup {r}}
    BY DEF StartFile, Begin, store
  <2>2. /\ pc' = [pc EXCEPT ![r] = part] /\ todo' = [todo EXCEPT ![r] = s]
        /\ read' = [read EXCEPT ![r] = disk]
    BY <1>5
  <2> QED  BY <1>1, <1>3, <1>4, <1>6, <2>1, <2>2 DEF TypeOK
<1>8. Placed(r)'
  <2>1. pc'[r] = part /\ todo'[r] = s
    BY <1>1, <1>5 DEF TypeOK
  <2>2. CASE part = "next"
    BY <1>4, <1>6, <2>1, <2>2 DEF Placed, Writing, IsMapping
  <2>3. CASE part = "embed"
    BY <1>3, <1>6, <2>1, <2>3 DEF Placed, Writing, IsMapping
  <2> QED  BY <1>4, <2>2, <2>3
<1>9. \A q \in Requests : Placed(q)'
  <2>1. \A q \in Requests \ {r} : pc'[q] = pc[q] /\ call'[q] = call[q] /\ todo'[q] = todo[q]
    BY <1>1, <1>5, <1>6 DEF TypeOK
  <2> QED  BY <1>8, <2>1, OthersPlaced
<1>10. Peaceful'
  BY <1>4, <1>5, PeaceBegins DEF StartFile
<1> QED  BY <1>7, <1>9, <1>10 DEF CallInvariant

LEMMA UpdateFileCalls ==
    ASSUME CallInvariant, NEW r \in Requests, UpdateFile(r)
    PROVE  CallInvariant'
<1> DEFINE f == Head(call[r].files)
           s == IF disk[f] = None THEN <<>> ELSE Updating(disk, f)
<1>1. /\ TypeOK /\ Placed(r) /\ call[r].op = "update" /\ pc[r] = "embed"
      /\ call[r].files # <<>>
  BY DEF CallInvariant, UpdateFile, Placed, Writing
<1>2. f \in Files
  BY <1>1 DEF TypeOK
<1>3. /\ s \in Seq(Queries)
      /\ \A i \in DOMAIN s : s[i].op \in {"file", "chunk", "attach", "raw"}
  <2>1. CASE disk[f] = None
    BY <2>1
  <2>2. CASE disk[f] # None
    <3>1. s = Updating(disk, f)
      BY <2>2
    <3> QED  BY <1>1, <1>2, <3>1, UpdatingList, ZenonT(40) DEF TypeOK, Brings
  <2> QED  BY <2>1, <2>2
<1>4. /\ pc' = [pc EXCEPT ![r] = "map"] /\ todo' = [todo EXCEPT ![r] = s]
      /\ read' = [read EXCEPT ![r] = disk] /\ UNCHANGED <<call, disturbed>>
  BY DEF UpdateFile, Enter
<1> HIDE DEF s
<1>5. TypeOK'
  BY <1>1, <1>3, <1>4 DEF TypeOK, UpdateFile, store
<1>6. Placed(r)'
  BY <1>1, <1>3, <1>4 DEF Placed, TypeOK, Writing, IsMapping
<1>7. \A q \in Requests : Placed(q)'
  <2>1. \A q \in Requests \ {r} : pc'[q] = pc[q] /\ call'[q] = call[q] /\ todo'[q] = todo[q]
    BY <1>1, <1>4 DEF TypeOK
  <2> QED  BY <1>6, <2>1, OthersPlaced
<1>8. Peaceful'
  BY <1>1, <1>4, PeaceStays DEF TypeOK
<1> QED  BY <1>5, <1>7, <1>8 DEF CallInvariant

LEMMA FileUpdatedCalls ==
    ASSUME CallInvariant, NEW r \in Requests, FileUpdated(r)
    PROVE  CallInvariant'
<1>1. /\ TypeOK /\ Placed(r) /\ call[r].op = "update" /\ pc[r] = "map" /\ todo[r] = <<>>
      /\ call[r].files # <<>>
      /\ pc' = [pc EXCEPT ![r] = "next"] /\ call' = NextFile(r) /\ UNCHANGED <<todo, disturbed>>
  BY DEF CallInvariant, FileUpdated, Placed, Writing
<1>2. /\ call' \in [Requests -> [op : {"index", "update", "delete"}, files : Seq(Files)]]
      /\ call'[r].op = "update" /\ \A q \in Requests \ {r} : call'[q] = call[q]
  BY <1>1, NextFileCalls
<1>3. TypeOK'
  <2>1. /\ UNCHANGED <<disk, rows, node, chunks, contains, imports, todo, read, edits,
                        refused, disturbed, moved, due, bare>>
        /\ TypeOK /\ pc' = [pc EXCEPT ![r] = "next"]
    BY <1>1 DEF FileUpdated, store
  <2> QED  BY <1>2, <2>1 DEF TypeOK
<1>4. Placed(r)'
  BY <1>1, <1>2 DEF Placed, TypeOK, Writing, IsMapping
<1>5. \A q \in Requests : Placed(q)'
  <2>1. \A q \in Requests \ {r} : pc'[q] = pc[q] /\ call'[q] = call[q] /\ todo'[q] = todo[q]
    BY <1>1, <1>2 DEF TypeOK
  <2> QED  BY <1>4, <2>1, OthersPlaced
<1>6. Peaceful'
  BY <1>1, PeaceStays DEF TypeOK
<1> QED  BY <1>3, <1>5, <1>6 DEF CallInvariant

LEMMA UpdateReturnsCalls ==
    ASSUME CallInvariant, NEW r \in Requests, UpdateReturns(r)
    PROVE  CallInvariant'
<1>1. /\ TypeOK /\ Placed(r) /\ pc[r] \in {"new", "next"} /\ call[r].op = "update"
      /\ pc' = [pc EXCEPT ![r] = "done"] /\ UNCHANGED <<call, todo, disturbed>>
  BY DEF CallInvariant, UpdateReturns
<1>2. TypeOK'
  BY <1>1 DEF TypeOK, UpdateReturns, store
<1>3. Placed(r)'
  BY <1>1 DEF Placed, TypeOK, Writing, IsMapping
<1>4. \A q \in Requests : Placed(q)'
  <2>1. \A q \in Requests \ {r} : pc'[q] = pc[q] /\ call'[q] = call[q] /\ todo'[q] = todo[q]
    BY <1>1 DEF TypeOK
  <2> QED  BY <1>3, <2>1, OthersPlaced
<1>5. Peaceful'
  BY <1>1, PeaceStays DEF TypeOK
<1> QED  BY <1>2, <1>4, <1>5 DEF CallInvariant

\* Nothing is taken away from the graph.
Grows ==
    /\ chunks \subseteq chunks' /\ contains \subseteq contains'
    /\ imports \subseteq imports'
    /\ \A f \in Files : node[f] # None => node'[f] = node[f]

StoreTypes ==
    /\ rows \subseteq Files \X Names /\ node \in [Files -> {None, "file", "external"}]
    /\ chunks \subseteq Files \X Names /\ contains \subseteq Files \X Names
    /\ imports \subseteq Files \X Files

\* What has happened when the query is done.
Happened(q) ==
    /\ q.op = "row" => rows' = rows \cup {q.at}
    /\ q.op # "row" => rows' = rows
    /\ q.op = "chunk" => chunks' = chunks \cup {q.at}
    /\ q.op # "chunk" => chunks' = chunks
    /\ q.op = "file" => node'[q.at] # None
    /\ q.op = "target" => node'[q.at[2]] # None
    /\ q.op = "attach" /\ node[q.at[1]] # None /\ q.at \in chunks => q.at \in contains'
    /\ q.op = "edge" /\ node[q.at[1]] # None /\ node[q.at[2]] # None => q.at \in imports'
    /\ \A f \in Files :
          node'[f] = "external" /\ node[f] # "external" =>
              q.op = "target" /\ q.at[2] = f /\ node[f] = None

LEMMA QueryTypes ==
    ASSUME NEW q \in Queries
    PROVE  /\ q.op \in {"row", "chunk", "attach"} => q.at \in Files \X Names
           /\ q.op = "file" => q.at \in Files
           /\ q.op \in {"target", "edge"} => q.at \in Files \X Files
<1>1. CASE q \in [op : {"row", "chunk", "attach"}, at : Files \X Names]
  BY <1>1
<1>2. CASE q \in [op : {"file"}, at : Files]
  BY <1>2
<1>3. CASE q \in [op : {"target", "edge"}, at : Files \X Files]
  BY <1>3
<1>4. CASE q \in {Raw} \cup [op : {"delete rows", "delete graph"}]
  <2>1. CASE q = Raw
    BY <2>1 DEF Raw
  <2>2. CASE q \in [op : {"delete rows", "delete graph"}]
    <3>1. q.op \in {"delete rows", "delete graph"}
      BY <2>2
    <3> QED  BY <3>1
  <2> QED  BY <1>4, <2>1, <2>2
<1>5. \/ q \in [op : {"row", "chunk", "attach"}, at : Files \X Names]
      \/ q \in [op : {"file"}, at : Files]
      \/ q \in [op : {"target", "edge"}, at : Files \X Files]
      \/ q \in {Raw} \cup [op : {"delete rows", "delete graph"}]
  BY Zenon DEF Queries
<1> QED  BY <1>1, <1>2, <1>3, <1>4, <1>5

LEMMA Executes ==
    ASSUME StoreTypes, NEW q \in Queries, Execute(q)
    PROVE  StoreTypes' /\ Grows /\ Happened(q)
<1>1. None \notin {"file", "external"}
  BY IndexAssumption
<1>2. /\ q.op \in {"row", "chunk", "attach"} => q.at \in Files \X Names
      /\ q.op = "file" => q.at \in Files
      /\ q.op \in {"target", "edge"} => q.at \in Files \X Files
  BY QueryTypes
<1>3. CASE q.op = "row"
  <2>1. rows' = rows \cup {q.at} /\ UNCHANGED <<node, chunks, contains, imports>>
    BY <1>3 DEF Execute
  <2> QED  BY <1>1, <1>2, <1>3, <2>1 DEF StoreTypes, Grows, Happened
<1>4. CASE q.op = "file"
  <2>1. node' = Merge(q.at, "file") /\ UNCHANGED <<rows, chunks, contains, imports>>
    BY <1>4 DEF Execute
  <2> QED  BY <1>1, <1>2, <1>4, <2>1 DEF StoreTypes, Grows, Happened, Merge
<1>5. CASE q.op = "chunk"
  <2>1. chunks' = chunks \cup {q.at} /\ UNCHANGED <<rows, node, contains, imports>>
    BY <1>5 DEF Execute
  <2> QED  BY <1>1, <1>2, <1>5, <2>1 DEF StoreTypes, Grows, Happened
<1>6. CASE q.op = "attach"
  <2>1. /\ contains' = IF node[q.at[1]] # None /\ q.at \in chunks
                       THEN contains \cup {q.at} ELSE contains
        /\ UNCHANGED <<rows, node, chunks, imports>>
    BY <1>6 DEF Execute
  <2> QED  BY <1>1, <1>2, <1>6, <2>1 DEF StoreTypes, Grows, Happened
<1>7. CASE q.op = "target"
  <2>1. node' = Merge(q.at[2], "external") /\ UNCHANGED <<rows, chunks, contains, imports>>
    BY <1>7 DEF Execute
  <2>2. q.at[2] \in Files
    BY <1>2, <1>7
  <2> QED  BY <1>1, <2>2, <1>7, <2>1 DEF StoreTypes, Grows, Happened, Merge
<1>8. CASE q.op = "edge"
  <2>1. /\ imports' = IF node[q.at[1]] # None /\ node[q.at[2]] # None
                      THEN imports \cup {q.at} ELSE imports
        /\ UNCHANGED <<rows, node, chunks, contains>>
    BY <1>8 DEF Execute
  <2> QED  BY <1>1, <1>2, <1>8, <2>1 DEF StoreTypes, Grows, Happened
<1>9. CASE q.op = "raw"
  <2>1. UNCHANGED <<rows, node, chunks, contains, imports>>
    BY <1>9 DEF Execute, store
  <2> QED  BY <1>1, <1>9, <2>1 DEF StoreTypes, Grows, Happened
<1> QED  BY <1>3, <1>4, <1>5, <1>6, <1>7, <1>8, <1>9 DEF Execute

LEMMA SendCalls ==
    ASSUME CallInvariant, NEW r \in Requests, Send(r)
    PROVE  CallInvariant' /\ Grows /\ Happened(Head(todo[r]))
<1> DEFINE s == todo[r]
           t == Tail(s)
<1>1. /\ TypeOK /\ Placed(r) /\ s \in Seq(Queries) /\ s # <<>> /\ Execute(Head(s))
      /\ todo' = [todo EXCEPT ![r] = t]
      /\ UNCHANGED <<disk, call, pc, read, edits, refused, disturbed, moved, due, bare>>
  BY DEF CallInvariant, Send, TypeOK
<1>2. RestOf(t, s, Queries)
  BY <1>1, Shortened
<1>3. StoreTypes' /\ Grows /\ Happened(Head(s))
  <2>1. StoreTypes /\ Head(s) \in Queries
    BY <1>1, <1>2 DEF TypeOK, StoreTypes, RestOf
  <2> QED  BY <1>1, <2>1, Executes
<1> HIDE DEF t
<1>4. TypeOK'
  BY <1>1, <1>2, <1>3 DEF TypeOK, StoreTypes, RestOf
<1>5. Placed(r)'
  <2>1. /\ pc'[r] = pc[r] /\ call'[r] = call[r] /\ todo'[r] = t
    BY <1>1 DEF TypeOK
  <2>2. \A i \in DOMAIN t : /\ i + 1 \in DOMAIN s /\ t[i] = s[i + 1]
                            /\ i + 1 < Len(s) => i < Len(t)
    BY <1>2 DEF RestOf
  <2> QED  BY <1>1, <2>1, <2>2, StillPlaced
<1>6. \A q \in Requests : Placed(q)'
  <2>1. \A q \in Requests \ {r} : pc'[q] = pc[q] /\ call'[q] = call[q] /\ todo'[q] = todo[q]
    BY <1>1 DEF TypeOK
  <2> QED  BY <1>5, <2>1, OthersPlaced
<1>7. Peaceful'
  BY <1>1, PeaceStays
<1> QED  BY <1>3, <1>4, <1>6, <1>7 DEF CallInvariant

LEMMA RefuseCalls ==
    ASSUME CallInvariant, NEW r \in Requests, Refuse(r)
    PROVE  CallInvariant'
<1> DEFINE s == todo[r]
<1>1. /\ TypeOK /\ Placed(r) /\ s \in Seq(Queries) /\ s # <<>>
      /\ refused' = refused + 1 /\ disturbed' = disturbed \cup {r}
      /\ UNCHANGED <<disk, store, call, pc, read, edits, moved, due, bare>>
  BY DEF CallInvariant, Refuse, TypeOK
<1>2. RestOf(Tail(s), s, Queries)
  BY <1>1, Shortened
\* After the error, the list goes on behind what has failed.
<1>3. \E t \in Seq(Queries) :
          /\ todo' = [todo EXCEPT ![r] = t]
          /\ \A i \in DOMAIN t : \E k \in DOMAIN s :
                s[k] = t[i] /\ (k < Len(s) => i < Len(t))
  <2>1. CASE Head(s).op = "target" /\ todo' = [todo EXCEPT ![r] = Tail(Tail(@))]
    <3> DEFINE t == Tail(s)
    <3>1. 1 < Len(s)
      BY <1>1, <1>2, <2>1 DEF Placed, RestOf
    <3>2. t # <<>> /\ t \in Seq(Queries)
      BY <1>1, <3>1
    <3>3. RestOf(Tail(t), t, Queries)
      BY <3>2, Shortened
    <3>4. todo' = [todo EXCEPT ![r] = Tail(t)]
      BY <2>1
    <3> HIDE DEF t, s
    <3>5. ASSUME NEW i \in DOMAIN Tail(t)
          PROVE  \E k \in DOMAIN s :
                    s[k] = Tail(t)[i] /\ (k < Len(s) => i < Len(Tail(t)))
      <4>1. i + 1 \in DOMAIN t /\ Tail(t)[i] = t[i + 1] /\ (i + 1 < Len(t) => i < Len(Tail(t)))
        BY <3>3 DEF RestOf
      <4>2. /\ (i + 1) + 1 \in DOMAIN s /\ t[i + 1] = s[(i + 1) + 1]
            /\ (i + 1) + 1 < Len(s) => i + 1 < Len(t)
        BY <1>2, <4>1 DEF RestOf, t
      <4> QED  BY <4>1, <4>2
    <3> QED  BY <3>3, <3>4, <3>5 DEF RestOf
  <2>2. CASE todo' = [todo EXCEPT ![r] = Tail(@)]
    <3> DEFINE t == Tail(s)
    <3>1. todo' = [todo EXCEPT ![r] = t]
      BY <2>2
    <3>2. RestOf(t, s, Queries)
      BY <1>2
    <3> HIDE DEF t, s
    <3> QED  BY <3>1, <3>2 DEF RestOf
  <2>3. CASE todo' = [todo EXCEPT ![r] = <<>>]
    <3>1. <<>> \in Seq(Queries) /\ DOMAIN <<>> = {}
      OBVIOUS
    <3> QED  BY <2>3, <3>1
  <2> QED  BY <2>1, <2>2, <2>3 DEF Refuse
<1>4. PICK t \in Seq(Queries) :
          /\ todo' = [todo EXCEPT ![r] = t]
          /\ \A i \in DOMAIN t : \E k \in DOMAIN s :
                s[k] = t[i] /\ (k < Len(s) => i < Len(t))
  BY <1>3
<1>5. TypeOK'
  BY <1>1, <1>4 DEF TypeOK, store
<1>6. Placed(r)'
  <2>1. /\ pc'[r] = pc[r] /\ call'[r] = call[r] /\ todo'[r] = t
    BY <1>1, <1>4 DEF TypeOK
  <2> QED  BY <1>1, <1>4, <2>1, StillPlaced
<1>7. \A q \in Requests : Placed(q)'
  <2>1. \A q \in Requests \ {r} : pc'[q] = pc[q] /\ call'[q] = call[q] /\ todo'[q] = todo[q]
    BY <1>1, <1>4 DEF TypeOK
  <2> QED  BY <1>6, <2>1, OthersPlaced
<1>8. Peaceful'
  BY <1>1, PeaceStays
<1> QED  BY <1>5, <1>7, <1>8 DEF CallInvariant

LEMMA StartDeleteCalls ==
    ASSUME CallInvariant, NEW r \in Requests, StartDelete(r)
    PROVE  /\ CallInvariant'
           /\ \A q \in Requests : pc[q] \in {"embed", "graph", "map", "next"} => q \in disturbed'
           /\ todo'[r] = <<DeletingRows, DeletingGraph>>
<1> DEFINE s == <<DeletingRows, DeletingGraph>>
<1>1. /\ TypeOK /\ Placed(r) /\ call[r].op = "delete" /\ pc[r] = "new"
      /\ pc' = [pc EXCEPT ![r] = "delete"] /\ call' = call
      /\ disturbed' = disturbed \cup (InFlight \ Deleting)
      /\ UNCHANGED <<disk, store, call, read, edits, refused, moved, due, bare>>
  BY DEF CallInvariant, StartDelete
<1>2. todo' = [todo EXCEPT ![r] = s]
  BY DEF StartDelete, DeletingRows, DeletingGraph
<1>3. s \in Seq(Queries) /\ \A i \in DOMAIN s : s[i].op \in {"delete rows", "delete graph"}
  <2>1. /\ DeletingRows \in Queries /\ DeletingGraph \in Queries
        /\ DeletingRows.op = "delete rows" /\ DeletingGraph.op = "delete graph"
    BY DEF Queries, DeletingRows, DeletingGraph
  <2>2. ASSUME NEW a \in Queries, NEW b \in Queries
        PROVE  /\ <<a, b>> \in Seq(Queries)
               /\ \A i \in DOMAIN <<a, b>> : <<a, b>>[i] = a \/ <<a, b>>[i] = b
    <3>1. <<a, b>> \in Seq(Queries) /\ DOMAIN <<a, b>> = 1..2
      OBVIOUS
    <3>2. \A i \in 1..2 : <<a, b>>[i] = a \/ <<a, b>>[i] = b
      OBVIOUS
    <3> QED  BY <3>1, <3>2
  <2> QED  BY <2>1, <2>2
<1> HIDE DEF s
<1>4. \A q \in Requests : pc[q] \in {"embed", "graph", "map", "next"} => q \in disturbed'
  BY <1>1, DeletionsAre DEF InFlight
<1>5. TypeOK'
  BY <1>1, <1>2, <1>3 DEF TypeOK, store, InFlight
<1>6. Placed(r)'
  BY <1>1, <1>2, <1>3 DEF Placed, TypeOK, Writing, IsMapping
<1>7. \A q \in Requests : Placed(q)'
  <2>1. \A q \in Requests \ {r} : pc'[q] = pc[q] /\ call'[q] = call[q] /\ todo'[q] = todo[q]
    BY <1>1, <1>2 DEF TypeOK
  <2> QED  BY <1>6, <2>1, OthersPlaced
<1>8. Peaceful'
  BY <1>1, <1>4 DEF TypeOK, Peaceful
<1>9. todo'[r] = s
  BY <1>1, <1>2 DEF TypeOK
<1> QED  BY <1>4, <1>5, <1>7, <1>8, <1>9 DEF CallInvariant, s

\* One of the two queries of a deletion is answered, or fails.
LEMMA AnsweredCalls ==
    ASSUME CallInvariant, NEW r \in Requests, NEW q, Answered(r, q), call' = call,
           disturbed' \subseteq Requests, disturbed \subseteq disturbed'
    PROVE  /\ pc[r] = "delete" /\ Among(todo[r], q)
           /\ pc' \in [Requests -> {"new", "embed", "graph", "map", "next", "delete", "done"}]
           /\ \A p \in Requests \ {r} : pc'[p] = pc[p] /\ todo'[p] = todo[p]
           /\ todo' \in [Requests -> Seq(Queries)] /\ Peaceful'
           /\ \A p \in Requests : Placed(p)'
           /\ \A p : Among(todo[r], p) => p = q \/ Among(todo'[r], p)
           /\ pc'[r] \in {"delete", "done"}
           /\ pc'[r] = "done" => todo'[r] = <<>>
<1> DEFINE s == todo[r]
<1>1. TypeOK /\ Placed(r) /\ pc[r] = "delete" /\ s \in Seq(Queries) /\ call[r].op = "delete"
  BY DEF CallInvariant, Answered, TypeOK, Placed
<1>2. PICK i \in DOMAIN s : s[i] = q /\ todo' = [todo EXCEPT ![r] = RemoveAt(@, i)]
  BY DEF Answered
<1> DEFINE t == RemoveAt(s, i)
<1>3. WithoutOf(t, s, i, Queries)
  BY <1>1, Removed
<1>4. todo' = [todo EXCEPT ![r] = t]
  BY <1>2
<1> HIDE DEF t
<1>5. /\ pc' \in [Requests -> {"new", "embed", "graph", "map", "next", "delete", "done"}]
      /\ \A p \in Requests \ {r} : pc'[p] = pc[p]
      /\ pc'[r] \in {"delete", "done"} /\ (pc'[r] = "done" => Len(s) = 1)
  BY <1>1 DEF Answered, TypeOK
<1>6. pc'[r] = "done" => t = <<>>
  <2>1. t \in Seq(Queries) /\ Len(t) = Len(s) - 1
    BY <1>3 DEF WithoutOf
  <2>2. ASSUME Len(s) = 1 PROVE t = <<>>
    BY <2>1, <2>2
  <2> QED  BY <1>5, <2>2
<1>7. \A p \in Requests \ {r} : todo'[p] = todo[p]
  BY <1>1, <1>4 DEF TypeOK
<1>8. todo'[r] = t /\ todo' \in [Requests -> Seq(Queries)]
  BY <1>1, <1>3, <1>4 DEF TypeOK, WithoutOf
<1>9. Placed(r)'
  <2>1. \A k \in DOMAIN t : t[k].op \notin {"row", "target", "edge"}
    <3>1. \A j \in DOMAIN s : s[j].op \notin {"row", "target", "edge"}
      BY <1>1 DEF Placed, IsMapping
    <3> QED  BY <1>3, <3>1 DEF WithoutOf
  <2>2. CASE pc'[r] = "delete"
    BY <1>1, <1>8, <2>1, <2>2 DEF Placed, Writing, IsMapping
  <2>3. CASE pc'[r] = "done"
    BY <1>1, <1>6, <1>8, <2>3 DEF Placed, Writing, IsMapping
  <2> QED  BY <1>5, <2>2, <2>3
<1>10. \A p \in Requests : Placed(p)'
  BY <1>5, <1>7, <1>9, OthersPlaced
<1>11. Peaceful'
  BY <1>1, <1>5, PeaceStays
<1>12. \A p : Among(s, p) => p = q \/ Among(t, p)
  BY <1>2, <1>3 DEF WithoutOf
<1>13. Among(s, q)
  BY <1>2 DEF Among
<1> QED  BY <1>1, <1>5, <1>6, <1>7, <1>8, <1>10, <1>11, <1>12, <1>13

LEMMA DeleteRowsCalls ==
    ASSUME CallInvariant, NEW r \in Requests, DeleteRows(r)
    PROVE  CallInvariant'
<1>1. /\ TypeOK /\ Answered(r, DeletingRows) /\ rows' = {}
      /\ UNCHANGED <<disk, node, chunks, contains, imports, call, read, edits, refused,
                     disturbed, moved, due, bare>>
  BY DEF CallInvariant, DeleteRows, DeletingRows
<1>2. /\ pc' \in [Requests -> {"new", "embed", "graph", "map", "next", "delete", "done"}]
      /\ todo' \in [Requests -> Seq(Queries)] /\ Peaceful'
      /\ \A p \in Requests : Placed(p)'
  BY <1>1, AnsweredCalls DEF TypeOK
<1>3. TypeOK'
  BY <1>1, <1>2 DEF TypeOK
<1> QED  BY <1>2, <1>3 DEF CallInvariant

LEMMA DeleteGraphCalls ==
    ASSUME CallInvariant, NEW r \in Requests, DeleteGraph(r)
    PROVE  CallInvariant'
<1>1. /\ TypeOK /\ Answered(r, DeletingGraph)
      /\ node' = [f \in Files |-> None] /\ chunks' = {} /\ contains' = {} /\ imports' = {}
      /\ due' = None
      /\ UNCHANGED <<disk, rows, call, read, edits, refused, disturbed, moved, bare>>
  BY DEF CallInvariant, DeleteGraph, DeletingGraph
<1>2. /\ pc' \in [Requests -> {"new", "embed", "graph", "map", "next", "delete", "done"}]
      /\ todo' \in [Requests -> Seq(Queries)] /\ Peaceful'
      /\ \A p \in Requests : Placed(p)'
  BY <1>1, AnsweredCalls DEF TypeOK
<1>3. TypeOK'
  BY <1>1, <1>2 DEF TypeOK
<1> QED  BY <1>2, <1>3 DEF CallInvariant

LEMMA DeleteRefusedCalls ==
    ASSUME CallInvariant, NEW r \in Requests, DeleteRefused(r)
    PROVE  CallInvariant'
<1>1. PICK q \in ToSet(todo[r]) : Answered(r, q)
  BY DEF DeleteRefused
<1>2. /\ TypeOK /\ refused' = refused + 1 /\ disturbed' = disturbed \cup {r}
      /\ UNCHANGED <<disk, store, call, read, edits, moved, due, bare>>
  BY DEF CallInvariant, DeleteRefused
<1>3. /\ pc' \in [Requests -> {"new", "embed", "graph", "map", "next", "delete", "done"}]
      /\ todo' \in [Requests -> Seq(Queries)] /\ Peaceful'
      /\ \A p \in Requests : Placed(p)'
  BY <1>1, <1>2, AnsweredCalls DEF TypeOK
<1>4. TypeOK'
  BY <1>2, <1>3 DEF TypeOK, store
<1> QED  BY <1>3, <1>4 DEF CallInvariant

LEMMA EditCalls ==
    ASSUME CallInvariant, NEW f \in Files, NEW content \in Contents \cup {None},
           Edit(f, content)
    PROVE  CallInvariant'
<1>1. TypeOK /\ UNCHANGED <<store, call, pc, todo, read, refused, disturbed, due, bare>>
  BY DEF CallInvariant, Edit
<1>2. TypeOK'
  BY <1>1 DEF TypeOK, Edit, store, Tree, InFlight
<1>3. \A q \in Requests : Placed(q)'
  BY <1>1, OthersPlaced
<1>4. Peaceful'
  BY <1>1, PeaceStays
<1> QED  BY <1>2, <1>3, <1>4 DEF CallInvariant

LEMMA InitCalls == Init => CallInvariant
<1> SUFFICES ASSUME Init PROVE CallInvariant
  OBVIOUS
<1>1. /\ pc = [r \in Requests |-> "new"] /\ todo = [r \in Requests |-> <<>>]
      /\ call \in [Requests -> Calls]
  BY DEF Init
<1>2. call \in [Requests -> [op : {"index", "update", "delete"}, files : Seq(Files)]]
  BY <1>1, IndexAssumption
<1>3. disk \in Tree /\ read \in [Requests -> Tree]
  BY IndexAssumption DEF Init, Tree
<1>4. todo \in [Requests -> Seq(Queries)]
  BY <1>1
<1>5. TypeOK
  BY <1>1, <1>2, <1>3, <1>4 DEF Init, TypeOK
<1>6. Peaceful /\ \A r \in Requests : Placed(r)
  BY <1>1 DEF Peaceful, Placed, Writing, IsMapping
<1> QED  BY <1>5, <1>6 DEF CallInvariant

LEMMA NextCalls == CallInvariant /\ [Next]_vars => CallInvariant'
<1> SUFFICES ASSUME CallInvariant, [Next]_vars PROVE CallInvariant'
  OBVIOUS
<1>1. CASE UNCHANGED vars
  <2>1. UNCHANGED vars /\ UNCHANGED store
    BY <1>1 DEF vars
  <2>2. TypeOK'
    BY <2>1 DEF vars, store, CallInvariant, TypeOK
  <2>3. \A q \in Requests : Placed(q)'
    BY <2>1, OthersPlaced DEF vars
  <2>4. Peaceful'
    BY <2>1, PeaceStays DEF vars
  <2> QED  BY <2>2, <2>3, <2>4 DEF CallInvariant
<1>2. ASSUME NEW r \in Requests,
             \/ StartIndex(r) \/ StartGraph(r) \/ StartMapping(r) \/ IndexReturns(r)
             \/ StartFile(r) \/ UpdateFile(r) \/ FileUpdated(r) \/ UpdateReturns(r)
             \/ Send(r) \/ Refuse(r)
             \/ StartDelete(r) \/ DeleteRows(r) \/ DeleteGraph(r) \/ DeleteRefused(r)
      PROVE  CallInvariant'
  BY <1>2, StartIndexCalls, StartGraphCalls, StartMappingCalls, IndexReturnsCalls,
     StartFileCalls, UpdateFileCalls, FileUpdatedCalls, UpdateReturnsCalls, SendCalls,
     RefuseCalls, StartDeleteCalls, DeleteRowsCalls, DeleteGraphCalls, DeleteRefusedCalls
<1>3. ASSUME NEW f \in Files, NEW content \in Contents \cup {None}, Edit(f, content)
      PROVE  CallInvariant'
  BY <1>3, EditCalls
<1> QED  BY <1>1, <1>2, <1>3 DEF Next

\* Every state of an execution has its types, and its calls are where they can be.
THEOREM CallsInvariance == Spec => []CallInvariant
BY InitCalls, NextCalls, PTL DEF Spec

-----------------------------------------------------------------------------
(* What the mapping brings into the graph.                                  *)

LEMMA FoundedStays ==
    ASSUME NEW s \in Seq(Queries), NEW n, NEW n2, NEW m, NEW m2, NEW b, NEW b2,
           \A f \in Files : n[f] # None => n2[f] # None,
           m \subseteq m2, b \subseteq b2, Founded(s, n, m, b)
    PROVE  Founded(s, n2, m2, b2)
<1>1. ASSUME NEW i \in DOMAIN s
      PROVE  /\ s[i].op = "attach" => s[i].at[1] \in Files
             /\ s[i].op \in {"target", "edge"} => s[i].at[1] \in Files /\ s[i].at[2] \in Files
  BY QueryTypes
<1> QED  BY <1>1 DEF Founded

LEMMA CoveringStays ==
    ASSUME NEW files \in Tree, NEW s, NEW n, NEW n2, NEW h, NEW h2, NEW l, NEW l2,
           \A f \in Files : n[f] # None => n2[f] # None,
           h \subseteq h2, l \subseteq l2, Covering(files, s, n, h, l)
    PROVE  Covering(files, s, n2, h2, l2)
<1>1. \A c \in ChunksOf(files, Files) : c[1] \in Files
  BY ChunksOfTypes
<1> QED  BY <1>1 DEF Covering

\* The first query of the list is done.
LEMMA FoundedGoesOn ==
    ASSUME NEW s \in Seq(Queries), s # <<>>, NEW n, NEW n2, NEW m, NEW m2, NEW b,
           \A f \in Files : n[f] # None => n2[f] # None, m \subseteq m2,
           Founded(s, n, m, b),
           Head(s).op = "file" => n2[Head(s).at] # None,
           Head(s).op = "target" => n2[Head(s).at[2]] # None,
           Head(s).op = "chunk" => Head(s).at \in m2
    PROVE  Founded(Tail(s), n2, m2, b)
<1> DEFINE t == Tail(s)
           q == Head(s)
<1>1. RestOf(t, s, Queries)
  BY Shortened
<1> HIDE DEF t
<1>2. ASSUME NEW i \in DOMAIN t
      PROVE  LET op == t[i].op
                 at == t[i].at
             IN  /\ op = "attach" => /\ n2[at[1]] # None \/ Before(t, i, File(at[1]))
                                     /\ at \in m2 \/ Before(t, i, Chunk(at))
                 /\ op = "target" => \/ at[2] \in b \/ n2[at[2]] # None
                                     \/ Before(t, i, File(at[2]))
                 /\ op = "edge" => /\ n2[at[1]] # None \/ Before(t, i, File(at[1]))
                                   /\ n2[at[2]] # None \/ Before(t, i, Target(at))
  <2> DEFINE op == t[i].op
             at == t[i].at
  <2>1. /\ i + 1 \in DOMAIN s /\ t[i] = s[i + 1]
        /\ \A p : Before(s, i + 1, p) => p = q \/ Before(t, i, p)
    BY <1>1 DEF RestOf
  <2>2. /\ op = "attach" => at[1] \in Files
        /\ op \in {"target", "edge"} => at[1] \in Files /\ at[2] \in Files
    <3>1. t[i] \in Queries
      BY <1>1 DEF RestOf
    <3> QED  BY <3>1, QueryTypes
  <2>3. \A f : q = File(f) => n2[f] # None
    BY DEF File
  <2>4. \A c : q = Chunk(c) => c \in m2
    BY DEF Chunk
  <2>5. \A p : q = Target(p) => n2[p[2]] # None
    BY DEF Target
  <2>6. /\ op = "attach" => /\ n[at[1]] # None \/ Before(s, i + 1, File(at[1]))
                            /\ at \in m \/ Before(s, i + 1, Chunk(at))
        /\ op = "target" => \/ at[2] \in b \/ n[at[2]] # None
                            \/ Before(s, i + 1, File(at[2]))
        /\ op = "edge" => /\ n[at[1]] # None \/ Before(s, i + 1, File(at[1]))
                          /\ n[at[2]] # None \/ Before(s, i + 1, Target(at))
    BY <2>1 DEF Founded
  <2> HIDE DEF q, op, at
  <2>7. op = "attach" => /\ n2[at[1]] # None \/ Before(t, i, File(at[1]))
                         /\ at \in m2 \/ Before(t, i, Chunk(at))
    BY <2>1, <2>2, <2>3, <2>4, <2>6
  <2>8. op = "target" => \/ at[2] \in b \/ n2[at[2]] # None
                         \/ Before(t, i, File(at[2]))
    BY <2>1, <2>2, <2>3, <2>6
  <2>9. op = "edge" => /\ n2[at[1]] # None \/ Before(t, i, File(at[1]))
                       /\ n2[at[2]] # None \/ Before(t, i, Target(at))
    BY <2>1, <2>2, <2>3, <2>5, <2>6
  <2> QED  BY <2>7, <2>8, <2>9 DEF op, at
<1>3. Founded(t, n2, m2, b)
  BY <1>2 DEF Founded
<1> QED  BY <1>3 DEF t

LEMMA CoveringGoesOn ==
    ASSUME NEW files \in Tree, NEW s \in Seq(Queries), s # <<>>,
           NEW n, NEW n2, NEW h, NEW h2, NEW l, NEW l2,
           \A f \in Files : n[f] # None => n2[f] # None, h \subseteq h2, l \subseteq l2,
           Covering(files, s, n, h, l),
           Head(s).op = "file" => n2[Head(s).at] # None,
           Head(s).op = "attach" => Head(s).at \in h2,
           Head(s).op = "edge" => Head(s).at \in l2
    PROVE  Covering(files, Tail(s), n2, h2, l2)
<1> DEFINE t == Tail(s)
           q == Head(s)
<1>1. \A p : Among(s, p) => p = q \/ Among(t, p)
  BY Shortened DEF RestOf
<1>2. \A c \in ChunksOf(files, Files) : c[1] \in Files
  BY ChunksOfTypes
<1>3. /\ \A f : q = File(f) => n2[f] # None
      /\ \A c : q = Attach(c) => c \in h2
      /\ \A p : q = Edge(p) => p \in l2
  BY DEF File, Attach, Edge
<1> HIDE DEF t, q
<1>4. Covering(files, t, n2, h2, l2)
  BY <1>1, <1>2, <1>3 DEF Covering
<1> QED  BY <1>4 DEF t

\* An index has returned: its list is empty.
LEMMA CoveredAll ==
    ASSUME NEW files \in Tree
    PROVE  Covering(files, <<>>, node, contains, imports) <=>
               /\ \A f \in Files : \A c \in Chunks(files, f) : node[f] # None /\ c \in contains
               /\ Resolved(files) \subseteq imports
<1>1. \A q : ~Among(<<>>, q)
  BY DEF Among
<1>2. \A f \in Files : \A c \in Chunks(files, f) : c[1] = f
  BY ChunkTypes
<1> QED  BY <1>1, <1>2 DEF Covering, ChunksOf

LEMMA CoversStays ==
    ASSUME CallInvariant, IndexCovers, Grows, due' = due
    PROVE  IndexCovers'
<1>1. due # None => due \in Tree
  BY DEF CallInvariant, TypeOK
<1>2. CASE due = None
  BY <1>2 DEF IndexCovers
<1>3. CASE due # None
  <2>1. \A f \in Files : \A c \in Chunks(due, f) : node'[f] # None /\ c \in contains'
    BY <1>3 DEF IndexCovers, Grows
  <2>2. Resolved(due) \subseteq imports'
    BY <1>3 DEF IndexCovers, Grows
  <2> QED  BY <2>1, <2>2 DEF IndexCovers, Chunks, Resolved
<1> QED  BY <1>2, <1>3

LEMMA MappedStays ==
    ASSUME CallInvariant, Mapped, Grows, bare \subseteq bare', disturbed \subseteq disturbed',
           NEW q \in Requests, q \notin disturbed', IsMapping(q),
           todo'[q] = todo[q], read'[q] = read[q]
    PROVE  /\ Founded(todo'[q], node', chunks', bare')
           /\ Covering(read'[q], todo'[q], node', contains', imports')
<1>1. todo[q] \in Seq(Queries) /\ read[q] \in Tree
  BY DEF CallInvariant, TypeOK
<1>2. /\ Founded(todo[q], node, chunks, bare)
      /\ Covering(read[q], todo[q], node, contains, imports)
  BY DEF Mapped
<1>3. /\ \A f \in Files : node[f] # None => node'[f] # None
      /\ chunks \subseteq chunks' /\ contains \subseteq contains' /\ imports \subseteq imports'
  BY DEF Grows
<1>4. Founded(todo[q], node', chunks', bare')
  BY <1>1, <1>2, <1>3, FoundedStays
<1>5. Covering(read[q], todo[q], node', contains', imports')
  BY <1>1, <1>2, <1>3, CoveringStays
<1> QED  BY <1>4, <1>5

\* A step that does not touch the graph, of a call that is not an undisturbed mapping.
LEMMA MapAside ==
    ASSUME CallInvariant, MapInvariant, UNCHANGED <<node, chunks, contains, imports, due>>,
           bare \subseteq bare', disturbed \subseteq disturbed',
           \A q \in Requests : q \notin disturbed' /\ IsMapping(q)' =>
               IsMapping(q) /\ todo'[q] = todo[q] /\ read'[q] = read[q]
    PROVE  MapInvariant'
<1>1. Grows
  BY DEF Grows
<1>2. Mapped'
  BY <1>1, MappedStays DEF Mapped, MapInvariant
<1>3. IndexCovers'
  BY <1>1, CoversStays DEF MapInvariant
<1>4. ExternalWasBare'
  BY DEF ExternalWasBare, MapInvariant
<1> QED  BY <1>2, <1>3, <1>4 DEF MapInvariant

\* The lists that the mapper makes.
LEMMA MappingStarts ==
    ASSUME NEW files \in Tree, NEW s, Maps(s, files), NEW n, NEW m, NEW b, NEW h, NEW l,
           \A p \in Resolved(files) : Chunks(files, p[2]) = {} => p[2] \in b
    PROVE  Founded(s, n, m, b) /\ Covering(files, s, n, h, l)
<1>1. \A f \in Files : Chunks(files, f) # {} => \E c \in ChunksOf(files, Files) : c[1] = f
  BY ChunkTypes DEF ChunksOf
<1>2. ASSUME NEW i \in DOMAIN s, s[i].op = "attach"
      PROVE  Before(s, i, Chunk(s[i].at)) /\ Before(s, i, File(s[i].at[1]))
  BY <1>2 DEF Maps
<1>3. ASSUME NEW i \in DOMAIN s, s[i].op \in {"target", "edge"}
      PROVE  /\ Before(s, i, File(s[i].at[1]))
             /\ s[i].at[2] \in b \/ Before(s, i, File(s[i].at[2]))
  <2> DEFINE p == s[i].at
  <2>1. p \in Resolved(files) /\ \A c \in ChunksOf(files, Files) : Before(s, i, File(c[1]))
    BY <1>3 DEF Maps
  <2>2. p[1] \in Files /\ p[2] \in Files /\ Chunks(files, p[1]) # {}
    BY <2>1, ResolvedTypes
  <2> HIDE DEF p
  <2>3. Before(s, i, File(p[1]))
    BY <1>1, <2>1, <2>2
  <2>4. p[2] \in b \/ Before(s, i, File(p[2]))
    BY <1>1, <2>1, <2>2
  <2> QED  BY <2>3, <2>4 DEF p
<1>4. ASSUME NEW i \in DOMAIN s, s[i].op = "edge"
      PROVE  Before(s, i, Target(s[i].at))
  BY <1>4 DEF Maps
<1>5. Founded(s, n, m, b)
  BY <1>2, <1>3, <1>4 DEF Founded
<1>6. Covering(files, s, n, h, l)
  BY DEF Maps, Covering
<1> QED  BY <1>5, <1>6

LEMMA StartMappingMaps ==
    ASSUME CallInvariant, MapInvariant, NEW r \in Requests, StartMapping(r)
    PROVE  MapInvariant'
<1> DEFINE s == Mapping(disk)
<1>1. /\ TypeOK /\ UNCHANGED <<node, chunks, contains, imports, due, disturbed, call>>
      /\ pc' = [pc EXCEPT ![r] = "map"] /\ todo' = [todo EXCEPT ![r] = s]
      /\ read' = [read EXCEPT ![r] = disk]
      /\ bare' = bare \cup {p[2] : p \in {p \in Resolved(disk) : Chunks(disk, p[2]) = {}}}
  BY DEF CallInvariant, StartMapping, Enter, store
<1>2. Maps(s, disk) /\ disk \in Tree
  BY <1>1, MappingList DEF TypeOK
<1>3. \A p \in Resolved(disk) : Chunks(disk, p[2]) = {} => p[2] \in bare'
  BY <1>1
<1> HIDE DEF s
<1>4. Founded(s, node, chunks, bare') /\ Covering(disk, s, node, contains, imports)
  BY <1>2, <1>3, MappingStarts
<1>5. Grows /\ bare \subseteq bare'
  BY <1>1 DEF Grows
<1>6. ASSUME NEW q \in Requests, q \notin disturbed', IsMapping(q)'
      PROVE  /\ Founded(todo'[q], node', chunks', bare')
             /\ Covering(read'[q], todo'[q], node', contains', imports')
  <2>1. CASE q = r
    <3>1. todo'[q] = s /\ read'[q] = disk
      BY <1>1, <2>1 DEF TypeOK
    <3> QED  BY <1>1, <1>4, <3>1
  <2>2. CASE q # r
    <3>1. IsMapping(q) /\ todo'[q] = todo[q] /\ read'[q] = read[q]
      BY <1>1, <1>6, <2>2 DEF TypeOK, IsMapping
    <3> QED  BY <1>1, <1>5, <1>6, <3>1, MappedStays DEF MapInvariant
  <2> QED  BY <2>1, <2>2
<1>7. IndexCovers'
  BY <1>1, <1>5, CoversStays DEF MapInvariant
<1>8. ExternalWasBare'
  BY <1>1, <1>5 DEF ExternalWasBare, MapInvariant
<1> QED  BY <1>6, <1>7, <1>8 DEF MapInvariant, Mapped

LEMMA IndexReturnsMaps ==
    ASSUME CallInvariant, MapInvariant, NEW r \in Requests, IndexReturns(r)
    PROVE  MapInvariant'
<1>1. /\ TypeOK /\ UNCHANGED <<node, chunks, contains, imports, bare, disturbed, call, todo, read>>
      /\ IsMapping(r) /\ todo[r] = <<>>
      /\ pc' = [pc EXCEPT ![r] = "done"] /\ due' = IF r \in disturbed THEN due ELSE read[r]
  BY DEF CallInvariant, IndexReturns, store, IsMapping
<1>2. Grows
  BY <1>1 DEF Grows
<1>3. ASSUME NEW q \in Requests, q \notin disturbed', IsMapping(q)'
      PROVE  /\ Founded(todo'[q], node', chunks', bare')
             /\ Covering(read'[q], todo'[q], node', contains', imports')
  <2>1. IsMapping(q) /\ todo'[q] = todo[q] /\ read'[q] = read[q]
    BY <1>1, <1>3 DEF TypeOK, IsMapping
  <2> QED  BY <1>1, <1>2, <1>3, <2>1, MappedStays DEF MapInvariant
<1>4. IndexCovers'
  <2>1. CASE r \in disturbed
    BY <1>1, <1>2, <2>1, CoversStays DEF MapInvariant
  <2>2. CASE r \notin disturbed
    <3>1. Covering(read[r], <<>>, node, contains, imports) /\ read[r] \in Tree
      BY <1>1, <2>2 DEF MapInvariant, Mapped, TypeOK
    <3>2. /\ \A f \in Files : \A c \in Chunks(read[r], f) : node[f] # None /\ c \in contains
          /\ Resolved(read[r]) \subseteq imports
      BY <3>1, CoveredAll
    <3>3. due' = read[r]
      BY <1>1, <2>2
    <3> QED  BY <1>1, <3>2, <3>3 DEF IndexCovers, Chunks, Resolved
  <2> QED  BY <2>1, <2>2
<1>5. ExternalWasBare'
  BY <1>1 DEF ExternalWasBare, MapInvariant
<1> QED  BY <1>3, <1>4, <1>5 DEF MapInvariant, Mapped

LEMMA SendMaps ==
    ASSUME CallInvariant, MapInvariant, NEW r \in Requests, Send(r)
    PROVE  MapInvariant'
<1> DEFINE s == todo[r]
           t == Tail(s)
           h == Head(s)
<1>1. /\ TypeOK /\ Placed(r) /\ s \in Seq(Queries) /\ s # <<>> /\ read[r] \in Tree
      /\ todo' = [todo EXCEPT ![r] = t]
      /\ UNCHANGED <<call, pc, read, disturbed, due, bare>>
  BY DEF CallInvariant, Send, TypeOK
<1>2. Grows /\ Happened(h)
  BY SendCalls
<1>3. RestOf(t, s, Queries)
  BY <1>1, Shortened
<1> HIDE DEF t
<1>4. IsMapping(r) /\ r \notin disturbed => Founded(s, node, chunks, bare)
  BY DEF MapInvariant, Mapped
\* What the first query matches is there: no query is before it.
<1>5. ASSUME IsMapping(r), r \notin disturbed
      PROVE  /\ h.op = "attach" => node[h.at[1]] # None /\ h.at \in chunks
             /\ h.op = "target" => h.at[2] \in bare \/ node[h.at[2]] # None
             /\ h.op = "edge" => node[h.at[1]] # None /\ node[h.at[2]] # None
  <2>1. Founded(s, node, chunks, bare)
    BY <1>4, <1>5
  <2>2. 1 \in DOMAIN s /\ s[1] = h /\ \A q : ~Before(s, 1, q)
    BY <1>3 DEF RestOf
  <2> HIDE DEF s, h
  <2> QED  BY <2>1, <2>2 DEF Founded
<1>6. ASSUME IsMapping(r), r \notin disturbed
      PROVE  Founded(t, node', chunks', bare) /\ Covering(read[r], t, node', contains', imports')
  <2>1. /\ Founded(s, node, chunks, bare)
        /\ Covering(read[r], s, node, contains, imports)
    BY <1>6 DEF MapInvariant, Mapped
  <2>2. /\ \A f \in Files : node[f] # None => node'[f] # None
        /\ chunks \subseteq chunks' /\ contains \subseteq contains' /\ imports \subseteq imports'
    BY <1>2 DEF Grows
  <2>3. /\ h.op = "file" => node'[h.at] # None
        /\ h.op = "target" => node'[h.at[2]] # None
        /\ h.op = "chunk" => h.at \in chunks'
        /\ h.op = "attach" => h.at \in contains'
        /\ h.op = "edge" => h.at \in imports'
    BY <1>2, <1>5, <1>6 DEF Happened
  <2>4. Founded(Tail(s), node', chunks', bare)
    <3> HIDE DEF s
    <3> QED  BY <1>1, <2>1, <2>2, <2>3, FoundedGoesOn
  <2>5. Covering(read[r], Tail(s), node', contains', imports')
    <3> HIDE DEF s
    <3> QED  BY <1>1, <2>1, <2>2, <2>3, CoveringGoesOn
  <2> QED  BY <2>4, <2>5 DEF t
<1>7. ASSUME NEW q \in Requests, q \notin disturbed', IsMapping(q)'
      PROVE  /\ Founded(todo'[q], node', chunks', bare')
             /\ Covering(read'[q], todo'[q], node', contains', imports')
  <2>1. IsMapping(q) /\ read'[q] = read[q] /\ q \notin disturbed /\ bare' = bare
    BY <1>1, <1>7 DEF IsMapping
  <2>2. CASE q = r
    <3>1. todo'[q] = t
      BY <1>1, <2>2 DEF TypeOK
    <3> QED  BY <1>6, <2>1, <2>2, <3>1
  <2>3. CASE q # r
    <3>1. todo'[q] = todo[q]
      BY <1>1, <2>3 DEF TypeOK
    <3> QED  BY <1>1, <1>2, <1>7, <2>1, <3>1, MappedStays DEF MapInvariant
  <2> QED  BY <2>2, <2>3
<1>8. IndexCovers'
  BY <1>1, <1>2, CoversStays DEF MapInvariant
<1>9. ExternalWasBare'
  <2>1. ASSUME disturbed = {}, NEW f \in Files, node'[f] = "external", node[f] # "external"
        PROVE  f \in bare
    <3>1. h.op = "target" /\ h.at[2] = f /\ node[f] = None
      BY <1>2, <2>1 DEF Happened
    <3>2. IsMapping(r)
      BY <1>1, <1>3, <3>1 DEF Placed, RestOf
    <3> QED  BY <1>5, <2>1, <3>1, <3>2
  <2> QED  BY <1>1, <2>1 DEF ExternalWasBare, MapInvariant
<1> QED  BY <1>7, <1>8, <1>9 DEF MapInvariant, Mapped

\* A deletion comes across every mapping there is.
LEMMA DeleteGraphMaps ==
    ASSUME CallInvariant, MapInvariant, NEW r \in Requests, DeleteGraph(r)
    PROVE  MapInvariant'
<1>1. /\ TypeOK /\ Answered(r, DeletingGraph) /\ node' = [f \in Files |-> None] /\ due' = None
      /\ UNCHANGED <<call, disturbed>>
  BY DEF CallInvariant, DeleteGraph, DeletingGraph
<1>2. /\ pc[r] = "delete" /\ pc'[r] \in {"delete", "done"}
      /\ \A q \in Requests \ {r} : pc'[q] = pc[q]
  BY <1>1, AnsweredCalls DEF TypeOK
<1>3. \A q \in Requests : q \notin disturbed' => pc'[q] # "map"
  BY <1>1, <1>2 DEF CallInvariant, Peaceful
<1>4. Mapped'
  BY <1>3 DEF Mapped, IsMapping
<1>5. IndexCovers'
  BY <1>1 DEF IndexCovers
<1>6. ExternalWasBare'
  BY <1>1, IndexAssumption DEF ExternalWasBare
<1> QED  BY <1>4, <1>5, <1>6 DEF MapInvariant

LEMMA InitMaps == Init => MapInvariant
<1> SUFFICES ASSUME Init PROVE MapInvariant
  OBVIOUS
<1>1. Mapped
  BY DEF Init, Mapped, IsMapping
<1>2. IndexCovers
  BY DEF Init, IndexCovers
<1>3. ExternalWasBare
  BY IndexAssumption DEF Init, ExternalWasBare
<1> QED  BY <1>1, <1>2, <1>3 DEF MapInvariant

LEMMA NextMaps == CallInvariant /\ MapInvariant /\ [Next]_vars => MapInvariant'
<1> SUFFICES ASSUME CallInvariant, MapInvariant, [Next]_vars PROVE MapInvariant'
  OBVIOUS
<1>1. TypeOK
  BY DEF CallInvariant
<1>2. CASE UNCHANGED vars
  BY <1>2, MapAside DEF vars, store, IsMapping
<1>3. ASSUME NEW r \in Requests,
             StartIndex(r) \/ StartGraph(r) \/ StartFile(r) \/ UpdateFile(r)
             \/ FileUpdated(r) \/ UpdateReturns(r)
      PROVE  MapInvariant'
  <2>1. /\ UNCHANGED <<node, chunks, contains, imports, due, bare>>
        /\ disturbed' = disturbed \/ disturbed' = disturbed \cup {r}
    BY <1>3 DEF StartIndex, StartGraph, StartFile, UpdateFile, FileUpdated, UpdateReturns,
                Begin, store
  <2>2. /\ ~IsMapping(r)'
        /\ \A q \in Requests \ {r} : /\ pc'[q] = pc[q] /\ call'[q] = call[q]
                                     /\ todo'[q] = todo[q] /\ read'[q] = read[q]
    <3>1. CASE StartIndex(r) \/ StartGraph(r)
      BY <1>1, <3>1 DEF StartIndex, StartGraph, Enter, TypeOK, IsMapping
    <3>2. CASE StartFile(r)
      <4>1. \/ Enter(r, "next", <<>>) /\ call' = NextFile(r)
            \/ Enter(r, "embed", Embedding(disk, {Head(call[r].files)})) /\ call' = call
        BY <3>2 DEF StartFile
      <4>2. /\ pc'[r] # "map"
            /\ \A q \in Requests \ {r} : /\ pc'[q] = pc[q]
                                         /\ todo'[q] = todo[q] /\ read'[q] = read[q]
        BY <1>1, <4>1 DEF Enter, TypeOK
      <4>3. \A q \in Requests \ {r} : call'[q] = call[q]
        BY <1>1, <3>2, <4>1, NextFileCalls DEF StartFile
      <4> QED  BY <4>2, <4>3 DEF IsMapping
    <3>3. CASE UpdateFile(r)
      BY <1>1, <3>3 DEF UpdateFile, Enter, TypeOK, IsMapping
    <3>4. CASE FileUpdated(r)
      <4>1. /\ pc' = [pc EXCEPT ![r] = "next"] /\ UNCHANGED <<todo, read>>
            /\ call' = NextFile(r) /\ call[r].files # <<>>
        BY <3>4 DEF FileUpdated, CallInvariant, Placed, Writing
      <4>2. \A q \in Requests \ {r} : call'[q] = call[q]
        BY <1>1, <4>1, NextFileCalls
      <4>3. pc' = [pc EXCEPT ![r] = "next"] /\ UNCHANGED <<todo, read>>
        BY <4>1
      <4> QED  BY <1>1, <4>2, <4>3 DEF TypeOK, IsMapping
    <3>5. CASE UpdateReturns(r)
      BY <1>1, <3>5 DEF UpdateReturns, TypeOK, IsMapping
    <3> QED  BY <1>3, <3>1, <3>2, <3>3, <3>4, <3>5
  <2> QED  BY <2>1, <2>2, MapAside DEF IsMapping
<1>4. ASSUME NEW r \in Requests, StartDelete(r) \/ DeleteRows(r) \/ DeleteRefused(r) \/ Refuse(r)
      PROVE  MapInvariant'
  <2>1. /\ UNCHANGED <<node, chunks, contains, imports, due, bare, call, read>>
        /\ disturbed \subseteq disturbed'
    BY <1>4 DEF StartDelete, DeleteRows, DeleteRefused, Refuse, store
  <2>2. /\ r \in disturbed' \/ ~IsMapping(r)'
        /\ \A q \in Requests \ {r} : pc'[q] = pc[q] /\ todo'[q] = todo[q]
    <3>1. CASE StartDelete(r)
      BY <1>1, <3>1 DEF StartDelete, TypeOK, IsMapping
    <3>2. CASE DeleteRows(r)
      BY <1>1, <2>1, <3>2, AnsweredCalls DEF DeleteRows, TypeOK, IsMapping
    <3>3. CASE DeleteRefused(r)
      <4>1. PICK q \in ToSet(todo[r]) : Answered(r, q)
        BY <3>3 DEF DeleteRefused
      <4>2. disturbed' = disturbed \cup {r} /\ call' = call
        BY <3>3 DEF DeleteRefused
      <4> QED  BY <1>1, <4>1, <4>2, AnsweredCalls DEF TypeOK
    <3>4. CASE Refuse(r)
      BY <1>1, <3>4 DEF Refuse, TypeOK
    <3> QED  BY <1>4, <3>1, <3>2, <3>3, <3>4
  <2> QED  BY <2>1, <2>2, MapAside DEF IsMapping
<1>5. ASSUME NEW r \in Requests, StartMapping(r) \/ IndexReturns(r) \/ Send(r) \/ DeleteGraph(r)
      PROVE  MapInvariant'
  BY <1>5, StartMappingMaps, IndexReturnsMaps, SendMaps, DeleteGraphMaps
<1>6. ASSUME NEW f \in Files, NEW content \in Contents \cup {None}, Edit(f, content)
      PROVE  MapInvariant'
  BY <1>6, MapAside DEF Edit, store, IsMapping
<1> QED  BY <1>2, <1>3, <1>4, <1>5, <1>6 DEF Next

\* What a mapping has still to bring into the graph is in its list, in an order in
\* which every query finds what it matches.
THEOREM MapInvariance == Spec => []MapInvariant
BY CallsInvariance, InitMaps, NextMaps, PTL DEF Spec

-----------------------------------------------------------------------------
(* Search and graph.                                                        *)

LEMMA WorkNow ==
    ASSUME NEW r \in Requests, NEW files, read'[r] = files
    PROVE  Work(r)' = IF call'[r].op = "index" THEN ChunksOf(files, Files)
                      ELSE Chunks(files, Head(call'[r].files))
BY DEF Work, ChunksOf, Chunks

\* A call that is in its part, with its list and what it is about.
LEMMA SearchedNow ==
    ASSUME NEW r \in Requests, NEW part, pc'[r] = part, NEW s, todo'[r] = s,
           NEW W, Work(r)' = W,
           part \in {"embed", "graph", "map"} =>
               /\ read'[r] = disk'
               /\ part = "embed" => \A c \in W : c \in rows' \/ Among(s, Row(c))
               /\ part # "embed" => W \subseteq rows'
               /\ part = "map" => \A c \in W : c \in chunks' \/ Among(s, Chunk(c))
               /\ \A i \in DOMAIN s : s[i].op \in {"row", "chunk"} => s[i].at \in W
    PROVE  Searched(r)'
BY DEF Searched, Writing, Among, Row, Chunk

LEMMA OwesNow ==
    ASSUME NEW r \in Requests, NEW part, pc'[r] = part, NEW s, todo'[r] = s,
           NEW W, Work(r)' = W, NEW c
    PROVE  Owes(r, c)' <=> /\ part \in {"embed", "graph"} \/ (part = "map" /\ Among(s, Chunk(c)))
                           /\ c \in W
BY DEF Owes, Among, Chunk

LEMMA WorkStays ==
    ASSUME NEW q \in Requests, call'[q] = call[q], read'[q] = read[q]
    PROVE  Work(q)' = Work(q)
BY DEF Work, ChunksOf, Chunks

LEMMA SearchedStays ==
    ASSUME NEW q \in Requests, Searched(q), rows \subseteq rows', chunks \subseteq chunks',
           disk' = disk, pc'[q] = pc[q], call'[q] = call[q], todo'[q] = todo[q],
           read'[q] = read[q]
    PROVE  Searched(q)'
<1> DEFINE W == Work(q)
           s == todo[q]
           part == pc[q]
<1>1. part \in {"embed", "graph", "map"} =>
        /\ read[q] = disk
        /\ part = "embed" => \A c \in W : c \in rows \/ Among(s, Row(c))
        /\ part # "embed" => W \subseteq rows
        /\ part = "map" => \A c \in W : c \in chunks \/ Among(s, Chunk(c))
        /\ \A i \in DOMAIN s : s[i].op \in {"row", "chunk"} => s[i].at \in W
  BY DEF Searched, Writing
<1>2. Work(q)' = W
  BY WorkStays
<1>3. todo'[q] = s /\ pc'[q] = part
  OBVIOUS
<1> HIDE DEF W, s, part
<1>4. part \in {"embed", "graph", "map"} =>
        /\ read'[q] = disk'
        /\ part = "embed" => \A c \in W : c \in rows' \/ Among(s, Row(c))
        /\ part # "embed" => W \subseteq rows'
        /\ part = "map" => \A c \in W : c \in chunks' \/ Among(s, Chunk(c))
        /\ \A i \in DOMAIN s : s[i].op \in {"row", "chunk"} => s[i].at \in W
  BY <1>1
<1> QED  BY <1>2, <1>3, <1>4, SearchedNow

LEMMA OwesStays ==
    ASSUME NEW q \in Requests, NEW c, pc'[q] = pc[q], call'[q] = call[q],
           todo'[q] = todo[q], read'[q] = read[q], Owes(q, c)
    PROVE  Owes(q, c)'
<1> DEFINE W == Work(q)
           s == todo[q]
           part == pc[q]
<1>1. /\ part \in {"embed", "graph"} \/ (part = "map" /\ Among(s, Chunk(c)))
      /\ c \in W
  BY DEF Owes
<1>2. Work(q)' = W
  BY WorkStays
<1>3. todo'[q] = s /\ pc'[q] = part
  OBVIOUS
<1> HIDE DEF W, s, part
<1> QED  BY <1>1, <1>2, <1>3, OwesNow

\* A step of an index or an update, which adds and does not delete.
LEMMA StillAgreeing ==
    ASSUME CallInvariant, Agreeing, NEW r \in Requests, disk' = disk,
           \A q \in Requests \ {r} : /\ pc'[q] = pc[q] /\ call'[q] = call[q]
                                     /\ todo'[q] = todo[q] /\ read'[q] = read[q],
           rows \subseteq rows', chunks \subseteq chunks', Searched(r)',
           pc[r] # "delete", pc'[r] # "delete",
           \A d \in Requests : pc[d] = "delete" => rows' = rows /\ chunks' = chunks,
           chunks \subseteq rows => chunks' \subseteq rows',
           \A c \in rows' : c \in rows \/ Owes(r, c)',
           \A c \in rows : Owes(r, c) => c \in chunks' \/ Owes(r, c)'
    PROVE  Agreeing'
<1>1. \A q \in Requests : Searched(q)'
  <2>1. \A q \in Requests \ {r} : Searched(q)'
    BY SearchedStays DEF Agreeing
  <2> QED  BY <2>1
<1>2. ASSUME NEW d \in Requests, pc'[d] = "delete"
      PROVE  /\ rows' = {} \/ Among(todo'[d], DeletingRows)
             /\ chunks' = {} \/ Among(todo'[d], DeletingGraph)
  <2>1. d # r /\ pc[d] = "delete" /\ todo'[d] = todo[d]
    BY <1>2
  <2> QED  BY <2>1 DEF Agreeing, Deleted
<1>3. \A d \in Requests : Deleted(d)'
  BY <1>2 DEF Deleted
<1>4. ASSUME \A d \in Requests : pc'[d] # "delete", NEW c \in rows'
      PROVE  c \in chunks' \/ \E q \in Requests : Owes(q, c)'
  <2>1. \A d \in Requests : pc[d] # "delete"
    BY <1>4
  <2>2. CASE Owes(r, c)'
    BY <2>2
  <2>3. CASE c \in rows
    <3>1. c \in chunks \/ \E q \in Requests : Owes(q, c)
      BY <2>1, <2>3 DEF Agreeing
    <3>2. ASSUME NEW q \in Requests \ {r}, Owes(q, c) PROVE Owes(q, c)'
      BY <3>2, OwesStays
    <3> QED  BY <2>3, <3>1, <3>2
  <2> QED  BY <2>2, <2>3
<1>5. (\A d \in Requests : pc'[d] # "delete") => chunks' \subseteq rows'
  BY DEF Agreeing
<1> QED  BY <1>1, <1>3, <1>4, <1>5 DEF Agreeing

LEMMA NoDeletionBegins ==
    ASSUME CallInvariant, NEW r \in Requests, Begin(r), disturbed' = {}
    PROVE  \A d \in Requests : pc[d] # "delete"
BY DeletionsAre DEF Begin

LEMMA NoDeletionRuns ==
    ASSUME CallInvariant, NEW r \in Requests, disturbed = {},
           pc[r] \in {"embed", "graph", "map", "next"}
    PROVE  \A d \in Requests : pc[d] # "delete"
BY DEF CallInvariant, Peaceful

LEMMA NothingAmong == \A q : ~Among(<<>>, q)
BY DEF Among

LEMMA StartIndexAgrees ==
    ASSUME CallInvariant, Agreeing, NEW r \in Requests, StartIndex(r), disturbed' = {}
    PROVE  Agreeing'
<1> DEFINE s == Embedding(disk, Files)
           W == ChunksOf(disk, Files)
<1>1. /\ TypeOK /\ call[r].op = "index" /\ pc[r] = "new" /\ Begin(r)
      /\ pc' = [pc EXCEPT ![r] = "embed"] /\ todo' = [todo EXCEPT ![r] = s]
      /\ read' = [read EXCEPT ![r] = disk] /\ UNCHANGED <<disk, call, rows, chunks>>
  BY DEF CallInvariant, StartIndex, Enter, store
<1>2. /\ \A i \in DOMAIN s : s[i].op = "row" /\ s[i].at \in W
      /\ \A c \in W : Among(s, Row(c))
  BY <1>1, EmbeddingList DEF TypeOK, Among
<1>3. \A d \in Requests : pc[d] # "delete"
  BY <1>1, NoDeletionBegins
<1>4. pc'[r] = "embed" /\ todo'[r] = s /\ read'[r] = disk
  BY <1>1 DEF TypeOK
<1>5. Work(r)' = W
  BY <1>1, <1>4, WorkNow
<1> HIDE DEF s, W
<1>6. Searched(r)'
  BY <1>1, <1>2, <1>4, <1>5, SearchedNow
<1>7. \A c \in rows : ~Owes(r, c)
  BY <1>1 DEF Owes
<1>8. \A q \in Requests \ {r} : /\ pc'[q] = pc[q] /\ call'[q] = call[q]
                                /\ todo'[q] = todo[q] /\ read'[q] = read[q]
  BY <1>1 DEF TypeOK
<1> QED  BY <1>1, <1>3, <1>4, <1>6, <1>7, <1>8, StillAgreeing

LEMMA StartGraphAgrees ==
    ASSUME CallInvariant, Agreeing, NEW r \in Requests, StartGraph(r), disturbed = {}
    PROVE  Agreeing'
<1> DEFINE s == Graph(read[r])
           W == Work(r)
<1>1. /\ TypeOK /\ call[r].op = "index" /\ pc[r] = "embed" /\ todo[r] = <<>>
      /\ pc' = [pc EXCEPT ![r] = "graph"] /\ todo' = [todo EXCEPT ![r] = s]
      /\ UNCHANGED <<disk, call, rows, chunks, read>>
  BY DEF CallInvariant, StartGraph, store
<1>2. \A i \in DOMAIN s : s[i].op # "row" /\ (s[i].op = "chunk" => s[i].at \in W)
  BY <1>1, GraphList DEF TypeOK, Brings, Work
<1>3. \A d \in Requests : pc[d] # "delete"
  BY <1>1, NoDeletionRuns
<1>4. pc'[r] = "graph" /\ todo'[r] = s
  BY <1>1 DEF TypeOK
<1>5. Work(r)' = W
  BY <1>1, WorkStays
<1>6. read[r] = disk /\ W \subseteq rows
  BY <1>1, NothingAmong DEF Agreeing, Searched, Writing
<1>7. \A c \in rows : Owes(r, c) => c \in W
  BY DEF Owes
<1> HIDE DEF s, W
<1>8. Searched(r)'
  BY <1>1, <1>2, <1>4, <1>5, <1>6, SearchedNow
<1>9. \A c \in rows : Owes(r, c) => Owes(r, c)'
  BY <1>4, <1>5, <1>7, OwesNow
<1>10. \A q \in Requests \ {r} : /\ pc'[q] = pc[q] /\ call'[q] = call[q]
                                 /\ todo'[q] = todo[q] /\ read'[q] = read[q]
  BY <1>1 DEF TypeOK
<1> QED  BY <1>1, <1>3, <1>4, <1>8, <1>9, <1>10, StillAgreeing

LEMMA StartMappingAgrees ==
    ASSUME CallInvariant, Agreeing, NEW r \in Requests, StartMapping(r), disturbed = {}
    PROVE  Agreeing'
<1> DEFINE s == Mapping(disk)
           W == ChunksOf(disk, Files)
<1>1. /\ TypeOK /\ call[r].op = "index" /\ pc[r] = "graph"
      /\ pc' = [pc EXCEPT ![r] = "map"] /\ todo' = [todo EXCEPT ![r] = s]
      /\ read' = [read EXCEPT ![r] = disk] /\ UNCHANGED <<disk, call, rows, chunks>>
  BY DEF CallInvariant, Placed, StartMapping, Enter, store
<1>2. /\ \A i \in DOMAIN s : s[i].op # "row" /\ (s[i].op = "chunk" => s[i].at \in W)
      /\ \A c \in W : Among(s, Chunk(c))
  BY <1>1, MappingList DEF TypeOK, Maps
<1>3. \A d \in Requests : pc[d] # "delete"
  BY <1>1, NoDeletionRuns
<1>4. pc'[r] = "map" /\ todo'[r] = s /\ read'[r] = disk
  BY <1>1 DEF TypeOK
<1>5. Work(r)' = W
  BY <1>1, <1>4, WorkNow
<1>6. Work(r) = W /\ W \subseteq rows
  BY <1>1 DEF Agreeing, Searched, Writing, Work
<1>7. \A c \in rows : Owes(r, c) => c \in W
  BY <1>6 DEF Owes
<1> HIDE DEF s, W
<1>8. Searched(r)'
  BY <1>1, <1>2, <1>4, <1>5, <1>6, SearchedNow
<1>9. \A c \in rows : Owes(r, c) => Owes(r, c)'
  BY <1>2, <1>4, <1>5, <1>7, OwesNow
<1>10. \A q \in Requests \ {r} : /\ pc'[q] = pc[q] /\ call'[q] = call[q]
                                 /\ todo'[q] = todo[q] /\ read'[q] = read[q]
  BY <1>1 DEF TypeOK
<1> QED  BY <1>1, <1>3, <1>4, <1>8, <1>9, <1>10, StillAgreeing

\* A call is between its parts, and has nothing left to send.
LEMMA PauseAgrees ==
    ASSUME CallInvariant, Agreeing, NEW r \in Requests, UNCHANGED <<disk, rows, chunks>>,
           pc[r] \in {"new", "next"} \/ (pc[r] = "map" /\ todo[r] = <<>>),
           pc'[r] \in {"next", "done"},
           \A q \in Requests \ {r} : /\ pc'[q] = pc[q] /\ call'[q] = call[q]
                                     /\ todo'[q] = todo[q] /\ read'[q] = read[q]
    PROVE  Agreeing'
<1>1. Searched(r)'
  BY DEF Searched, Writing
<1>2. \A c \in rows : ~Owes(r, c)
  BY NothingAmong DEF Owes
<1> QED  BY <1>1, <1>2, StillAgreeing

LEMMA StartFileAgrees ==
    ASSUME CallInvariant, Agreeing, NEW r \in Requests, StartFile(r), disturbed' = {}
    PROVE  Agreeing'
<1> DEFINE f == Head(call[r].files)
           s == Embedding(disk, {f})
           W == Chunks(disk, f)
<1>1. /\ TypeOK /\ call[r].op = "update" /\ call[r].files # <<>> /\ pc[r] \in {"new", "next"}
      /\ Begin(r) /\ UNCHANGED <<disk, rows, chunks>>
  BY DEF CallInvariant, StartFile, store
<1>2. f \in Files
  BY <1>1 DEF TypeOK
<1>3. CASE Chunks(disk, f) = {}
  <2>1. Enter(r, "next", <<>>) /\ call' = NextFile(r)
    BY <1>3 DEF StartFile
  <2>2. /\ pc'[r] = "next"
        /\ \A q \in Requests \ {r} : /\ pc'[q] = pc[q]
                                     /\ todo'[q] = todo[q] /\ read'[q] = read[q]
    BY <1>1, <2>1 DEF Enter, TypeOK
  <2>3. \A q \in Requests \ {r} : call'[q] = call[q]
    BY <1>1, <2>1, NextFileCalls
  <2> QED  BY <1>1, <2>2, <2>3, PauseAgrees
<1>4. CASE Chunks(disk, f) # {}
  <2>1. Enter(r, "embed", s) /\ call' = call
    BY <1>4 DEF StartFile
  <2>2. /\ pc'[r] = "embed" /\ todo'[r] = s /\ read'[r] = disk
        /\ \A q \in Requests \ {r} : /\ pc'[q] = pc[q] /\ call'[q] = call[q]
                                     /\ todo'[q] = todo[q] /\ read'[q] = read[q]
    <3> HIDE DEF s
    <3> QED  BY <1>1, <2>1 DEF Enter, TypeOK
  <2>3. ChunksOf(disk, {f}) = W
    BY DEF ChunksOf
  <2>4. /\ \A i \in DOMAIN s : s[i].op = "row" /\ s[i].at \in W
        /\ \A c \in W : Among(s, Row(c))
    <3>1. {f} \in SUBSET Files /\ disk \in Tree
      BY <1>1, <1>2 DEF TypeOK
    <3> HIDE DEF f
    <3>2. /\ \A i \in DOMAIN s : s[i].op = "row" /\ s[i].at \in ChunksOf(disk, {f})
          /\ \A c \in ChunksOf(disk, {f}) : Among(s, Row(c))
      BY <3>1, EmbeddingList DEF Among
    <3> HIDE DEF s, W
    <3> QED  BY <2>3, <3>2
  <2>5. Work(r)' = W
    BY <1>1, <2>1, <2>2, WorkNow
  <2> HIDE DEF s, W
  <2>6. Searched(r)'
    BY <1>1, <2>2, <2>4, <2>5, SearchedNow
  <2>7. \A d \in Requests : pc[d] # "delete"
    BY <1>1, NoDeletionBegins
  <2>8. \A c \in rows : ~Owes(r, c)
    BY <1>1 DEF Owes
  <2> QED  BY <1>1, <2>2, <2>6, <2>7, <2>8, StillAgreeing
<1> QED  BY <1>3, <1>4

LEMMA UpdateFileAgrees ==
    ASSUME CallInvariant, Agreeing, NEW r \in Requests, UpdateFile(r), disturbed = {}
    PROVE  Agreeing'
<1> DEFINE f == Head(call[r].files)
           s == IF disk[f] = None THEN <<>> ELSE Updating(disk, f)
           W == Chunks(disk, f)
<1>1. /\ TypeOK /\ Placed(r) /\ call[r].op = "update" /\ pc[r] = "embed" /\ todo[r] = <<>>
      /\ call[r].files # <<>>
      /\ pc' = [pc EXCEPT ![r] = "map"] /\ todo' = [todo EXCEPT ![r] = s]
      /\ read' = [read EXCEPT ![r] = disk] /\ UNCHANGED <<disk, call, rows, chunks>>
  BY DEF CallInvariant, UpdateFile, Placed, Writing, Enter, store
<1>2. f \in Files
  BY <1>1 DEF TypeOK
<1>3. /\ \A i \in DOMAIN s : s[i].op # "row" /\ (s[i].op = "chunk" => s[i].at \in W)
      /\ \A c \in W : Among(s, Chunk(c))
  <2>1. CASE disk[f] = None
    <3>1. W = {} /\ s = <<>>
      BY <2>1 DEF Chunks
    <3> HIDE DEF W, s
    <3> QED  BY <3>1
  <2>2. CASE disk[f] # None
    <3>1. s = Updating(disk, f) /\ ChunksOf(disk, {f}) = W
      BY <2>2 DEF ChunksOf
    <3>2. Brings(Updating(disk, f), ChunksOf(disk, {f}))
      BY <1>1, <1>2, UpdatingList DEF TypeOK
    <3> HIDE DEF W, s, f
    <3> QED  BY <3>1, <3>2 DEF Brings
  <2> QED  BY <2>1, <2>2
<1>4. \A d \in Requests : pc[d] # "delete"
  BY <1>1, NoDeletionRuns
<1>5. W \subseteq rows /\ Work(r) = W
  BY <1>1, NothingAmong DEF Agreeing, Searched, Writing, Work
<1>6. \A c \in rows : Owes(r, c) => c \in W
  BY <1>5 DEF Owes
<1>7. pc'[r] = "map" /\ read'[r] = disk
  BY <1>1 DEF TypeOK
<1>8. Work(r)' = W
  BY <1>1, <1>7, WorkNow
<1> HIDE DEF s, W
<1>9. todo'[r] = s
  BY <1>1 DEF TypeOK
<1>10. Searched(r)'
  BY <1>1, <1>3, <1>5, <1>7, <1>8, <1>9, SearchedNow
<1>11. \A c \in rows : Owes(r, c) => Owes(r, c)'
  BY <1>3, <1>6, <1>7, <1>8, <1>9, OwesNow
<1>12. \A q \in Requests \ {r} : /\ pc'[q] = pc[q] /\ call'[q] = call[q]
                                 /\ todo'[q] = todo[q] /\ read'[q] = read[q]
  BY <1>1 DEF TypeOK
<1> QED  BY <1>1, <1>4, <1>7, <1>10, <1>11, <1>12, StillAgreeing

LEMMA SendAgrees ==
    ASSUME CallInvariant, Agreeing, NEW r \in Requests, Send(r), disturbed = {}
    PROVE  Agreeing'
<1> DEFINE s == todo[r]
           t == Tail(s)
           h == Head(s)
           W == Work(r)
           part == pc[r]
<1>1. /\ TypeOK /\ Placed(r) /\ part \in {"embed", "graph", "map"}
      /\ s \in Seq(Queries) /\ s # <<>> /\ todo' = [todo EXCEPT ![r] = t]
      /\ UNCHANGED <<disk, call, pc, read>>
  BY DEF CallInvariant, Send, TypeOK
<1>2. Happened(h)
  BY SendCalls
<1>3. RestOf(t, s, Queries)
  BY <1>1, Shortened
<1>4. \A d \in Requests : pc[d] # "delete"
  BY <1>1, NoDeletionRuns
<1>5. /\ read[r] = disk
      /\ part = "embed" => \A c \in W : c \in rows \/ Among(s, Row(c))
      /\ part # "embed" => W \subseteq rows
      /\ part = "map" => \A c \in W : c \in chunks \/ Among(s, Chunk(c))
      /\ \A i \in DOMAIN s : s[i].op \in {"row", "chunk"} => s[i].at \in W
  BY <1>1 DEF Agreeing, Searched, Writing
<1>6. h.op = "row" <=> part = "embed"
  BY <1>1, <1>3 DEF Placed, RestOf
<1>7. h.op \in {"row", "chunk"} => h.at \in W
  BY <1>3, <1>5 DEF RestOf
<1>8. pc'[r] = part /\ todo'[r] = t
  BY <1>1 DEF TypeOK
<1>9. Work(r)' = W
  BY <1>1, WorkStays
<1>10. \A q \in Requests \ {r} : /\ pc'[q] = pc[q] /\ call'[q] = call[q]
                                 /\ todo'[q] = todo[q] /\ read'[q] = read[q]
  BY <1>1 DEF TypeOK
<1>11. \A c \in rows : Owes(r, c) =>
           /\ part \in {"embed", "graph"} \/ (part = "map" /\ Among(s, Chunk(c)))
           /\ c \in W
  BY DEF Owes
<1> HIDE DEF t, W, part, h, s
<1>12. /\ rows \subseteq rows' /\ chunks \subseteq chunks'
       /\ \A c \in rows' : c \in rows \/ (c \in W /\ part = "embed")
       /\ \A c \in chunks' : c \in chunks \/ c \in rows
  BY <1>2, <1>5, <1>6, <1>7 DEF Happened
<1>13. /\ \A c : h = Row(c) => c \in rows'
       /\ \A c : h = Chunk(c) => c \in chunks'
  BY <1>2 DEF Happened, Row, Chunk
<1>14. Searched(r)'
  <2>1. read'[r] = disk'
    BY <1>1, <1>5
  <2>2. part = "embed" => \A c \in W : c \in rows' \/ Among(t, Row(c))
    BY <1>3, <1>5, <1>12, <1>13 DEF RestOf, h, s
  <2>3. part # "embed" => W \subseteq rows'
    BY <1>5, <1>12
  <2>4. part = "map" => \A c \in W : c \in chunks' \/ Among(t, Chunk(c))
    BY <1>3, <1>5, <1>12, <1>13 DEF RestOf, h, s
  <2>5. \A i \in DOMAIN t : t[i].op \in {"row", "chunk"} => t[i].at \in W
    BY <1>3, <1>5 DEF RestOf
  <2> QED  BY <1>8, <1>9, <2>1, <2>2, <2>3, <2>4, <2>5, SearchedNow
<1>15. \A c : Owes(r, c)' <=> /\ part \in {"embed", "graph"} \/ (part = "map" /\ Among(t, Chunk(c)))
                              /\ c \in W
  BY <1>8, <1>9, OwesNow
<1>16. \A c \in rows : Owes(r, c) => c \in chunks' \/ Owes(r, c)'
  BY <1>3, <1>11, <1>13, <1>15 DEF RestOf, h, s
<1>17. \A c \in rows' : c \in rows \/ Owes(r, c)'
  BY <1>12, <1>15
<1>18. chunks \subseteq rows => chunks' \subseteq rows'
  BY <1>12
<1>19. pc[r] # "delete" /\ pc'[r] # "delete" /\ disk' = disk
  BY <1>1, <1>4
<1> QED  BY <1>4, <1>10, <1>12, <1>14, <1>16, <1>17, <1>18, <1>19, StillAgreeing

LEMMA StartDeleteAgrees ==
    ASSUME CallInvariant, Agreeing, NEW r \in Requests, StartDelete(r), disturbed' = {}
    PROVE  Agreeing'
<1>1. /\ TypeOK /\ pc' = [pc EXCEPT ![r] = "delete"] /\ UNCHANGED <<disk, rows, chunks, call, read>>
      /\ \A q \in Requests \ {r} : pc'[q] = pc[q] /\ todo'[q] = todo[q]
  BY DEF CallInvariant, StartDelete, store, TypeOK
<1>2. todo'[r] = <<DeletingRows, DeletingGraph>> /\ pc'[r] = "delete"
  BY <1>1, StartDeleteCalls DEF TypeOK
<1>3. \A q \in Requests : Searched(q)'
  <2>1. Searched(r)'
    BY <1>2 DEF Searched, Writing
  <2>2. \A q \in Requests \ {r} : Searched(q)'
    BY <1>1, SearchedStays DEF Agreeing
  <2> QED  BY <2>1, <2>2
<1>4. ASSUME NEW d \in Requests, pc'[d] = "delete"
      PROVE  /\ rows' = {} \/ Among(todo'[d], DeletingRows)
             /\ chunks' = {} \/ Among(todo'[d], DeletingGraph)
  <2>1. CASE d = r
    <3>1. 1 \in DOMAIN todo'[d] /\ todo'[d][1] = DeletingRows
      BY <1>2, <2>1
    <3>2. 2 \in DOMAIN todo'[d] /\ todo'[d][2] = DeletingGraph
      BY <1>2, <2>1
    <3> QED  BY <3>1, <3>2 DEF Among
  <2>2. CASE d # r
    BY <1>1, <1>4, <2>2 DEF Agreeing, Deleted
  <2> QED  BY <2>1, <2>2
<1>5. \A d \in Requests : Deleted(d)'
  BY <1>4 DEF Deleted
<1> QED  BY <1>2, <1>3, <1>5 DEF Agreeing

\* One of the two queries of a deletion is answered: the store is empty, or the other
\* is to be sent.
LEMMA AnsweredAgrees ==
    ASSUME CallInvariant, Agreeing, disturbed = {}, NEW r \in Requests, NEW q, Answered(r, q),
           UNCHANGED <<disk, call, read, disturbed>>,
           rows' \in {rows, {}}, chunks' \in {chunks, {}},
           q = DeletingRows => rows' = {}, q = DeletingGraph => chunks' = {}
    PROVE  Agreeing'
<1>1. /\ pc[r] = "delete" /\ pc'[r] \in {"delete", "done"}
      /\ \A p \in Requests \ {r} : pc'[p] = pc[p] /\ todo'[p] = todo[p]
      /\ \A p : Among(todo[r], p) => p = q \/ Among(todo'[r], p)
      /\ pc'[r] = "done" => todo'[r] = <<>>
  BY AnsweredCalls DEF CallInvariant, TypeOK
<1>2. \A p \in Requests : pc'[p] \notin {"embed", "graph", "map"}
  BY <1>1 DEF CallInvariant, Peaceful
<1>3. \A p \in Requests : Searched(p)'
  BY <1>2 DEF Searched, Writing
<1>4. ASSUME NEW d \in Requests, pc[d] = "delete"
      PROVE  /\ rows' = {} \/ Among(todo'[d], DeletingRows)
             /\ chunks' = {} \/ Among(todo'[d], DeletingGraph)
  <2>1. /\ rows = {} \/ Among(todo[d], DeletingRows)
        /\ chunks = {} \/ Among(todo[d], DeletingGraph)
    BY <1>4 DEF Agreeing, Deleted
  <2>2. CASE d = r
    BY <1>1, <2>1, <2>2
  <2>3. CASE d # r
    BY <1>1, <2>1, <2>3
  <2> QED  BY <2>2, <2>3
<1>5. \A d \in Requests : Deleted(d)'
  BY <1>1, <1>4 DEF Deleted
<1>6. ASSUME \A d \in Requests : pc'[d] # "delete"
      PROVE  rows' = {} /\ chunks' = {}
  <2>1. todo'[r] = <<>>
    BY <1>1, <1>6
  <2> QED  BY <1>1, <1>4, <2>1, NothingAmong
<1>7. (\A d \in Requests : pc'[d] # "delete") =>
          /\ chunks' \subseteq rows'
          /\ \A c \in rows' : c \in chunks' \/ \E p \in Requests : Owes(p, c)'
  BY <1>6
<1> QED  BY <1>3, <1>5, <1>7 DEF Agreeing

LEMMA EditAgrees ==
    ASSUME CallInvariant, Agreeing, NEW f \in Files, NEW content \in Contents \cup {None},
           Edit(f, content), moved' = {}
    PROVE  Agreeing'
<1>1. UNCHANGED <<rows, chunks, pc, call, todo, read>>
  BY DEF Edit, store
<1>2. \A q \in Requests : pc[q] \in {"new", "done"}
  BY DEF Edit, InFlight
<1>3. \A q \in Requests : Searched(q)' /\ Deleted(q)'
  BY <1>1, <1>2 DEF Searched, Writing, Deleted
<1>4. \A c : ~ \E q \in Requests : Owes(q, c)
  BY <1>2 DEF Owes
<1>5. chunks \subseteq rows /\ \A c \in rows : c \in chunks
  BY <1>2, <1>4 DEF Agreeing
<1>6. /\ chunks' \subseteq rows'
      /\ \A c \in rows' : c \in chunks' \/ \E q \in Requests : Owes(q, c)'
  BY <1>1, <1>5
<1> QED  BY <1>3, <1>6 DEF Agreeing

LEMMA InitAgrees == Init => SearchInvariant
<1> SUFFICES ASSUME Init PROVE Agreeing
  BY DEF SearchInvariant
<1>1. \A q \in Requests : Searched(q) /\ Deleted(q)
  BY DEF Init, Searched, Writing, Deleted
<1>2. chunks = {} /\ rows = {}
  BY DEF Init
<1>3. chunks \subseteq rows /\ \A c \in rows : c \in chunks \/ \E r \in Requests : Owes(r, c)
  BY <1>2
<1> QED  BY <1>1, <1>3 DEF Agreeing

LEMMA NextAgrees == CallInvariant /\ SearchInvariant /\ [Next]_vars => SearchInvariant'
<1> SUFFICES ASSUME CallInvariant, SearchInvariant, [Next]_vars, disturbed' = {}, moved' = {}
             PROVE  Agreeing'
  BY DEF SearchInvariant
<1>1. disturbed \subseteq disturbed' /\ moved \subseteq moved'
  <2>1. ASSUME NEW r \in Requests,
               \/ StartIndex(r) \/ StartGraph(r) \/ StartMapping(r) \/ IndexReturns(r)
               \/ StartFile(r) \/ UpdateFile(r) \/ FileUpdated(r) \/ UpdateReturns(r)
        PROVE  disturbed \subseteq disturbed' /\ moved' = moved
    BY <2>1 DEF StartIndex, StartGraph, StartMapping, IndexReturns, StartFile, UpdateFile,
                FileUpdated, UpdateReturns, Begin
  <2>2. ASSUME NEW r \in Requests,
               \/ Send(r) \/ Refuse(r)
               \/ StartDelete(r) \/ DeleteRows(r) \/ DeleteGraph(r) \/ DeleteRefused(r)
        PROVE  disturbed \subseteq disturbed' /\ moved' = moved
    BY <2>2 DEF Send, Refuse, StartDelete, DeleteRows, DeleteGraph, DeleteRefused
  <2>3. ASSUME NEW f \in Files, NEW content \in Contents \cup {None}, Edit(f, content)
        PROVE  disturbed' = disturbed /\ moved \subseteq moved'
    BY <2>3 DEF Edit
  <2> QED  BY <2>1, <2>2, <2>3 DEF Next, vars
<1>2. disturbed = {} /\ moved = {} /\ Agreeing
  BY <1>1 DEF SearchInvariant
<1>3. CASE UNCHANGED vars
  <2>1. UNCHANGED <<disk, rows, chunks, pc, call, todo, read>>
    BY <1>3 DEF vars, store
  <2>2. \A q \in Requests : Searched(q)'
    BY <1>2, <2>1, SearchedStays DEF Agreeing
  <2>3. \A q \in Requests : Deleted(q)'
    BY <1>2, <2>1 DEF Agreeing, Deleted
  <2>4. \A q \in Requests : \A c : Owes(q, c) => Owes(q, c)'
    BY <2>1, OwesStays
  <2>5. (\A d \in Requests : pc'[d] # "delete") =>
            /\ chunks' \subseteq rows'
            /\ \A c \in rows' : c \in chunks' \/ \E q \in Requests : Owes(q, c)'
    BY <1>2, <2>1, <2>4 DEF Agreeing
  <2> QED  BY <2>2, <2>3, <2>5 DEF Agreeing
<1>4. ASSUME NEW r \in Requests,
             StartIndex(r) \/ StartGraph(r) \/ StartMapping(r) \/ StartFile(r)
             \/ UpdateFile(r) \/ Send(r) \/ StartDelete(r)
      PROVE  Agreeing'
  BY <1>2, <1>4, StartIndexAgrees, StartGraphAgrees, StartMappingAgrees, StartFileAgrees,
     UpdateFileAgrees, SendAgrees, StartDeleteAgrees
<1>5. ASSUME NEW r \in Requests, IndexReturns(r) \/ FileUpdated(r) \/ UpdateReturns(r)
      PROVE  Agreeing'
  <2>1. TypeOK
    BY DEF CallInvariant
  <2>2. /\ UNCHANGED <<disk, rows, chunks, todo, read>>
        /\ pc[r] \in {"new", "next"} \/ (pc[r] = "map" /\ todo[r] = <<>>)
        /\ pc' = [pc EXCEPT ![r] = "next"] \/ pc' = [pc EXCEPT ![r] = "done"]
    BY <1>5 DEF IndexReturns, FileUpdated, UpdateReturns, store
  <2>3. \A q \in Requests \ {r} : call'[q] = call[q]
    <3>1. CASE FileUpdated(r)
      <4>1. call' = NextFile(r) /\ call[r].files # <<>>
        BY <3>1 DEF FileUpdated, CallInvariant, Placed, Writing
      <4> QED  BY <2>1, <4>1, NextFileCalls
    <3>2. CASE IndexReturns(r) \/ UpdateReturns(r)
      BY <3>2 DEF IndexReturns, UpdateReturns
    <3> QED  BY <1>5, <3>1, <3>2
  <2>4. /\ pc'[r] \in {"next", "done"}
        /\ \A q \in Requests \ {r} : pc'[q] = pc[q] /\ todo'[q] = todo[q] /\ read'[q] = read[q]
    BY <2>1, <2>2 DEF TypeOK
  <2> QED  BY <1>2, <2>2, <2>3, <2>4, PauseAgrees
<1>6. ASSUME NEW r \in Requests, Refuse(r) \/ DeleteRefused(r) PROVE FALSE
  BY <1>6 DEF Refuse, DeleteRefused
<1>7. ASSUME NEW r \in Requests, DeleteRows(r) PROVE Agreeing'
  <2>1. /\ Answered(r, DeletingRows) /\ rows' = {}
        /\ UNCHANGED <<disk, call, read, disturbed, chunks>>
    BY <1>7 DEF DeleteRows, DeletingRows
  <2>2. DeletingRows # DeletingGraph
    BY DEF DeletingRows, DeletingGraph
  <2> QED  BY <1>2, <2>1, <2>2, AnsweredAgrees
<1>8. ASSUME NEW r \in Requests, DeleteGraph(r) PROVE Agreeing'
  <2>1. /\ Answered(r, DeletingGraph) /\ chunks' = {}
        /\ UNCHANGED <<disk, call, read, disturbed, rows>>
    BY <1>8 DEF DeleteGraph, DeletingGraph
  <2>2. DeletingRows # DeletingGraph
    BY DEF DeletingRows, DeletingGraph
  <2> QED  BY <1>2, <2>1, <2>2, AnsweredAgrees
<1>9. ASSUME NEW f \in Files, NEW content \in Contents \cup {None}, Edit(f, content)
      PROVE  Agreeing'
  BY <1>2, <1>9, EditAgrees
<1> QED  BY <1>3, <1>4, <1>5, <1>6, <1>7, <1>8, <1>9 DEF Next

-----------------------------------------------------------------------------

\* While no query fails and nothing comes across a call, a chunk is found by the search
\* before it is in the graph, and the call that made it found still has to bring it there.
THEOREM SearchInvariance == Spec => []SearchInvariant
BY CallsInvariance, InitAgrees, NextAgrees, PTL DEF Spec

\* The stores, the calls and their lists have their types in every state.
THEOREM IndexTypeCorrect == Spec => []TypeOK
<1>1. CallInvariant => TypeOK
  BY DEF CallInvariant
<1> QED  BY <1>1, CallsInvariance, PTL

\* What an index has read is in the graph when it has returned, and stays there until
\* a deletion, unless a query of its own failed or a deletion came across it
\* (index_project, map_project).
THEOREM IndexAlwaysCovers == Spec => []IndexCovers
<1>1. MapInvariant => IndexCovers
  BY DEF MapInvariant
<1> QED  BY <1>1, MapInvariance, PTL

\* A file is external only if it was imported when nothing was in it
\* (create_dependency_edge), while no call is disturbed.
THEOREM ExternalAlwaysBare == Spec => []ExternalWasBare
<1>1. MapInvariant => ExternalWasBare
  BY DEF MapInvariant
<1> QED  BY <1>1, MapInvariance, PTL

\* Search and graph hold the same chunks when every call has returned and none was
\* disturbed (index_project, update_index, delete_index).
THEOREM SearchAlwaysMatches == Spec => []SearchMatchesGraph
<1>1. CallInvariant /\ SearchInvariant => SearchMatchesGraph
  <2> SUFFICES ASSUME CallInvariant, SearchInvariant, InFlight \cup disturbed \cup moved = {}
               PROVE  rows = chunks
    BY DEF SearchMatchesGraph
  <2>1. Agreeing
    BY DEF SearchInvariant
  <2>2. \A q \in Requests : pc[q] \in {"new", "done"}
    BY DEF InFlight
  <2>3. \A c : ~ \E q \in Requests : Owes(q, c)
    BY <2>2 DEF Owes
  <2> QED  BY <2>1, <2>2, <2>3 DEF Agreeing
<1> QED  BY <1>1, CallsInvariance, SearchInvariance, PTL

-----------------------------------------------------------------------------
(* The build order.  The algorithm only counts, and stops when its queue is  *)
(* empty: the invariant Kahn says what the counts are, and that each round   *)
(* places one more file, so that there are never more rounds than files.     *)

\* No member of a sequence is in it twice, and one is in it.
Distinct(s) == \A i, j \in 1 .. Len(s) : i # j => s[i] # s[j]
Has(s, x) == \E i \in 1 .. Len(s) : s[i] = x

\* A non-empty set of naturals has a least element.
LEMMA LeastNatural ==
    ASSUME NEW T \in SUBSET Nat, T # {}
    PROVE  \E m \in T : \A k \in T : m <= k
<1> DEFINE R == OpToRel(<, Nat)
<1>1. \A a, b \in Nat : a < b => <<a, b>> \in R
  BY DEF OpToRel
<1>2. IsWellFoundedOn(R, Nat)
  BY NatLessThanWellFounded
<1> HIDE DEF R
<1>3. T \subseteq Nat
  OBVIOUS
<1>4. PICK m \in T : \A k \in T : ~(<<k, m>> \in R)
  BY ONLY <1>2, <1>3, T # {}, WFMin
<1>5. ASSUME NEW k \in T PROVE m <= k
  <2>1. ~(k < m)
    BY <1>1, <1>3, <1>4
  <2> QED  BY <2>1, <1>3
<1> QED  BY <1>5

LEMMA ToSetHas ==
    ASSUME NEW N, NEW s \in Seq(N), NEW x
    PROVE  x \in ToSet(s) <=> Has(s, x)
BY DEF ToSet, Has

\* A listing of a finite set has each of its members once.
LEMMA ListingFacts ==
    ASSUME NEW S, IsFiniteSet(S), NEW q \in SetToSeqs(S)
    PROVE  /\ q \in Seq(S) /\ Distinct(q)
           /\ \A x : Has(q, x) <=> x \in S
<1> DEFINE n == Cardinality(S)
<1>1. n \in Nat
  BY FS_CardinalityType
<1>2. q \in [1 .. n -> S] /\ \A i, j \in 1 .. n : i # j => q[i] # q[j]
  BY DEF SetToSeqs
<1>3. IsFiniteSet(1 .. n) /\ Cardinality(1 .. n) = n
  BY <1>1, FS_Interval
<1>4. q \in Injection(1 .. n, S)
  BY <1>2 DEF Injection, IsInjective
<1>5. q \in Surjection(1 .. n, S)
  BY <1>3, <1>4, FS_Injection
<1> HIDE DEF n
<1>6. q \in Seq(S) /\ Len(q) = n
  BY <1>1, <1>2
<1>7. \A x \in S : \E i \in 1 .. n : q[i] = x
  BY <1>5 DEF Surjection
<1> QED  BY <1>2, <1>6, <1>7 DEF Distinct, Has

LEMMA ListingIs ==
    ASSUME NEW S, NEW q \in Seq(S), Distinct(q), \A x \in S : Has(q, x)
    PROVE  /\ IsFiniteSet(S) /\ Cardinality(S) = Len(q)
           /\ q \in SetToSeqs(S)
<1> DEFINE n == Len(q)
<1>1. n \in Nat /\ q \in [1 .. n -> S]
  OBVIOUS
<1>2. IsFiniteSet(1 .. n) /\ Cardinality(1 .. n) = n
  BY <1>1, FS_Interval
<1>3. q \in Bijection(1 .. n, S)
  BY <1>1 DEF Bijection, Injection, IsInjective, Surjection, Distinct, Has
<1>4. IsFiniteSet(S) /\ Cardinality(S) = n
  BY <1>2, <1>3, FS_Bijection DEF ExistsBijection
<1>5. \A i, j \in 1 .. n : i # j => q[i] # q[j]
  BY DEF Distinct
<1> HIDE DEF n
<1>6. q \in SetToSeqs(S)
  BY <1>1, <1>4, <1>5 DEF SetToSeqs
<1> QED  BY <1>4, <1>6 DEF n

LEMMA ListingExists ==
    ASSUME NEW S, IsFiniteSet(S)
    PROVE  SetToSeqs(S) # {}
<1>1. PICK q : q \in Bijection(1 .. Cardinality(S), S)
  BY FS_CardinalityType DEF ExistsBijection
<1>2. q \in SetToSeqs(S)
  BY <1>1 DEF SetToSeqs, Bijection, Injection, IsInjective
<1> QED  BY <1>2

\* A state of the algorithm: a degree counts the imports that are not placed, the files
\* with none left are placed or queued, and what was placed came after its imports.
Kahn(edges, s) ==
    /\ s \in [queue : Seq(NodesOf(edges)), order : Seq(NodesOf(edges)),
              degree : [NodesOf(edges) -> Nat]]
    /\ Distinct(s.queue) /\ Distinct(s.order)
    /\ \A f : ~(Has(s.queue, f) /\ Has(s.order, f))
    /\ \A f \in NodesOf(edges) :
          /\ s.degree[f] = Cardinality({g \in Needs(edges, f) : ~Has(s.order, g)})
          /\ (\A g \in Needs(edges, f) : Has(s.order, g)) <=> Has(s.order, f) \/ Has(s.queue, f)
    /\ \A i \in 1 .. Len(s.order) : \A g \in Needs(edges, s.order[i]) :
          \E j \in 1 .. (i - 1) : s.order[j] = g

LEMMA NeedsFinite ==
    ASSUME NEW edges, IsFiniteSet(NodesOf(edges)), NEW f
    PROVE  /\ IsFiniteSet(Needs(edges, f)) /\ Cardinality(Needs(edges, f)) \in Nat
           /\ Cardinality(Needs(edges, f)) = 0 <=> Needs(edges, f) = {}
<1>1. Needs(edges, f) \in SUBSET NodesOf(edges)
  BY DEF Needs
<1> QED  BY <1>1, FS_Subset, FS_CardinalityType, FS_EmptySet

LEMMA ReadyKahn ==
    ASSUME NEW edges, IsFiniteSet(NodesOf(edges)), NEW s \in Ready(edges)
    PROVE  Kahn(edges, s) /\ Len(s.order) = 0
<1> DEFINE N == NodesOf(edges)
           leaves == {f \in N : Needs(edges, f) = {}}
<1>1. IsFiniteSet(leaves)
  <2>1. leaves \in SUBSET N
    OBVIOUS
  <2> QED  BY <2>1, FS_Subset
<1>2. PICK q \in SetToSeqs(leaves) :
          s = [queue |-> q, order |-> <<>>,
               degree |-> [f \in N |-> Cardinality(Needs(edges, f))]]
  BY DEF Ready
<1>3. q \in Seq(leaves) /\ Distinct(q) /\ \A x : Has(q, x) <=> x \in leaves
  <2> HIDE DEF leaves
  <2> QED  BY <1>1, <1>2, ListingFacts
<1>4. \A x : ~Has(<<>>, x)
  BY DEF Has
<1>5. /\ s.queue = q /\ s.order = <<>>
      /\ s.degree = [f \in N |-> Cardinality(Needs(edges, f))]
  BY <1>2
<1>6. \A f \in N : s.degree[f] = Cardinality(Needs(edges, f)) /\ Cardinality(Needs(edges, f)) \in Nat
  BY <1>5, NeedsFinite
<1>7. s \in [queue : Seq(N), order : Seq(N), degree : [N -> Nat]]
  <2>1. q \in Seq(N)
    BY <1>3
  <2>2. [f \in N |-> Cardinality(Needs(edges, f))] \in [N -> Nat]
    BY <1>6
  <2> QED  BY <1>2, <2>1, <2>2
<1>8. \A f : {g \in Needs(edges, f) : ~Has(<<>>, g)} = Needs(edges, f)
  BY <1>4
<1>9. \A f \in N : (\A g \in Needs(edges, f) : Has(<<>>, g)) <=> Has(<<>>, f) \/ Has(q, f)
  BY <1>3, <1>4
<1>10. Distinct(<<>>) /\ Len(<<>>) = 0
  BY DEF Distinct
<1>11. Distinct(s.queue) /\ Distinct(s.order) /\ \A f : ~(Has(s.queue, f) /\ Has(s.order, f))
  BY <1>3, <1>4, <1>5, <1>10
<1>12. \A f \in N :
          /\ s.degree[f] = Cardinality({g \in Needs(edges, f) : ~Has(s.order, g)})
          /\ (\A g \in Needs(edges, f) : Has(s.order, g)) <=> Has(s.order, f) \/ Has(s.queue, f)
  <2> HIDE DEF leaves
  <2>1. \A f : {g \in Needs(edges, f) : ~Has(s.order, g)} = Needs(edges, f)
    BY <1>4, <1>5
  <2>2. \A f : Has(s.queue, f) <=> Has(q, f)
    BY <1>5
  <2>3. \A f : ~Has(s.order, f)
    BY <1>4, <1>5
  <2>4. \A f \in N : (\A g \in Needs(edges, f) : Has(s.order, g)) <=> Has(s.queue, f)
    BY <1>4, <1>9, <2>2, <2>3
  <2> QED  BY <1>6, <2>1, <2>3, <2>4
<1>13. Len(s.order) = 0 /\ 1 .. Len(s.order) = {}
  BY <1>5, <1>10
<1> HIDE DEF leaves
<1> QED  BY <1>7, <1>11, <1>12, <1>13 DEF Kahn

\* Two sequences one after the other.
LEMMA Concatenated ==
    ASSUME NEW N, NEW t \in Seq(N), NEW q \in Seq(N), Distinct(t), Distinct(q),
           \A x : Has(q, x) => ~Has(t, x)
    PROVE  /\ t \o q \in Seq(N) /\ Len(t \o q) = Len(t) + Len(q) /\ Distinct(t \o q)
           /\ \A i \in 1 .. Len(t) : (t \o q)[i] = t[i]
           /\ \A x : Has(t \o q, x) <=> Has(t, x) \/ Has(q, x)
<1>1. /\ t \o q \in Seq(N) /\ Len(t \o q) = Len(t) + Len(q)
      /\ \A i \in 1 .. Len(t) : (t \o q)[i] = t[i]
      /\ \A i \in 1 .. Len(q) : (t \o q)[Len(t) + i] = q[i]
      /\ Len(t) \in Nat /\ Len(q) \in Nat
  OBVIOUS
<1>2. \A i \in 1 .. Len(t \o q) : \/ i \in 1 .. Len(t)
                                  \/ \E k \in 1 .. Len(q) : i = Len(t) + k
  <2>1. ASSUME NEW i \in 1 .. Len(t \o q), i \notin 1 .. Len(t)
        PROVE  i - Len(t) \in 1 .. Len(q) /\ i = Len(t) + (i - Len(t))
    BY <1>1, <2>1
  <2> QED  BY <2>1
<1>3. \A x : Has(t \o q, x) <=> Has(t, x) \/ Has(q, x)
  <2>1. ASSUME NEW x, Has(t, x) PROVE Has(t \o q, x)
    BY <1>1, <2>1 DEF Has
  <2>2. ASSUME NEW x, Has(q, x) PROVE Has(t \o q, x)
    <3>1. PICK i \in 1 .. Len(q) : q[i] = x
      BY <2>2 DEF Has
    <3>2. Len(t) + i \in 1 .. Len(t \o q) /\ (t \o q)[Len(t) + i] = x
      BY <1>1, <3>1
    <3> QED  BY <3>2 DEF Has
  <2>3. ASSUME NEW x, Has(t \o q, x) PROVE Has(t, x) \/ Has(q, x)
    <3>1. PICK i \in 1 .. Len(t \o q) : (t \o q)[i] = x
      BY <2>3 DEF Has
    <3> QED  BY <1>1, <1>2, <3>1 DEF Has
  <2> QED  BY <2>1, <2>2, <2>3
<1>4. Distinct(t \o q)
  <2> SUFFICES ASSUME NEW i \in 1 .. Len(t \o q), NEW j \in 1 .. Len(t \o q), i # j,
                      (t \o q)[i] = (t \o q)[j]
               PROVE  FALSE
    BY DEF Distinct
  <2>0. Len(t) \in Nat /\ Len(q) \in Nat
    BY <1>1
  <2>1. CASE i \in 1 .. Len(t) /\ j \in 1 .. Len(t)
    BY <1>1, <2>1 DEF Distinct
  <2>2. CASE i \in 1 .. Len(t) /\ \E k \in 1 .. Len(q) : j = Len(t) + k
    <3>1. PICK k \in 1 .. Len(q) : j = Len(t) + k
      BY <2>2
    <3>2. t[i] = q[k]
      BY <1>1, <2>2, <3>1
    <3> QED  BY <1>1, <2>2, <3>2 DEF Has
  <2>3. CASE j \in 1 .. Len(t) /\ \E k \in 1 .. Len(q) : i = Len(t) + k
    <3>1. PICK k \in 1 .. Len(q) : i = Len(t) + k
      BY <2>3
    <3>2. t[j] = q[k]
      BY <1>1, <2>3, <3>1
    <3> QED  BY <1>1, <2>3, <3>2 DEF Has
  <2>4. CASE (\E k \in 1 .. Len(q) : i = Len(t) + k) /\ \E k \in 1 .. Len(q) : j = Len(t) + k
    <3>1. PICK k \in 1 .. Len(q) : i = Len(t) + k
      BY <2>4
    <3>2. PICK m \in 1 .. Len(q) : j = Len(t) + m
      BY <2>4
    <3>3. q[k] = q[m] /\ k # m
      BY <1>1, <2>0, <3>1, <3>2
    <3> QED  BY <3>3 DEF Distinct
  <2> QED  BY <1>2, <2>1, <2>2, <2>3, <2>4
<1> QED  BY <1>1, <1>3, <1>4

\* A sequence with its head moved to the end of another, and more put behind.
LEMMA Moved ==
    ASSUME NEW N, NEW a \in Seq(N), a # <<>>, NEW b \in Seq(N), NEW q \in Seq(N),
           Distinct(a), Distinct(b), Distinct(q),
           \A x : ~(Has(a, x) /\ Has(b, x)),
           \A x : Has(q, x) => ~Has(a, x) /\ ~Has(b, x)
    PROVE  /\ Tail(a) \o q \in Seq(N) /\ Append(b, Head(a)) \in Seq(N)
           /\ Len(Append(b, Head(a))) = Len(b) + 1
           /\ Distinct(Tail(a) \o q) /\ Distinct(Append(b, Head(a)))
           /\ \A x : Has(Append(b, Head(a)), x) <=> Has(b, x) \/ x = Head(a)
           /\ \A x : Has(Tail(a) \o q, x) <=> (Has(a, x) /\ x # Head(a)) \/ Has(q, x)
           /\ Has(a, Head(a))
<1>1. /\ Len(a) \in Nat \ {0} /\ Head(a) = a[1] /\ Head(a) \in N
      /\ Tail(a) \in Seq(N) /\ Len(Tail(a)) = Len(a) - 1
      /\ \A i \in 1 .. Len(Tail(a)) : Tail(a)[i] = a[i + 1]
  OBVIOUS
<1>2. Has(a, Head(a))
  BY <1>1 DEF Has
<1>3. /\ Append(b, Head(a)) \in Seq(N) /\ Len(Append(b, Head(a))) = Len(b) + 1
      /\ \A i \in 1 .. Len(b) : Append(b, Head(a))[i] = b[i]
      /\ Append(b, Head(a))[Len(b) + 1] = Head(a)
  BY <1>1
<1>4. \A x : Has(Append(b, Head(a)), x) <=> Has(b, x) \/ x = Head(a)
  BY <1>3 DEF Has
<1>5. Distinct(Append(b, Head(a)))
  <2> DEFINE c == Append(b, Head(a))
             n == Len(b)
  <2>1. n \in Nat /\ \A i \in 1 .. n : b[i] # Head(a)
    <3>1. ~Has(b, Head(a))
      BY <1>2
    <3> QED  BY <3>1 DEF Has
  <2>2. \A i, j \in 1 .. n : i # j => b[i] # b[j]
    BY DEF Distinct
  <2>3. Len(c) = n + 1 /\ (\A i \in 1 .. n : c[i] = b[i]) /\ c[n + 1] = Head(a)
    BY <1>3
  <2> HIDE DEF c, n
  <2>4. \A i, j \in 1 .. Len(c) : i # j => c[i] # c[j]
    BY <2>1, <2>2, <2>3
  <2> QED  BY <2>4 DEF Distinct, c
<1>6. \A x : Has(Tail(a), x) <=> Has(a, x) /\ x # Head(a)
  <2>1. ASSUME NEW x, Has(Tail(a), x) PROVE Has(a, x) /\ x # Head(a)
    BY <1>1, <2>1 DEF Has, Distinct
  <2>2. ASSUME NEW x, Has(a, x), x # Head(a) PROVE Has(Tail(a), x)
    <3>1. PICK i \in 1 .. Len(a) : a[i] = x
      BY <2>2 DEF Has
    <3>2. i - 1 \in 1 .. Len(Tail(a)) /\ Tail(a)[i - 1] = x
      BY <1>1, <2>2, <3>1
    <3> QED  BY <3>2 DEF Has
  <2> QED  BY <2>1, <2>2
<1>7. Distinct(Tail(a))
  BY <1>1 DEF Distinct
<1>8. \A x : Has(q, x) => ~Has(Tail(a), x)
  BY <1>6
<1>9. /\ Tail(a) \o q \in Seq(N) /\ Distinct(Tail(a) \o q)
      /\ \A x : Has(Tail(a) \o q, x) <=> Has(Tail(a), x) \/ Has(q, x)
  BY <1>1, <1>7, <1>8, Concatenated
<1> QED  BY <1>2, <1>3, <1>4, <1>5, <1>6, <1>9

\* A round keeps the invariant and places a file.
LEMMA TakeKahn ==
    ASSUME NEW edges, IsFiniteSet(NodesOf(edges)), NEW s, Kahn(edges, s), s.queue # <<>>,
           NEW u \in Take(edges, s)
    PROVE  Kahn(edges, u) /\ Len(u.order) = Len(s.order) + 1
<1> DEFINE N == NodesOf(edges)
           f == Head(s.queue)
           degree == [g \in DOMAIN s.degree |->
                         IF <<g, f>> \in edges THEN s.degree[g] - 1 ELSE s.degree[g]]
           freed == {g \in N : <<g, f>> \in edges /\ degree[g] = 0}
           Open(g) == {d \in Needs(edges, g) : ~Has(s.order, d)}
           Open2(g) == {d \in Needs(edges, g) : ~Has(s.order, d) /\ d # f}
<1>1. /\ s.queue \in Seq(N) /\ s.order \in Seq(N) /\ s.degree \in [N -> Nat]
      /\ Distinct(s.queue) /\ Distinct(s.order)
      /\ \A x : ~(Has(s.queue, x) /\ Has(s.order, x))
      /\ \A g \in N : /\ s.degree[g] = Cardinality(Open(g))
                      /\ (\A d \in Needs(edges, g) : Has(s.order, d))
                            <=> Has(s.order, g) \/ Has(s.queue, g)
      /\ \A i \in 1 .. Len(s.order) : \A g \in Needs(edges, s.order[i]) :
            \E j \in 1 .. (i - 1) : s.order[j] = g
  BY DEF Kahn
<1>2. f \in N /\ Has(s.queue, f) /\ ~Has(s.order, f)
  <2>1. f = s.queue[1] /\ 1 \in 1 .. Len(s.queue) /\ f \in N
    BY <1>1
  <2> QED  BY <1>1, <2>1 DEF Has
<1>3. f \notin ToSet(s.order)
  BY <1>1, <1>2, ToSetHas
<1>4. PICK q \in SetToSeqs(freed) :
         u = [queue |-> Tail(s.queue) \o q, order |-> Append(s.order, f), degree |-> degree]
  BY <1>3 DEF Take
<1>5. \A g \in N : /\ IsFiniteSet(Open(g)) /\ Cardinality(Open(g)) \in Nat
                   /\ f \in Open(g) <=> <<g, f>> \in edges
                   /\ Open2(g) = Open(g) \ {f}
  <2> TAKE g \in N
  <2>1. Open(g) \in SUBSET Needs(edges, g)
    OBVIOUS
  <2>2. IsFiniteSet(Open(g)) /\ Cardinality(Open(g)) \in Nat
    <3> HIDE DEF Open
    <3> QED  BY <2>1, NeedsFinite, FS_Subset, FS_CardinalityType
  <2> QED  BY <1>2, <2>2 DEF Needs
<1>6. \A g \in N : /\ IsFiniteSet(Open2(g)) /\ Cardinality(Open2(g)) \in Nat
                   /\ degree[g] = Cardinality(Open2(g))
                   /\ degree[g] = 0 <=> Open2(g) = {}
  <2> TAKE g \in N
  <2>1. /\ IsFiniteSet(Open2(g))
        /\ Cardinality(Open2(g)) = IF f \in Open(g) THEN Cardinality(Open(g)) - 1
                                   ELSE Cardinality(Open(g))
    <3>1. IsFiniteSet(Open(g)) /\ Open2(g) = Open(g) \ {f}
      BY <1>5
    <3> HIDE DEF Open, Open2, f
    <3> QED  BY <3>1, FS_RemoveElement
  <2>2. degree[g] = IF <<g, f>> \in edges THEN s.degree[g] - 1 ELSE s.degree[g]
    BY <1>1
  <2>3. Cardinality(Open2(g)) \in Nat /\ (Cardinality(Open2(g)) = 0 <=> Open2(g) = {})
    <3> HIDE DEF Open, Open2
    <3> QED  BY <2>1, FS_CardinalityType, FS_EmptySet
  <2>4. s.degree[g] = Cardinality(Open(g)) /\ (f \in Open(g) <=> <<g, f>> \in edges)
    BY <1>1, <1>5
  <2>5. degree[g] = Cardinality(Open2(g))
    <3> HIDE DEF Open, Open2, degree, f
    <3> QED  BY <2>1, <2>2, <2>4
  <2> HIDE DEF Open2, degree
  <2> QED  BY <2>1, <2>3, <2>5
<1>7. freed \in SUBSET N /\ IsFiniteSet(freed)
  <2>1. freed \in SUBSET N
    OBVIOUS
  <2> HIDE DEF freed
  <2> QED  BY <2>1, FS_Subset
<1>8. q \in Seq(freed) /\ Distinct(q) /\ \A x : Has(q, x) <=> x \in freed
  <2> HIDE DEF freed
  <2> QED  BY <1>4, <1>7, ListingFacts
<1>9. \A g \in freed : ~Has(s.queue, g) /\ ~Has(s.order, g)
  BY <1>1, <1>2 DEF Needs
<1>10. q \in Seq(N)
  <2> HIDE DEF freed
  <2> QED  BY <1>7, <1>8
<1> DEFINE queue2 == Tail(s.queue) \o q
           order2 == Append(s.order, f)
<1>11. /\ queue2 \in Seq(N) /\ order2 \in Seq(N) /\ Len(order2) = Len(s.order) + 1
       /\ Distinct(queue2) /\ Distinct(order2)
       /\ \A x : Has(order2, x) <=> Has(s.order, x) \/ x = f
       /\ \A x : Has(queue2, x) <=> (Has(s.queue, x) /\ x # f) \/ Has(q, x)
  <2>1. \A x : Has(q, x) => ~Has(s.queue, x) /\ ~Has(s.order, x)
    <3> HIDE DEF freed
    <3> QED  BY <1>8, <1>9
  <2>2. /\ s.queue \in Seq(N) /\ s.order \in Seq(N) /\ Distinct(s.queue) /\ Distinct(s.order)
        /\ Distinct(q) /\ \A x : ~(Has(s.queue, x) /\ Has(s.order, x))
    <3> HIDE DEF freed
    <3> QED  BY <1>1, <1>8
  <2> HIDE DEF freed, N
  <2> QED  BY <1>10, <2>1, <2>2, Moved
<1>12. \A i \in 1 .. Len(s.order) : order2[i] = s.order[i]
  BY <1>1
<1>13. order2[Len(s.order) + 1] = f
  BY <1>1
<1>14. degree \in [N -> Nat]
  <2>1. DOMAIN s.degree = N
    BY <1>1
  <2>2. \A g \in N : degree[g] \in Nat
    <3> HIDE DEF degree
    <3> QED  BY <1>6
  <2> QED  BY <2>1, <2>2
<1>15. \A g \in N : \A d \in Needs(edges, g) : ~Has(order2, d) <=> d \in Open2(g)
  <2> HIDE DEF order2
  <2> QED  BY <1>11
<1>16. ASSUME NEW g \in N
       PROVE  /\ degree[g] = Cardinality({d \in Needs(edges, g) : ~Has(order2, d)})
              /\ (\A d \in Needs(edges, g) : Has(order2, d)) <=> Has(order2, g) \/ Has(queue2, g)
  <2>1. {d \in Needs(edges, g) : ~Has(order2, d)} = Open2(g)
    BY <1>15
  <2>2. (\A d \in Needs(edges, g) : Has(order2, d)) <=> degree[g] = 0
    <3> HIDE DEF degree, Open2, order2
    <3>1. (\A d \in Needs(edges, g) : Has(order2, d)) <=> Open2(g) = {}
      BY <2>1
    <3> QED  BY <3>1, <1>6
  <2>3. ASSUME <<g, f>> \in edges PROVE degree[g] = 0 <=> Has(order2, g) \/ Has(queue2, g)
    <3>1. ~(\A d \in Needs(edges, g) : Has(s.order, d))
      BY <2>3, <1>2 DEF Needs
    <3>2. ~Has(s.order, g) /\ ~Has(s.queue, g) /\ g # f
      BY <3>1, <1>1, <1>2
    <3>3. degree[g] = 0 <=> g \in freed
      BY <2>3
    <3> HIDE DEF freed, degree, order2, queue2, f
    <3> QED  BY <3>2, <3>3, <1>8, <1>11
  <2>4. ASSUME <<g, f>> \notin edges PROVE degree[g] = 0 <=> Has(order2, g) \/ Has(queue2, g)
    <3>1. g \notin freed
      BY <2>4
    <3>2. Open2(g) = Open(g)
      BY <2>4, <1>5
    <3>3. Open(g) = {} <=> Has(s.order, g) \/ Has(s.queue, g)
      BY <1>1
    <3>4. degree[g] = 0 <=> Has(s.order, g) \/ Has(s.queue, g)
      <4> HIDE DEF Open, Open2, degree
      <4> QED  BY <3>2, <3>3, <1>6
    <3> HIDE DEF freed, degree, order2, queue2, f
    <3> QED  BY <3>1, <3>4, <1>2, <1>8, <1>11
  <2> HIDE DEF degree, order2, queue2
  <2> QED  BY <2>1, <2>2, <2>3, <2>4, <1>6
<1>17. \A i \in 1 .. Len(order2) : \A g \in Needs(edges, order2[i]) :
          \E j \in 1 .. (i - 1) : order2[j] = g
  <2> TAKE i \in 1 .. Len(order2)
  <2> TAKE g \in Needs(edges, order2[i])
  <2>1. CASE i \in 1 .. Len(s.order)
    <3>1. PICK j \in 1 .. (i - 1) : s.order[j] = g
      BY <1>1, <1>12, <2>1
    <3>2. j \in 1 .. Len(s.order)
      BY <1>1, <2>1, <3>1
    <3> QED  BY <1>12, <3>1, <3>2
  <2>2. CASE i = Len(s.order) + 1
    <3>1. Has(s.order, g)
      BY <1>1, <1>2, <1>13, <2>2
    <3>2. PICK j \in 1 .. Len(s.order) : s.order[j] = g
      BY <3>1 DEF Has
    <3>3. Len(s.order) \in Nat /\ order2[j] = g
      BY <1>1, <1>12, <3>2
    <3> HIDE DEF order2
    <3> QED  BY <2>2, <3>2, <3>3
  <2>3. i \in 1 .. Len(s.order) \/ i = Len(s.order) + 1
    <3>1. Len(s.order) \in Nat
      BY <1>1
    <3> HIDE DEF order2
    <3> QED  BY <1>11, <3>1
  <2> QED  BY <2>1, <2>2, <2>3
<1>18. /\ u.queue = queue2 /\ u.order = order2 /\ u.degree = degree
       /\ u \in [queue : Seq(N), order : Seq(N), degree : [N -> Nat]]
  <2>1. u = [queue |-> queue2, order |-> order2, degree |-> degree]
    BY <1>4
  <2> HIDE DEF queue2, order2, degree
  <2> QED  BY <2>1, <1>11, <1>14
<1>19. \A x : ~(Has(queue2, x) /\ Has(order2, x))
  <2> HIDE DEF queue2, order2, freed
  <2> QED  BY <1>1, <1>2, <1>8, <1>9, <1>11
<1> HIDE DEF queue2, order2, degree, freed, Open, Open2
<1>20. /\ Distinct(u.queue) /\ Distinct(u.order)
       /\ \A x : ~(Has(u.queue, x) /\ Has(u.order, x))
  BY <1>11, <1>18, <1>19
<1>21. \A g \in N :
          /\ u.degree[g] = Cardinality({d \in Needs(edges, g) : ~Has(u.order, d)})
          /\ (\A d \in Needs(edges, g) : Has(u.order, d)) <=> Has(u.order, g) \/ Has(u.queue, g)
  BY <1>16, <1>18
<1>22. Len(u.order) = Len(s.order) + 1
  BY <1>11, <1>18
<1>23. \A i \in 1 .. Len(u.order) : \A g \in Needs(edges, u.order[i]) :
          \E j \in 1 .. (i - 1) : u.order[j] = g
  BY <1>17, <1>18
<1> QED  BY <1>18, <1>20, <1>21, <1>22, <1>23 DEF Kahn

\* The states of the first n rounds.  That there are such functions for every n, and
\* that they agree, gives the equations of States.
Iterates(edges, n, g) ==
    g = [k \in 0 .. n |-> IF k = 0 THEN Ready(edges)
                          ELSE UNION {Take(edges, s) : s \in g[k - 1]}]

LEMMA IteratesAgree ==
    ASSUME NEW edges, NEW n \in Nat, NEW m \in Nat, NEW g, NEW h,
           Iterates(edges, n, g), Iterates(edges, m, h),
           NEW i \in Nat, i <= n, i <= m
    PROVE  g[i] = h[i]
<1> DEFINE Bad == {k \in Nat : k <= n /\ k <= m /\ g[k] # h[k]}
<1> SUFFICES ASSUME Bad # {} PROVE FALSE
  OBVIOUS
<1>1. PICK k \in Bad : \A l \in Bad : k <= l
  <2>1. Bad \in SUBSET Nat
    OBVIOUS
  <2> HIDE DEF Bad
  <2> QED  BY <2>1, LeastNatural
<1>2. k \in 0 .. n /\ k \in 0 .. m
  BY <1>1
<1>3. /\ g[k] = IF k = 0 THEN Ready(edges) ELSE UNION {Take(edges, s) : s \in g[k - 1]}
      /\ h[k] = IF k = 0 THEN Ready(edges) ELSE UNION {Take(edges, s) : s \in h[k - 1]}
  BY <1>2 DEF Iterates
<1>4. k # 0
  BY <1>1, <1>3
<1>5. k - 1 \notin Bad
  <2>1. ~(k <= k - 1)
    BY <1>1
  <2> HIDE DEF Bad
  <2> QED  BY <1>1, <2>1
<1>6. g[k - 1] = h[k - 1]
  BY <1>1, <1>4, <1>5
<1> QED  BY <1>1, <1>3, <1>6

LEMMA IteratesExist ==
    ASSUME NEW edges
    PROVE  \A n \in Nat : \E g : Iterates(edges, n, g)
<1> DEFINE Bad == {n \in Nat : ~ \E g : Iterates(edges, n, g)}
<1> SUFFICES ASSUME Bad # {} PROVE FALSE
  OBVIOUS
<1>1. PICK n \in Bad : \A l \in Bad : n <= l
  <2>1. Bad \in SUBSET Nat
    OBVIOUS
  <2> HIDE DEF Bad
  <2> QED  BY <2>1, LeastNatural
<1>2. CASE n = 0
  <2>1. Iterates(edges, 0, [k \in 0 .. 0 |-> Ready(edges)])
    BY DEF Iterates
  <2> QED  BY <1>1, <1>2, <2>1
<1>3. CASE n # 0
  <2>1. n \in Nat /\ n - 1 \in Nat /\ ~(n <= n - 1)
    BY <1>1, <1>3
  <2>2. PICK g : Iterates(edges, n - 1, g)
    <3>1. n - 1 \notin Bad
      <4> HIDE DEF Bad
      <4> QED  BY <1>1, <2>1
    <3> QED  BY <2>1, <3>1
  <2> DEFINE h == [k \in 0 .. n |-> IF k = 0 THEN Ready(edges)
                                    ELSE UNION {Take(edges, s) : s \in g[k - 1]}]
  <2>3. \A k \in 0 .. (n - 1) : /\ k \in 0 .. n
                                /\ g[k] = IF k = 0 THEN Ready(edges)
                                          ELSE UNION {Take(edges, s) : s \in g[k - 1]}
    <3>1. \A k \in 0 .. (n - 1) : k \in 0 .. n
      BY <2>1
    <3>2. g = [k \in 0 .. (n - 1) |-> IF k = 0 THEN Ready(edges)
                                      ELSE UNION {Take(edges, s) : s \in g[k - 1]}]
      BY <2>2 DEF Iterates
    <3>3. \A k \in 0 .. (n - 1) : g[k] = IF k = 0 THEN Ready(edges)
                                          ELSE UNION {Take(edges, s) : s \in g[k - 1]}
      BY <3>2
    <3> QED  BY <3>1, <3>3
  <2>4. \A k \in 0 .. (n - 1) : h[k] = g[k]
    BY <2>3
  <2>5. \A k \in 0 .. n : k # 0 => h[k - 1] = g[k - 1]
    <3> HIDE DEF h
    <3> QED  BY <2>1, <2>4
  <2>6. \A k \in 0 .. n : h[k] = IF k = 0 THEN Ready(edges)
                                 ELSE UNION {Take(edges, s) : s \in h[k - 1]}
    <3> TAKE k \in 0 .. n
    <3>1. CASE k = 0
      BY <3>1
    <3>2. CASE k # 0
      <4>1. h[k] = UNION {Take(edges, s) : s \in g[k - 1]}
        BY <3>2
      <4>2. h[k - 1] = g[k - 1]
        <5> HIDE DEF h
        <5> QED  BY <2>5, <3>2
      <4> HIDE DEF h
      <4> QED  BY <3>2, <4>1, <4>2
    <3> QED  BY <3>1, <3>2
  <2>7. h = [k \in 0 .. n |-> h[k]]
    OBVIOUS
  <2>8. Iterates(edges, n, h)
    <3> HIDE DEF h
    <3> QED  BY <2>6, <2>7 DEF Iterates
  <2> QED  BY <1>1, <2>8
<1> QED  BY <1>2, <1>3

LEMMA StatesAre ==
    ASSUME NEW edges
    PROVE  /\ States(edges)[0] = Ready(edges)
           /\ \A n \in Nat : States(edges)[n + 1]
                                = UNION {Take(edges, s) : s \in States(edges)[n]}
<1> DEFINE Step(f) == [n \in Nat |-> IF n = 0 THEN Ready(edges)
                                     ELSE UNION {Take(edges, s) : s \in f[n - 1]}]
           it(n) == CHOOSE g : Iterates(edges, n, g)
           after == [n \in Nat |-> it(n)[n]]
<1>1. \A n \in Nat : Iterates(edges, n, it(n))
  BY IteratesExist
<1>2. ASSUME NEW n \in Nat
      PROVE  after[n] = IF n = 0 THEN Ready(edges)
                        ELSE UNION {Take(edges, s) : s \in after[n - 1]}
  <2>1. n \in 0 .. n /\ Iterates(edges, n, it(n))
    BY <1>1
  <2>2. it(n)[n] = IF n = 0 THEN Ready(edges)
                   ELSE UNION {Take(edges, s) : s \in it(n)[n - 1]}
    <3> HIDE DEF it
    <3> QED  BY <2>1 DEF Iterates
  <2>3. n # 0 => n - 1 \in Nat /\ n - 1 <= n
    OBVIOUS
  <2>4. n # 0 => it(n)[n - 1] = it(n - 1)[n - 1]
    <3> HIDE DEF it
    <3>1. n # 0 => Iterates(edges, n - 1, it(n - 1))
      BY <1>1, <2>3
    <3> QED  BY <2>1, <2>3, <3>1, IteratesAgree
  <2>5. after[n] = it(n)[n] /\ (n # 0 => after[n - 1] = it(n - 1)[n - 1])
    <3> HIDE DEF it
    <3> QED  BY <2>3
  <2> HIDE DEF after, it
  <2> QED  BY <2>2, <2>4, <2>5
<1>3. after = Step(after)
  <2>1. after = [n \in Nat |-> after[n]]
    OBVIOUS
  <2> HIDE DEF after
  <2> QED  BY <1>2, <2>1
<1>4. States(edges) = CHOOSE f : f = Step(f)
  BY DEF States
<1>5. States(edges) = Step(States(edges))
  <2> HIDE DEF Step, after
  <2> QED  BY <1>3, <1>4
<1>6. \A n \in Nat : States(edges)[n] = IF n = 0 THEN Ready(edges)
                            ELSE UNION {Take(edges, s) : s \in States(edges)[n - 1]}
  BY <1>5
<1>7. ASSUME NEW n \in Nat
      PROVE  States(edges)[n + 1] = UNION {Take(edges, s) : s \in States(edges)[n]}
  <2>1. n + 1 \in Nat /\ n + 1 # 0 /\ (n + 1) - 1 = n
    OBVIOUS
  <2>2. States(edges)[n + 1] = UNION {Take(edges, s) : s \in States(edges)[(n + 1) - 1]}
    BY <1>6, <2>1
  <2> QED  BY <2>1, <2>2
<1>8. States(edges)[0] = Ready(edges)
  BY <1>6
<1> QED  BY <1>7, <1>8

\* The algorithm has a state after every round, its orders are right, and while the
\* queue lasts each round places a file.
LEMMA RoundsKahn ==
    ASSUME NEW edges, IsFiniteSet(NodesOf(edges)), NEW n \in Nat
    PROVE  /\ States(edges)[n] # {}
           /\ \A s \in States(edges)[n] : /\ Kahn(edges, s)
                                          /\ s.queue = <<>> \/ Len(s.order) = n
<1> DEFINE Right(k) == /\ States(edges)[k] # {}
                       /\ \A s \in States(edges)[k] : /\ Kahn(edges, s)
                                                      /\ s.queue = <<>> \/ Len(s.order) = k
           Bad == {k \in Nat : ~Right(k)}
<1>1. Right(0)
  <2>1. IsFiniteSet({f \in NodesOf(edges) : Needs(edges, f) = {}})
    <3> DEFINE leaves == {f \in NodesOf(edges) : Needs(edges, f) = {}}
    <3>1. leaves \in SUBSET NodesOf(edges)
      OBVIOUS
    <3> HIDE DEF leaves
    <3>2. IsFiniteSet(leaves)
      BY <3>1, FS_Subset
    <3> QED  BY <3>2 DEF leaves
  <2>2. Ready(edges) # {}
    BY <2>1, ListingExists DEF Ready
  <2> QED  BY <2>2, StatesAre, ReadyKahn
<1>2. ASSUME NEW k \in Nat, Right(k) PROVE Right(k + 1)
  <2>1. ASSUME NEW s \in States(edges)[k], NEW u \in Take(edges, s)
        PROVE  Kahn(edges, u) /\ (u.queue = <<>> \/ Len(u.order) = k + 1)
    <3>1. CASE s.queue = <<>>
      BY <1>2, <2>1, <3>1 DEF Take
    <3>2. CASE s.queue # <<>>
      BY <1>2, <2>1, <3>2, TakeKahn
    <3> QED  BY <3>1, <3>2
  <2>2. ASSUME NEW s \in States(edges)[k] PROVE Take(edges, s) # {}
    <3> DEFINE degree == [g \in DOMAIN s.degree |->
                             IF <<g, Head(s.queue)>> \in edges THEN s.degree[g] - 1 ELSE s.degree[g]]
               freed == {g \in NodesOf(edges) : <<g, Head(s.queue)>> \in edges /\ degree[g] = 0}
    <3>1. freed \in SUBSET NodesOf(edges)
      OBVIOUS
    <3>2. PICK q : q \in SetToSeqs(freed)
      <4> HIDE DEF freed
      <4> QED  BY <3>1, FS_Subset, ListingExists
    <3>3. s.queue = <<>> => s \in Take(edges, s)
      BY DEF Take
    <3>4. Head(s.queue) \in ToSet(s.order) /\ s.queue # <<>> => Take(edges, s) # {}
      BY DEF Take
    <3>5. Head(s.queue) \notin ToSet(s.order) /\ s.queue # <<>> => Take(edges, s) # {}
      BY <3>2 DEF Take
    <3> QED  BY <3>3, <3>4, <3>5
  <2>3. States(edges)[k + 1] = UNION {Take(edges, s) : s \in States(edges)[k]}
    BY StatesAre
  <2> QED  BY <1>2, <2>1, <2>2, <2>3
<1> HIDE DEF Right
<1>3. Bad = {}
  <2> SUFFICES ASSUME Bad # {} PROVE FALSE
    OBVIOUS
  <2>1. PICK k \in Bad : \A l \in Bad : k <= l
    <3>1. Bad \in SUBSET Nat
      OBVIOUS
    <3> HIDE DEF Bad
    <3> QED  BY <3>1, LeastNatural
  <2>2. k # 0
    BY <1>1, <2>1
  <2>3. k - 1 \in Nat /\ (k - 1) + 1 = k /\ ~(k <= k - 1)
    BY <2>1, <2>2
  <2>4. Right(k - 1)
    <3>1. k - 1 \notin Bad
      <4> HIDE DEF Bad
      <4> QED  BY <2>1, <2>3
    <3> QED  BY <2>3, <3>1
  <2>5. Right((k - 1) + 1)
    BY <1>2, <2>3, <2>4
  <2> QED  BY <2>1, <2>3, <2>5
<1> QED  BY <1>3 DEF Right

\* There are rounds enough to empty the queue.
LEMMA RoundsSuffice ==
    ASSUME NEW F, IsFiniteSet(F), NEW edges \in SUBSET (F \X F),
           NEW s \in States(edges)[Rounds(edges)]
    PROVE  Kahn(edges, s) /\ s.queue = <<>>
<1> DEFINE N == NodesOf(edges)
           placed == {x \in N : Has(s.order, x)}
<1>1. N \in SUBSET F
  BY DEF NodesOf
<1>2. IsFiniteSet(N) /\ IsFiniteSet(edges)
  <2> HIDE DEF N
  <2> QED  BY <1>1, FS_Product, FS_Subset
<1>3. Cardinality(N) \in Nat /\ Cardinality(edges) \in Nat /\ (Cardinality(edges) = 0 <=> edges = {})
  <2> HIDE DEF N
  <2> QED  BY <1>2, FS_CardinalityType, FS_EmptySet
<1>4. Rounds(edges) \in Nat
  BY <1>3 DEF Rounds
<1>5. Kahn(edges, s) /\ (s.queue = <<>> \/ Len(s.order) = Rounds(edges))
  BY <1>2, <1>4, RoundsKahn
<1>6. s.order \in Seq(N) /\ s.queue \in Seq(N) /\ Distinct(s.order)
  BY <1>5 DEF Kahn
<1>7. Cardinality(placed) = Len(s.order) /\ Cardinality(placed) <= Cardinality(N)
  <2>1. s.order \in Seq(placed) /\ \A x \in placed : Has(s.order, x)
    <3>1. \A i \in 1 .. Len(s.order) : s.order[i] \in placed
      BY <1>6 DEF Has
    <3> HIDE DEF placed
    <3>2. s.order \in Seq(placed)
      BY <1>6, <3>1
    <3> QED  BY <3>2 DEF placed
  <2>2. placed \in SUBSET N
    OBVIOUS
  <2> HIDE DEF placed, N
  <2> QED  BY <1>2, <1>6, <2>1, <2>2, ListingIs, FS_Subset
<1>8. CASE Len(s.order) = Rounds(edges)
  <2>1. Cardinality(edges) = 0
    <3> HIDE DEF N, placed
    <3> QED  BY <1>3, <1>7, <1>8 DEF Rounds, N
  <2>2. N = {}
    BY <1>3, <2>1 DEF NodesOf
  <2>3. s.queue = <<>>
    <3> HIDE DEF N
    <3> QED  BY <1>6, <2>2
  <2> QED  BY <1>5, <2>3
<1> QED  BY <1>5, <1>8

\* For every finite graph of imports.
LEMMA BuildOrdersRight ==
    ASSUME NEW F, IsFiniteSet(F), NEW edges \in SUBSET (F \X F)
    PROVE  /\ BuildOrders(edges) # {}
           /\ \A order \in BuildOrders(edges) :
                 /\ order \in SetToSeqs(NodesOf(edges))
                 /\ \A e \in edges : ~Cyclic(edges, e[1]) =>
                       \A i, j \in DOMAIN order : order[i] = e[1] /\ order[j] = e[2] => j < i
<1> DEFINE N == NodesOf(edges)
           last == States(edges)[Rounds(edges)]
           rest(s) == N \ ToSet(s.order)
<1>1. N \in SUBSET F
  BY DEF NodesOf
<1>2. IsFiniteSet(N) /\ IsFiniteSet(edges)
  <2> HIDE DEF N
  <2> QED  BY <1>1, FS_Product, FS_Subset
<1>3. Rounds(edges) \in Nat
  <2>1. Cardinality(N) \in Nat /\ Cardinality(edges) \in Nat
    <3> HIDE DEF N
    <3> QED  BY <1>2, FS_CardinalityType
  <2> QED  BY <2>1 DEF Rounds
<1>4. \A s \in last : IsFiniteSet(rest(s))
  <2> TAKE s \in last
  <2>1. rest(s) \in SUBSET N
    OBVIOUS
  <2> HIDE DEF rest, N
  <2> QED  BY <1>2, <2>1, FS_Subset
<1>5. BuildOrders(edges) = UNION {{s.order \o r : r \in SetToSeqs(rest(s))} : s \in last}
  BY DEF BuildOrders
<1>6. BuildOrders(edges) # {}
  <2>1. PICK s : s \in last
    BY <1>2, <1>3, RoundsKahn
  <2>2. PICK r : r \in SetToSeqs(rest(s))
    <3> HIDE DEF rest
    <3> QED  BY <1>4, <2>1, ListingExists
  <2>3. s.order \o r \in BuildOrders(edges)
    <3> DEFINE after(x) == {x.order \o q : q \in SetToSeqs(rest(x))}
    <3>1. s.order \o r \in after(s)
      BY <2>2
    <3>2. BuildOrders(edges) = UNION {after(x) : x \in last}
      BY <1>5
    <3> HIDE DEF after, last
    <3> QED  BY <2>1, <3>1, <3>2
  <2> QED  BY <2>3
<1>7. ASSUME NEW order \in BuildOrders(edges)
      PROVE  /\ order \in SetToSeqs(N)
             /\ \A e \in edges : ~Cyclic(edges, e[1]) =>
                   \A i, j \in DOMAIN order : order[i] = e[1] /\ order[j] = e[2] => j < i
  <2>1. PICK s \in last : \E r \in SetToSeqs(rest(s)) : order = s.order \o r
    <3> HIDE DEF rest, last
    <3> QED  BY <1>5
  <2>2. PICK r \in SetToSeqs(rest(s)) : order = s.order \o r
    BY <2>1
  <2>3. Kahn(edges, s) /\ s.queue = <<>>
    BY RoundsSuffice
  <2>4. /\ s.order \in Seq(N) /\ Distinct(s.order)
        /\ \A x : ~Has(s.queue, x)
        /\ \A f \in N : (\A g \in Needs(edges, f) : Has(s.order, g)) <=> Has(s.order, f)
        /\ \A i \in 1 .. Len(s.order) : \A g \in Needs(edges, s.order[i]) :
              \E j \in 1 .. (i - 1) : s.order[j] = g
    <3>1. \A x : ~Has(s.queue, x)
      BY <2>3 DEF Has
    <3> QED  BY <2>3, <3>1 DEF Kahn
  <2>5. \A x : x \in rest(s) <=> x \in N /\ ~Has(s.order, x)
    BY <2>4, ToSetHas
  <2>6. r \in Seq(rest(s)) /\ Distinct(r) /\ \A x : Has(r, x) <=> x \in rest(s)
    <3> HIDE DEF rest
    <3> QED  BY <1>4, <2>1, <2>2, ListingFacts
  <2>7. r \in Seq(N)
    <3>1. rest(s) \subseteq N
      OBVIOUS
    <3> HIDE DEF rest, N
    <3> QED  BY <2>6, <3>1
  <2> HIDE DEF rest, last
  <2>8. /\ order \in Seq(N) /\ Len(order) = Len(s.order) + Len(r) /\ Distinct(order)
        /\ \A i \in 1 .. Len(s.order) : order[i] = s.order[i]
        /\ \A x : Has(order, x) <=> Has(s.order, x) \/ Has(r, x)
    <3>1. \A x : Has(r, x) => ~Has(s.order, x)
      BY <2>5, <2>6
    <3> HIDE DEF N
    <3> QED  BY <2>2, <2>4, <2>6, <2>7, <3>1, Concatenated
  <2>9. order \in SetToSeqs(N)
    <3>1. \A x \in N : Has(order, x)
      BY <2>5, <2>6, <2>8
    <3> HIDE DEF N
    <3> QED  BY <2>8, <3>1, ListingIs
  <2>10. ASSUME NEW e \in edges, ~Cyclic(edges, e[1]),
                NEW i \in DOMAIN order, NEW j \in DOMAIN order, order[i] = e[1], order[j] = e[2]
         PROVE  j < i
    <3>1. e = <<e[1], e[2]>> /\ e[1] \in N /\ e[2] \in N /\ e[2] \in Needs(edges, e[1])
      BY DEF NodesOf, Needs
    <3>2. Has(s.order, e[1])
      <4> SUFFICES ASSUME ~Has(s.order, e[1]) PROVE FALSE
        OBVIOUS
      <4> DEFINE W == {x \in N : ~Has(s.order, x)}
      <4>1. \A g \in W : Needs(edges, g) \cap W # {}
        <5> TAKE g \in W
        <5>1. PICK d \in Needs(edges, g) : ~Has(s.order, d)
          BY <2>4
        <5>2. d \in N
          BY <5>1 DEF Needs
        <5> QED  BY <5>1, <5>2
      <4>2. W \in SUBSET NodesOf(edges) /\ e[1] \in W
        BY <3>1
      <4> HIDE DEF W
      <4> QED  BY <2>10, <4>1, <4>2 DEF Cyclic
    <3>3. PICK k \in 1 .. Len(s.order) : s.order[k] = e[1]
      BY <3>2 DEF Has
    <3>4. PICK l \in 1 .. (k - 1) : s.order[l] = e[2]
      BY <2>4, <3>1, <3>3
    <3>5. DOMAIN order = 1 .. Len(order) /\ Len(s.order) \in Nat /\ Len(r) \in Nat
      <4> HIDE DEF N
      <4> QED  BY <2>4, <2>7, <2>8
    <3>6. k \in 1 .. Len(order) /\ l \in 1 .. Len(order) /\ l \in 1 .. Len(s.order)
      BY <2>8, <3>3, <3>4, <3>5
    <3>7. order[k] = e[1] /\ order[l] = e[2]
      BY <2>8, <3>3, <3>4, <3>6
    <3>8. k = i /\ l = j
      BY <2>8, <2>10, <3>5, <3>6, <3>7 DEF Distinct
    <3> QED  BY <3>3, <3>4, <3>8
  <2> QED  BY <2>9, <2>10
<1> QED  BY <1>6, <1>7

\* Every file that imports or is imported is in the build order once, and comes after
\* all it imports unless it leads to a cycle, in whatever order the database answers
\* (get_build_order).
THEOREM DependenciesAlwaysFirst == Spec => []DependenciesBuiltFirst
<1>1. CallInvariant => DependenciesBuiltFirst
  <2> SUFFICES ASSUME CallInvariant PROVE DependenciesBuiltFirst
    OBVIOUS
  <2>1. imports \subseteq Files \X Files
    BY DEF CallInvariant, TypeOK
  <2>2. Internal \in SUBSET (Files \X Files)
    BY <2>1 DEF Internal
  <2>3. IsFiniteSet(Files)
    BY IndexAssumption
  <2> QED  BY <2>2, <2>3, BuildOrdersRight DEF DependenciesBuiltFirst
<1> QED  BY <1>1, CallsInvariance, PTL

===============================================================================
