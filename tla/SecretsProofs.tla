------------------------------ MODULE SecretsProofs ------------------------------
(***************************************************************************)
(* That no value is lost and that a rotation nothing disturbed leaves      *)
(* every row readable, for any processes, secrets, keys, calls and number  *)
(* of failures.                                                            *)
(*                                                                         *)
(* Nothing keeps forge_secrets to one row per name.  The invariant says    *)
(* why a name has one row all the same while its writes do not meet: each  *)
(* id belongs to one name, a store that is about to commit has found every *)
(* row of its name, and a rotation has found the value last stored.        *)
(***************************************************************************)
EXTENDS SecretsProperties, FiniteSetTheorems, TLAPS

Texts == Names \cup Requests
Places == {"new", "store", "insert", "get", "select", "update", "done", "failed"}

TypeOK ==
    /\ rows \subseteq [id : Texts, name : Names, key : Keys, value : Texts]
    /\ IsFiniteSet(rows)
    /\ fernet \in [Managers -> Keys]
    /\ pc \in [Requests -> Places] /\ call \in [Requests -> Calls \cup {None}]
    /\ cipher \in [Requests -> Keys \cup {None}]
    /\ seen \in [Requests -> SUBSET Texts]
    /\ todo \in [Requests -> Seq(Names)] /\ text \in [Requests -> Texts \cup {None}]
    /\ faults \in 0 .. MaxFaults
    /\ latest \in [Names -> Texts \cup {None}]
    /\ tangled \subseteq Names /\ disturbed \subseteq Requests
    /\ good \in [by : Managers, scope : Scopes] \cup {None}

Stores(r) == pc[r] \in {"store", "insert"}
Rotates(r) == pc[r] \in {"get", "select", "update"}

\* The id of a row of n: the name itself, or a store of n that has returned.
IdOf(i, n) ==
    \/ i = n
    \/ i \in Requests /\ pc[i] = "done" /\ call[i].op = "store" /\ call[i].name = n

\* What a request has in its locals.
Calling(r) ==
    /\ pc[r] # "new" => call[r] \in Calls
    /\ Stores(r) => call[r].op = "store" /\ cipher[r] \in Keys
    /\ pc[r] = "insert" => \A i \in seen[r] : IdOf(i, call[r].name)
    /\ Rotates(r) =>
          /\ call[r].op = "rotate"
          /\ \A i \in DOMAIN todo[r] : ScopeOf[todo[r][i]] = call[r].scope
    /\ pc[r] \in {"select", "update"} => todo[r] # <<>> /\ text[r] \in Texts
    /\ pc[r] = "update" => \A i \in seen[r] : IdOf(i, Head(todo[r]))

\* A name that no store shared with another write.
Kept(n) ==
    IF latest[n] = None THEN RowsOf(n) = {}
    ELSE \E x \in rows : RowsOf(n) = {x} /\ x.value = latest[n]

StoredAlone(n) ==
    \A r \in Requests : Stores(r) /\ call[r].name = n =>
        /\ \A q \in Requests \ {r} : Stores(q) => call[q].name # n
        /\ \A q \in Requests : Rotates(q) => call[q].scope # ScopeOf[n]
        /\ pc[r] = "insert" => seen[r] = {x.id : x \in RowsOf(n)}

RotatedAsStored(n) ==
    \A q \in Requests : pc[q] \in {"select", "update"} /\ Head(todo[q]) = n =>
        text[q] = latest[n] \/ latest[n] = None

Untangled(n) == Kept(n) /\ StoredAlone(n) /\ RotatedAsStored(n)

\* A rotation that nothing has come across.
RotatesAlone(q) ==
    /\ \A r \in Requests : Stores(r) => ScopeOf[call[r].name] # call[q].scope
    /\ \A r \in Requests \ {q} :
          Rotates(r) => call[r].scope # call[q].scope /\ call[r].by # call[q].by

\* Every row of its scope has the new key or is still to be rotated.
RotatesAll(q) ==
    \A x \in rows : ScopeOf[x.name] = call[q].scope =>
        /\ x.key = call[q].key \/ \E i \in DOMAIN todo[q] : todo[q][i] = x.name
        /\ pc[q] = "update" /\ x.name = Head(todo[q]) => x.id \in seen[q]

UndisturbedSoFar(q) == Rotates(q) /\ q \notin disturbed => RotatesAlone(q) /\ RotatesAll(q)

\* Nothing can write under another key where the last good rotation was made.
GoodHolds ==
    good # None =>
        /\ \A x \in rows : ScopeOf[x.name] = good.scope => x.key = fernet[good.by]
        /\ \A r \in Requests :
              /\ Stores(r) /\ ScopeOf[call[r].name] = good.scope => cipher[r] = fernet[good.by]
              /\ Rotates(r) => call[r].scope # good.scope /\ call[r].by # good.by

SecretsInvariant ==
    /\ TypeOK
    /\ \A x \in rows : IdOf(x.id, x.name)
    /\ \A r \in Requests : Calling(r)
    /\ \A n \in Names \ tangled : Untangled(n)
    /\ \A q \in Requests : UndisturbedSoFar(q)
    /\ GoodHolds

-----------------------------------------------------------------------------
(* Sequences of a set, calls, and the ids of a name.                        *)

\* SetToSeqs lists every element.
LEMMA ListsAll ==
    ASSUME NEW S, IsFiniteSet(S), NEW s \in SetToSeqs(S)
    PROVE  /\ s \in Seq(S) /\ \A i \in DOMAIN s : s[i] \in S
           /\ \A x \in S : \E i \in DOMAIN s : s[i] = x
<1> DEFINE D == 1 .. Cardinality(S)
<1>1. Cardinality(S) \in Nat
  BY FS_CardinalityType
<1>2. s \in [D -> S] /\ \A i, j \in D : i # j => s[i] # s[j]
  BY DEF SetToSeqs
<1>3. IsFiniteSet(D) /\ Cardinality(D) = Cardinality(S)
  BY <1>1, FS_Interval
<1>4. s \in Injection(D, S)
  BY <1>2 DEF Injection, IsInjective
<1>5. s \in Surjection(D, S)
  BY <1>3, <1>4, FS_Injection
<1>6. s \in Seq(S)
  BY <1>1, <1>2
<1> QED  BY <1>2, <1>5, <1>6 DEF Surjection

LEMMA CallKinds ==
    ASSUME NEW c \in Calls
    PROVE  /\ c.by \in Managers /\ c.op \in {"store", "delete", "rotate"}
           /\ c.op \in {"store", "delete"} => c.name \in Names
           /\ c.op = "rotate" => c.scope \in Scopes /\ c.key \in Keys
BY DEF Calls

LEMMA KindsOfRequest ==
    ASSUME TypeOK, NEW r \in Requests, Calling(r)
    PROVE  /\ r \in Storing <=> Stores(r)
           /\ r \in Rotating <=> Rotates(r)
           /\ r \in InFlight <=> Stores(r) \/ Rotates(r)
           /\ Stores(r) => call[r] \in Calls /\ call[r].by \in Managers /\ call[r].name \in Names
           /\ Rotates(r) => /\ call[r] \in Calls /\ call[r].by \in Managers
                            /\ call[r].scope \in Scopes /\ call[r].key \in Keys
<1>1. pc[r] \in Places
  BY DEF TypeOK
<1>2. pc[r] # "new" => call[r] \in Calls
  BY DEF Calling
<1>3. r \in InFlight <=> Stores(r) \/ Rotates(r)
  BY <1>1 DEF InFlight, Stores, Rotates, Places
<1>4. (Stores(r) => call[r].op = "store") /\ (Rotates(r) => call[r].op = "rotate")
  BY DEF Calling
<1>5. (Stores(r) \/ Rotates(r)) => call[r] \in Calls
  BY <1>2 DEF Stores, Rotates
<1>6. Stores(r) => call[r] \in Calls /\ call[r].by \in Managers /\ call[r].name \in Names
  BY <1>4, <1>5, CallKinds
<1>7. Rotates(r) => /\ call[r] \in Calls /\ call[r].by \in Managers
                    /\ call[r].scope \in Scopes /\ call[r].key \in Keys
  BY <1>4, <1>5, CallKinds
<1>8. ~(Stores(r) /\ Rotates(r))
  BY DEF Stores, Rotates
<1>9. (r \in Storing <=> Stores(r)) /\ (r \in Rotating <=> Rotates(r))
  BY <1>3, <1>4, <1>8 DEF Storing, Rotating
<1> QED  BY <1>3, <1>6, <1>7, <1>9

\* An id belongs to one name.
LEMMA OneName ==
    ASSUME NEW i, NEW n \in Names, NEW m \in Names, IdOf(i, n), IdOf(i, m)
    PROVE  n = m
BY SecretsAssumption DEF IdOf

\* A call that has returned stays so.
Returned == \A r \in Requests : pc[r] = "done" => pc'[r] = "done" /\ call'[r] = call[r]

LEMMA IdStays ==
    ASSUME Returned, NEW i, NEW n, IdOf(i, n)
    PROVE  IdOf(i, n)'
BY DEF Returned, IdOf

\* A request that a step of another one leaves alone.
Untouched(u) ==
    /\ pc'[u] = pc[u] /\ call'[u] = call[u] /\ cipher'[u] = cipher[u]
    /\ seen'[u] = seen[u] /\ todo'[u] = todo[u] /\ text'[u] = text[u]

LEMMA UntouchedCalls ==
    ASSUME Returned, NEW u \in Requests, Untouched(u), Calling(u)
    PROVE  Calling(u)'
<1>1. \A i \in seen[u] :
          /\ IdOf(i, call[u].name) => IdOf(i, call[u].name)'
          /\ IdOf(i, Head(todo[u])) => IdOf(i, Head(todo[u]))'
  BY DEF Untouched, Returned, IdOf
<1>2. pc[u] = "insert" => \A i \in seen'[u] : IdOf(i, call[u].name)'
  BY <1>1 DEF Calling, Untouched
<1>3. pc[u] = "update" => \A i \in seen'[u] : IdOf(i, Head(todo[u]))'
  BY <1>1 DEF Calling, Untouched
<1> QED  BY <1>2, <1>3 DEF Calling, Untouched, Stores, Rotates, IdOf

-----------------------------------------------------------------------------
(* The step of each action.                                                 *)

LEMMA StartStoreKeeps ==
    ASSUME SecretsInvariant, NEW r \in Requests, NEW c \in Calls, StartStore(r, c)
    PROVE  SecretsInvariant'
<1> USE DEF StartStore, Accept, Goto
<1>0. /\ TypeOK /\ c.by \in Managers /\ c.name \in Names /\ pc[r] = "new"
      /\ c.op = "store"
      /\ \A u \in Requests : (u \in Storing <=> Stores(u)) /\ (u \in Rotating <=> Rotates(u))
  BY CallKinds, KindsOfRequest DEF SecretsInvariant
<1>1. TypeOK'
  <2>1. Rotating \subseteq Requests
    BY DEF Rotating, InFlight
  <2>2. disturbed' \subseteq Requests /\ tangled' \subseteq Names
    BY <1>0, <2>1 DEF TypeOK
  <2>3. fernet[c.by] \in Keys /\ "store" \in Places
    BY <1>0 DEF TypeOK, Places
  <2>4. good' \in [by : Managers, scope : Scopes] \cup {None}
    BY <1>0 DEF TypeOK
  <2> QED  BY <1>0, <2>2, <2>3, <2>4 DEF TypeOK
<1>2. Returned /\ \A u \in Requests \ {r} : Untouched(u)
  BY <1>0 DEF TypeOK, Returned, Untouched
<1>3. /\ pc'[r] = "store" /\ call'[r] = c /\ cipher'[r] = fernet[c.by]
      /\ rows' = rows /\ fernet' = fernet /\ latest' = latest
      /\ \A n : RowsOf(n)' = RowsOf(n)
  BY <1>0 DEF TypeOK, RowsOf
<1>4. Calling(r)'
  BY <1>0, <1>3 DEF TypeOK, Calling, Stores, Rotates
<1>5. \A u \in Requests : Calling(u)'
  BY <1>2, <1>4, UntouchedCalls DEF SecretsInvariant
<1>6. \A x \in rows' : IdOf(x.id, x.name)'
  BY <1>2, <1>3, IdStays DEF SecretsInvariant
<1>7. ASSUME NEW n \in Names \ tangled'
      PROVE  Untangled(n)'
  <2>1. n \notin tangled
    BY <1>7
  <2>2. Kept(n) /\ StoredAlone(n) /\ RotatedAsStored(n)
    BY <2>1 DEF SecretsInvariant, Untangled
  <2>3. Kept(n)'
    BY <1>3, <2>2 DEF Kept
  <2>4. RotatedAsStored(n)'
    BY <1>2, <1>3, <2>2 DEF RotatedAsStored, Untouched
  <2>5. CASE c.name = n
    <3>1. /\ \A q \in Requests : Rotates(q) => call[q].scope # ScopeOf[n]
          /\ \A q \in Requests : Stores(q) => call[q].name # n
      BY <1>0, <1>7, <2>5
    <3>2. StoredAlone(n)'
      BY <1>0, <1>2, <1>3, <3>1 DEF StoredAlone, Untouched, Stores, Rotates
    <3> QED  BY <2>3, <2>4, <3>2 DEF Untangled
  <2>6. CASE c.name # n
    <3>1. StoredAlone(n)'
      BY <1>0, <1>2, <1>3, <2>2, <2>6 DEF StoredAlone, Untouched, Stores, Rotates
    <3> QED  BY <2>3, <2>4, <3>1 DEF Untangled
  <2> QED  BY <2>5, <2>6
<1>8. ASSUME NEW q \in Requests, Rotates(q)', q \notin disturbed'
      PROVE  RotatesAlone(q)' /\ RotatesAll(q)'
  <2>1. q # r /\ Rotates(q) /\ q \notin disturbed /\ Untouched(q)
    BY <1>2, <1>3, <1>8 DEF Rotates, Untouched
  <2>2. call[q].scope # ScopeOf[c.name]
    BY <1>0, <1>8, <2>1
  <2>3. RotatesAlone(q) /\ RotatesAll(q)
    BY <2>1 DEF SecretsInvariant, UndisturbedSoFar
  <2>4. RotatesAlone(q)'
    BY <1>2, <1>3, <2>1, <2>2, <2>3 DEF RotatesAlone, Stores, Rotates, Untouched
  <2>5. RotatesAll(q)'
    BY <1>3, <2>1, <2>3 DEF RotatesAll, Untouched
  <2> QED  BY <2>4, <2>5
<1>9. GoodHolds'
  <2>1. CASE good' = None
    BY <2>1 DEF GoodHolds
  <2>2. CASE good' # None
    <3>1. good' = good /\ good # None /\ (good.scope = ScopeOf[c.name] => good.by = c.by)
      BY <2>2
    <3> QED  BY <1>2, <1>3, <3>1 DEF SecretsInvariant, GoodHolds, Untouched, Stores, Rotates
  <2> QED  BY <2>1, <2>2
<1> QED  BY <1>1, <1>5, <1>6, <1>7, <1>8, <1>9 DEF SecretsInvariant, UndisturbedSoFar

LEMMA StoreDeletesKeeps ==
    ASSUME SecretsInvariant, NEW r \in Requests, StoreDeletes(r)
    PROVE  SecretsInvariant'
<1> USE DEF StoreDeletes, Goto, history
<1>0. TypeOK /\ Calling(r) /\ pc[r] = "store"
  BY DEF SecretsInvariant
<1> DEFINE n0 == call[r].name
<1>1. TypeOK'
  <2>1. {x.id : x \in RowsOf(n0)} \subseteq Texts
    BY <1>0 DEF TypeOK, RowsOf
  <2>2. pc' \in [Requests -> Places]
    BY <1>0 DEF TypeOK, Places
  <2> QED  BY <1>0, <2>1, <2>2 DEF TypeOK
<1>2. Returned /\ \A u \in Requests \ {r} : Untouched(u)
  BY <1>0 DEF TypeOK, Returned, Untouched
<1>3. /\ pc'[r] = "insert" /\ call' = call /\ cipher' = cipher
      /\ seen'[r] = {x.id : x \in RowsOf(n0)}
      /\ rows' = rows /\ fernet' = fernet /\ latest' = latest
      /\ \A n : RowsOf(n)' = RowsOf(n)
  BY <1>0 DEF TypeOK, RowsOf
<1>4. \A x \in rows' : IdOf(x.id, x.name)'
  BY <1>2, <1>3, IdStays DEF SecretsInvariant
<1>5. Calling(r)'
  <2>1. \A i \in seen'[r] : IdOf(i, n0)'
    BY <1>3, <1>4 DEF RowsOf
  <2> QED  BY <1>0, <1>3, <2>1 DEF Calling, Stores, Rotates, IdOf
<1>6. \A u \in Requests : Calling(u)'
  BY <1>2, <1>5, UntouchedCalls DEF SecretsInvariant
<1>7. \A u \in Requests : (Stores(u)' <=> Stores(u)) /\ (Rotates(u)' <=> Rotates(u))
  BY <1>0, <1>2, <1>3 DEF Untouched, Stores, Rotates
<1>8. ASSUME NEW n \in Names \ tangled'
      PROVE  Untangled(n)'
  <2>1. Kept(n) /\ StoredAlone(n) /\ RotatedAsStored(n)
    BY <1>8 DEF SecretsInvariant, Untangled
  <2>2. Kept(n)'
    BY <1>3, <2>1 DEF Kept
  <2>3. RotatedAsStored(n)'
    BY <1>2, <1>3, <2>1 DEF RotatedAsStored, Untouched
  <2>4. StoredAlone(n)'
    BY <1>2, <1>3, <1>7, <2>1 DEF StoredAlone, Untouched
  <2> QED  BY <2>2, <2>3, <2>4 DEF Untangled
<1>9. ASSUME NEW q \in Requests, Rotates(q)', q \notin disturbed'
      PROVE  RotatesAlone(q)' /\ RotatesAll(q)'
  <2>1. q # r /\ Untouched(q) /\ RotatesAlone(q) /\ RotatesAll(q)
    BY <1>2, <1>3, <1>7, <1>9 DEF SecretsInvariant, UndisturbedSoFar, Rotates
  <2>2. RotatesAlone(q)'
    BY <1>3, <1>7, <2>1 DEF RotatesAlone
  <2>3. RotatesAll(q)'
    BY <1>3, <2>1 DEF RotatesAll, Untouched
  <2> QED  BY <2>2, <2>3
<1>10. GoodHolds'
  BY <1>3, <1>7 DEF SecretsInvariant, GoodHolds
<1> QED  BY <1>1, <1>4, <1>6, <1>8, <1>9, <1>10 DEF SecretsInvariant, UndisturbedSoFar


\* A row of another name keeps out of what a DELETE or an UPDATE by id finds.
LEMMA OthersNotSeen ==
    ASSUME SecretsInvariant, NEW n \in Names, NEW S, \A i \in S : IdOf(i, n)
    PROVE  \A x \in rows : x.name # n => x.id \notin S
<1> SUFFICES ASSUME NEW x \in rows, x.id \in S
             PROVE  x.name = n
  OBVIOUS
<1>1. x.name \in Names /\ IdOf(x.id, x.name) /\ IdOf(x.id, n)
  BY DEF SecretsInvariant, TypeOK
<1> QED  BY <1>1, OneName

LEMMA StoreCommitsKeeps ==
    ASSUME SecretsInvariant, NEW r \in Requests, StoreCommits(r)
    PROVE  SecretsInvariant'
<1> USE DEF StoreCommits, Goto, locals
<1>a. PICK n0 : n0 = call[r].name
  OBVIOUS
<1>b. PICK x0 : x0 = [id |-> r, name |-> n0, key |-> cipher[r], value |-> r]
  OBVIOUS
<1>0. /\ TypeOK /\ Calling(r) /\ pc[r] = "insert" /\ Stores(r) /\ n0 \in Names
      /\ call[r].op = "store" /\ cipher[r] \in Keys
      /\ call[r].name = n0 /\ \A i \in seen[r] : IdOf(i, n0)
  BY <1>a, KindsOfRequest DEF SecretsInvariant, Calling, Stores
<1>1. rows' = {x \in rows : x.id \notin seen[r]} \cup {x0}
  BY <1>a, <1>b DEF NewRow
<1>2. x0.id = r /\ x0.name = n0 /\ x0.key = cipher[r] /\ x0.value = r
  BY <1>b
<1>3. \A x \in rows : x.name # n0 => x.id \notin seen[r]
  BY <1>0, OthersNotSeen
<1>4. TypeOK'
  <2>1. x0 \in [id : Texts, name : Names, key : Keys, value : Texts]
    BY <1>b, <1>0 DEF Texts
  <2>2. IsFiniteSet({x \in rows : x.id \notin seen[r]})
    BY <1>0, FS_Subset DEF TypeOK
  <2>3. IsFiniteSet(rows')
    BY <1>1, <2>2, FS_AddElement
  <2>4. rows' \subseteq [id : Texts, name : Names, key : Keys, value : Texts]
    BY <1>0, <1>1, <2>1 DEF TypeOK
  <2>5. pc' \in [Requests -> Places]
    BY <1>0 DEF TypeOK, Places
  <2>6. latest' \in [Names -> Texts \cup {None}]
    BY <1>0 DEF TypeOK, Texts
  <2> QED  BY <1>0, <2>3, <2>4, <2>5, <2>6 DEF TypeOK
<1>5. Returned /\ \A u \in Requests \ {r} : Untouched(u)
  BY <1>0 DEF TypeOK, Returned, Untouched
<1>6. /\ pc'[r] = "done" /\ call' = call /\ cipher' = cipher /\ fernet' = fernet
      /\ seen' = seen /\ todo' = todo /\ text' = text
      /\ latest'[n0] = r
      /\ \A n \in Names \ {n0} : latest'[n] = latest[n]
      /\ tangled' = tangled /\ disturbed' = disturbed /\ good' = good
  BY <1>0 DEF TypeOK
<1>7. \A x \in rows' : IdOf(x.id, x.name)'
  <2>1. IdOf(x0.id, x0.name)'
    BY <1>0, <1>2, <1>6 DEF IdOf
  <2>2. \A x \in rows : IdOf(x.id, x.name)'
    BY <1>5, IdStays DEF SecretsInvariant
  <2> QED  BY <1>1, <2>1, <2>2
<1>8. \A u \in Requests : Calling(u)'
  <2>1. Calling(r)'
    BY <1>0, <1>6 DEF Calling, Stores, Rotates
  <2> QED  BY <1>5, <2>1, UntouchedCalls DEF SecretsInvariant
<1>9. /\ ~Stores(r)' /\ ~Rotates(r)' /\ ~Rotates(r)
      /\ \A u \in Requests \ {r} : (Stores(u)' <=> Stores(u)) /\ (Rotates(u)' <=> Rotates(u))
  BY <1>0, <1>5, <1>6 DEF Untouched, Stores, Rotates
<1>10. \A n \in Names \ {n0} : RowsOf(n)' = RowsOf(n)
  BY <1>1, <1>2, <1>3 DEF RowsOf
<1>11. ASSUME NEW n \in Names \ tangled'
       PROVE  Untangled(n)'
  <2>1. Kept(n) /\ StoredAlone(n) /\ RotatedAsStored(n)
    BY <1>6, <1>11 DEF SecretsInvariant, Untangled
  <2>2. CASE n # n0
    <3>1. Kept(n)'
      <4>1. CASE latest[n] = None
        BY <1>6, <1>10, <2>1, <2>2, <4>1 DEF Kept
      <4>2. CASE latest[n] # None
        <5>1. PICK x \in rows : RowsOf(n) = {x} /\ x.value = latest[n]
          BY <2>1, <4>2 DEF Kept
        <5>2. RowsOf(n)' = {x} /\ latest'[n] = latest[n]
          BY <1>6, <1>10, <2>2, <5>1
        <5>3. x \in rows'
          BY <5>2 DEF RowsOf
        <5> QED  BY <4>2, <5>1, <5>2, <5>3 DEF Kept
      <4> QED  BY <4>1, <4>2
    <3>2. RotatedAsStored(n)'
      BY <1>5, <1>6, <1>9, <2>1, <2>2 DEF RotatedAsStored, Untouched
    <3>3. StoredAlone(n)'
      BY <1>5, <1>6, <1>9, <1>10, <2>1, <2>2 DEF StoredAlone, Untouched
    <3> QED  BY <3>1, <3>2, <3>3 DEF Untangled
  <2>3. CASE n = n0
    <3>1. /\ \A q \in Requests \ {r} : Stores(q) => call[q].name # n
          /\ \A q \in Requests : Rotates(q) => call[q].scope # ScopeOf[n]
          /\ seen[r] = {x.id : x \in RowsOf(n)}
      BY <1>0, <2>1, <2>3 DEF StoredAlone
    <3>2. RowsOf(n)' = {x0} /\ x0 \in rows'
      BY <1>1, <1>2, <2>3, <3>1 DEF RowsOf
    <3>3. latest'[n] = x0.value /\ latest'[n] # None
      BY <1>2, <1>6, <2>3, SecretsAssumption
    <3>4. Kept(n)'
      BY <3>2, <3>3 DEF Kept
    <3>5. StoredAlone(n)'
      BY <1>6, <1>9, <3>1 DEF StoredAlone
    <3>6. \A q \in Requests : pc[q] \in {"select", "update"} => Head(todo[q]) # n
      <4> SUFFICES ASSUME NEW q \in Requests, pc[q] \in {"select", "update"}, Head(todo[q]) = n
                   PROVE  FALSE
        OBVIOUS
      <4>1. Calling(q) /\ Rotates(q) /\ todo[q] # <<>> /\ todo[q] \in Seq(Names)
        BY DEF SecretsInvariant, TypeOK, Calling, Rotates
      <4>2. 1 \in DOMAIN todo[q] /\ todo[q][1] = n
        BY <4>1
      <4>3. ScopeOf[n] = call[q].scope
        BY <4>1, <4>2 DEF Calling
      <4> QED  BY <3>1, <4>1, <4>3
    <3>7. RotatedAsStored(n)'
      BY <1>0, <1>5, <1>6, <3>6 DEF RotatedAsStored, Untouched
    <3> QED  BY <3>4, <3>5, <3>7 DEF Untangled
  <2> QED  BY <2>2, <2>3
<1>12. ASSUME NEW q \in Requests, Rotates(q)', q \notin disturbed'
       PROVE  RotatesAlone(q)' /\ RotatesAll(q)'
  <2>1. q # r /\ Untouched(q) /\ RotatesAlone(q) /\ RotatesAll(q)
    BY <1>5, <1>6, <1>9, <1>12 DEF SecretsInvariant, UndisturbedSoFar
  <2>2. RotatesAlone(q)'
    BY <1>6, <1>9, <2>1 DEF RotatesAlone
  <2>3. ScopeOf[n0] # call[q].scope
    BY <1>0, <2>1 DEF RotatesAlone
  <2>4. \A x \in rows' : ScopeOf[x.name] = call[q].scope => x \in rows
    BY <1>1, <1>2, <2>3
  <2>5. RotatesAll(q)'
    BY <2>1, <2>4 DEF RotatesAll, Untouched
  <2> QED  BY <2>2, <2>5
<1>13. GoodHolds'
  <2> SUFFICES ASSUME good # None
               PROVE  GoodHolds'
    BY <1>6 DEF GoodHolds
  <2>1. \A x \in rows' : ScopeOf[x.name] = good.scope => x.key = fernet[good.by]
    BY <1>0, <1>1, <1>2 DEF SecretsInvariant, GoodHolds
  <2> QED  BY <1>6, <1>9, <2>1 DEF SecretsInvariant, GoodHolds
<1> QED  BY <1>4, <1>7, <1>8, <1>11, <1>12, <1>13 DEF SecretsInvariant, UndisturbedSoFar

LEMMA DeleteKeeps ==
    ASSUME SecretsInvariant, NEW r \in Requests, NEW c \in Calls, Delete(r, c)
    PROVE  SecretsInvariant'
<1> USE DEF Delete, Accept, Goto, locals
<1>0. /\ TypeOK /\ c.name \in Names /\ pc[r] = "new" /\ c.op = "delete"
      /\ \A u \in Requests : u \in Storing <=> Stores(u)
  BY CallKinds, KindsOfRequest DEF SecretsInvariant
<1>1. TypeOK'
  <2>1. rows' \subseteq rows /\ IsFiniteSet(rows')
    BY <1>0, FS_Subset DEF TypeOK
  <2>2. tangled' \subseteq Names
    BY <1>0 DEF TypeOK
  <2>3. pc' \in [Requests -> Places]
    BY <1>0 DEF TypeOK, Places
  <2>4. latest' \in [Names -> Texts \cup {None}]
    BY <1>0 DEF TypeOK
  <2> QED  BY <1>0, <2>1, <2>2, <2>3, <2>4 DEF TypeOK
<1>2. Returned /\ \A u \in Requests \ {r} : Untouched(u)
  BY <1>0 DEF TypeOK, Returned, Untouched
<1>3. /\ pc'[r] = "done" /\ call'[r] = c /\ rows' \subseteq rows
      /\ fernet' = fernet /\ disturbed' = disturbed /\ good' = good /\ tangled \subseteq tangled'
      /\ latest'[c.name] = None /\ \A n \in Names \ {c.name} : latest'[n] = latest[n]
  BY <1>0 DEF TypeOK
<1>4. /\ RowsOf(c.name)' = {}
      /\ \A n \in Names \ {c.name} : RowsOf(n)' = RowsOf(n)
  BY DEF RowsOf
<1>5. \A x \in rows' : IdOf(x.id, x.name)'
  BY <1>2, <1>3, IdStays DEF SecretsInvariant
<1>6. \A u \in Requests : Calling(u)'
  <2>1. Calling(r)'
    BY <1>3 DEF Calling, Stores, Rotates
  <2> QED  BY <1>2, <2>1, UntouchedCalls DEF SecretsInvariant
<1>7. /\ ~Stores(r)' /\ ~Rotates(r)' /\ ~Stores(r) /\ ~Rotates(r)
      /\ \A u \in Requests : (Stores(u)' <=> Stores(u)) /\ (Rotates(u)' <=> Rotates(u))
  BY <1>0, <1>2, <1>3 DEF Untouched, Stores, Rotates
<1>8. ASSUME NEW n \in Names \ tangled'
      PROVE  Untangled(n)'
  <2>1. Kept(n) /\ StoredAlone(n) /\ RotatedAsStored(n)
    BY <1>3, <1>8 DEF SecretsInvariant, Untangled
  <2>2. Kept(n)'
    <3>1. CASE n = c.name
      BY <1>3, <1>4, <3>1 DEF Kept
    <3>2. CASE n # c.name
      <4>1. RowsOf(n)' = RowsOf(n) /\ latest'[n] = latest[n]
        BY <1>3, <1>4, <3>2
      <4>2. \A x \in RowsOf(n) : x \in rows'
        BY <4>1 DEF RowsOf
      <4> QED  BY <2>1, <4>1, <4>2 DEF Kept
    <3> QED  BY <3>1, <3>2
  <2>3. RotatedAsStored(n)'
    BY <1>2, <1>3, <2>1 DEF RotatedAsStored, Untouched
  <2>4. StoredAlone(n)'
    <3>1. n = c.name => \A q \in Requests : Stores(q) => call[q].name # n
      BY <1>0, <1>8
    <3> QED  BY <1>2, <1>4, <1>7, <2>1, <3>1 DEF StoredAlone, Untouched
  <2> QED  BY <2>2, <2>3, <2>4 DEF Untangled
<1>9. ASSUME NEW q \in Requests, Rotates(q)', q \notin disturbed'
      PROVE  RotatesAlone(q)' /\ RotatesAll(q)'
  <2>1. q # r /\ Untouched(q) /\ RotatesAlone(q) /\ RotatesAll(q)
    BY <1>2, <1>3, <1>7, <1>9 DEF SecretsInvariant, UndisturbedSoFar
  <2>2. RotatesAlone(q)'
    BY <1>2, <1>7, <2>1 DEF RotatesAlone, Untouched
  <2>3. RotatesAll(q)'
    BY <1>3, <2>1 DEF RotatesAll, Untouched
  <2> QED  BY <2>2, <2>3
<1>10. GoodHolds'
  BY <1>2, <1>3, <1>7 DEF SecretsInvariant, GoodHolds, Untouched
<1> QED  BY <1>1, <1>5, <1>6, <1>8, <1>9, <1>10 DEF SecretsInvariant, UndisturbedSoFar


\* What is left of a sequence once its head is taken.
LEMMA HeadAndTail ==
    ASSUME NEW S, NEW s \in Seq(S), s # <<>>
    PROVE  /\ Head(s) \in S /\ Tail(s) \in Seq(S)
           /\ \E i \in DOMAIN s : s[i] = Head(s)
           /\ \A i \in DOMAIN Tail(s) : \E j \in DOMAIN s : s[j] = Tail(s)[i]
           /\ \A j \in DOMAIN s : s[j] = Head(s) \/ \E i \in DOMAIN Tail(s) : Tail(s)[i] = s[j]
<1>1. /\ Len(s) \in Nat \ {0} /\ DOMAIN s = 1 .. Len(s)
      /\ Head(s) = s[1] /\ Tail(s) \in Seq(S) /\ Len(Tail(s)) = Len(s) - 1
      /\ DOMAIN Tail(s) = 1 .. Len(s) - 1
      /\ \A i \in 1 .. Len(s) - 1 : Tail(s)[i] = s[i + 1]
  OBVIOUS
<1>2. \A i \in DOMAIN Tail(s) : i + 1 \in DOMAIN s /\ s[i + 1] = Tail(s)[i]
  BY <1>1
<1>3. ASSUME NEW j \in DOMAIN s, j # 1
      PROVE  j - 1 \in DOMAIN Tail(s) /\ Tail(s)[j - 1] = s[j]
  BY <1>1, <1>3
<1> QED  BY <1>1, <1>2, <1>3

LEMMA StartRotateKeeps ==
    ASSUME SecretsInvariant, NEW r \in Requests, NEW c \in Calls, StartRotate(r, c)
    PROVE  SecretsInvariant'
<1> USE DEF StartRotate, Accept, Goto
<1>0. /\ TypeOK /\ c.by \in Managers /\ c.scope \in Scopes /\ pc[r] = "new"
      /\ c.op = "rotate" /\ c.key \in Keys
      /\ \A u \in Requests :
            /\ (u \in Storing <=> Stores(u)) /\ (u \in Rotating <=> Rotates(u))
            /\ Stores(u) => call[u].name \in Names
  BY CallKinds, KindsOfRequest DEF SecretsInvariant
<1> DEFINE S == {x \in rows : ScopeOf[x.name] = c.scope}
<1>1. PICK listed \in SetToSeqs(S) :
          todo' = [todo EXCEPT ![r] = [i \in DOMAIN listed |-> listed[i].name]]
  OBVIOUS
<1>2. IsFiniteSet(S) /\ S \subseteq rows
  BY <1>0, FS_Subset DEF TypeOK
<1>3. /\ listed \in Seq(S) /\ \A i \in DOMAIN listed : listed[i] \in S
      /\ \A x \in S : \E i \in DOMAIN listed : listed[i] = x
  <2> HIDE DEF S
  <2> QED  BY <1>2, ListsAll
<1>4. PICK names : names = [i \in DOMAIN listed |-> listed[i].name]
  OBVIOUS
<1>5. /\ names \in Seq(Names)
      /\ \A i \in DOMAIN names : ScopeOf[names[i]] = c.scope
      /\ \A x \in S : \E i \in DOMAIN names : names[i] = x.name
  <2>1. \A x \in S : x.name \in Names /\ ScopeOf[x.name] = c.scope
    BY <1>0 DEF TypeOK
  <2> HIDE DEF S
  <2>2. DOMAIN listed = 1 .. Len(listed) /\ Len(listed) \in Nat
    BY <1>3
  <2>3. \A i \in DOMAIN listed : names[i] = listed[i].name /\ names[i] \in Names
    BY <1>3, <1>4, <2>1
  <2>4. DOMAIN names = DOMAIN listed
    BY <1>4
  <2>5. names \in [1 .. Len(listed) -> Names]
    BY <1>4, <2>2, <2>3
  <2>6. names \in Seq(Names)
    BY <2>2, <2>5
  <2>7. \A i \in DOMAIN names : ScopeOf[names[i]] = c.scope
    BY <1>3, <2>1, <2>3, <2>4
  <2>8. ASSUME NEW x \in S
        PROVE  \E i \in DOMAIN names : names[i] = x.name
    <3>1. PICK i \in DOMAIN listed : listed[i] = x
      BY <1>3
    <3> QED  BY <2>3, <2>4, <3>1
  <2> QED  BY <2>6, <2>7, <2>8
<1>6. TypeOK'
  <2>1. Storing \subseteq Requests /\ Rotating \subseteq Requests
    BY DEF Storing, Rotating, InFlight
  <2>2. tangled' \subseteq Names
    BY <1>0, <2>1 DEF TypeOK
  <2>3. disturbed' \subseteq Requests
    BY <1>0, <2>1 DEF TypeOK
  <2>4. pc' \in [Requests -> Places]
    BY <1>0 DEF TypeOK, Places
  <2>5. good' \in [by : Managers, scope : Scopes] \cup {None}
    BY <1>0 DEF TypeOK
  <2>6. todo' \in [Requests -> Seq(Names)]
    BY <1>0, <1>1, <1>4, <1>5 DEF TypeOK
  <2> QED  BY <1>0, <2>2, <2>3, <2>4, <2>5, <2>6 DEF TypeOK
<1>7. Returned /\ \A u \in Requests \ {r} : Untouched(u)
  BY <1>0, <1>1 DEF TypeOK, Returned, Untouched
<1>8. /\ pc'[r] = "get" /\ call'[r] = c /\ todo'[r] = names
      /\ rows' = rows /\ fernet' = fernet /\ latest' = latest
      /\ \A n : RowsOf(n)' = RowsOf(n)
  BY <1>0, <1>1, <1>4 DEF TypeOK, RowsOf
<1>9. \A x \in rows' : IdOf(x.id, x.name)'
  BY <1>7, <1>8, IdStays DEF SecretsInvariant
<1>10. \A u \in Requests : Calling(u)'
  <2>1. Calling(r)'
    BY <1>0, <1>5, <1>8 DEF Calling, Stores, Rotates
  <2> QED  BY <1>7, <2>1, UntouchedCalls DEF SecretsInvariant
<1>11. /\ ~Stores(r)' /\ Rotates(r)' /\ ~Stores(r) /\ ~Rotates(r)
       /\ \A u \in Requests : Stores(u)' <=> Stores(u)
       /\ \A u \in Requests \ {r} : Rotates(u)' <=> Rotates(u)
  BY <1>0, <1>7, <1>8 DEF Untouched, Stores, Rotates
<1>12. ASSUME NEW n \in Names \ tangled'
       PROVE  Untangled(n)'
  <2>1. Kept(n) /\ StoredAlone(n) /\ RotatedAsStored(n)
    BY <1>12 DEF SecretsInvariant, Untangled
  <2>2. Kept(n)'
    BY <1>8, <2>1 DEF Kept
  <2>3. RotatedAsStored(n)'
    BY <1>7, <1>8, <2>1 DEF RotatedAsStored, Untouched
  <2>4. \A u \in Requests : Stores(u) /\ call[u].name = n => ScopeOf[n] # c.scope
    BY <1>0, <1>12
  <2>5. StoredAlone(n)'
    BY <1>7, <1>8, <1>11, <2>1, <2>4 DEF StoredAlone, Untouched
  <2> QED  BY <2>2, <2>3, <2>5 DEF Untangled
<1>13. ASSUME NEW q \in Requests, Rotates(q)', q \notin disturbed'
       PROVE  RotatesAlone(q)' /\ RotatesAll(q)'
  <2>1. CASE q = r
    <3>1. /\ \A u \in Requests : Stores(u) => ScopeOf[call[u].name] # c.scope
          /\ \A u \in Requests : Rotates(u) => call[u].scope # c.scope /\ call[u].by # c.by
      BY <1>0, <1>13, <2>1
    <3>2. RotatesAlone(r)'
      BY <1>7, <1>8, <1>11, <3>1 DEF RotatesAlone, Untouched
    <3>3. RotatesAll(r)'
      BY <1>5, <1>8 DEF RotatesAll
    <3> QED  BY <2>1, <3>2, <3>3
  <2>2. CASE q # r
    <3>1. /\ Untouched(q) /\ RotatesAlone(q) /\ RotatesAll(q)
          /\ c.scope # call[q].scope /\ c.by # call[q].by
      BY <1>0, <1>7, <1>11, <1>13, <2>2 DEF SecretsInvariant, UndisturbedSoFar
    <3>2. RotatesAlone(q)'
      BY <1>7, <1>8, <1>11, <2>2, <3>1 DEF RotatesAlone, Untouched
    <3>3. RotatesAll(q)'
      BY <1>8, <3>1 DEF RotatesAll, Untouched
    <3> QED  BY <3>2, <3>3
  <2> QED  BY <2>1, <2>2
<1>14. GoodHolds'
  <2>1. CASE good' = None
    BY <2>1 DEF GoodHolds
  <2>2. CASE good' # None
    <3>1. good' = good /\ good # None /\ good.scope # c.scope /\ good.by # c.by
      BY <2>2
    <3> QED  BY <1>7, <1>8, <1>11, <3>1 DEF SecretsInvariant, GoodHolds, Untouched
  <2> QED  BY <2>1, <2>2
<1> QED  BY <1>6, <1>9, <1>10, <1>12, <1>13, <1>14 DEF SecretsInvariant, UndisturbedSoFar

\* A step of a rotation that has still names to rotate writes no row.
RotationReads(r) ==
    /\ Rotates(r) /\ pc'[r] \in {"get", "select", "update", "failed"}
    /\ \A u \in Requests \ {r} : Untouched(u)
    /\ rows' = rows /\ fernet' = fernet /\ call' = call /\ cipher' = cipher
    /\ latest' = latest /\ tangled' = tangled /\ disturbed' = disturbed /\ good' = good

\* Such a step keeps the invariant if what it now holds in its locals is right.
LEMMA RotationReadsKeeps ==
    ASSUME SecretsInvariant, TypeOK', NEW r \in Requests, RotationReads(r), Calling(r)',
           \A n \in Names \ tangled :
              pc'[r] \in {"select", "update"} /\ Head(todo'[r]) = n
                 => text'[r] = latest[n] \/ latest[n] = None,
           Rotates(r)' /\ r \notin disturbed => RotatesAll(r)'
    PROVE  SecretsInvariant'
<1> USE DEF RotationReads
<1>1. Returned
  BY DEF Returned, Rotates, Untouched
<1>2. \A x \in rows' : IdOf(x.id, x.name)'
  BY <1>1, IdStays DEF SecretsInvariant
<1>3. \A u \in Requests : Calling(u)'
  BY <1>1, UntouchedCalls DEF SecretsInvariant
<1>4. /\ \A u \in Requests : Stores(u)' <=> Stores(u)
      /\ \A u \in Requests : Rotates(u)' => Rotates(u)
      /\ ~Stores(r)
  BY DEF Untouched, Stores, Rotates
<1>5. \A n : RowsOf(n)' = RowsOf(n)
  BY DEF RowsOf
<1>6. ASSUME NEW n \in Names \ tangled
      PROVE  Untangled(n)'
  <2>1. Kept(n) /\ StoredAlone(n) /\ RotatedAsStored(n)
    BY <1>6 DEF SecretsInvariant, Untangled
  <2>2. Kept(n)'
    BY <1>5, <2>1 DEF Kept
  <2>3. RotatedAsStored(n)'
    BY <1>6, <2>1 DEF RotatedAsStored, Untouched
  <2>4. StoredAlone(n)'
    BY <1>4, <1>5, <2>1 DEF StoredAlone, Untouched
  <2> QED  BY <2>2, <2>3, <2>4 DEF Untangled
<1>7. ASSUME NEW q \in Requests, Rotates(q)', q \notin disturbed
      PROVE  RotatesAlone(q)' /\ RotatesAll(q)'
  <2>1. RotatesAlone(q) /\ RotatesAll(q)
    BY <1>4, <1>7 DEF SecretsInvariant, UndisturbedSoFar
  <2>2. RotatesAlone(q)'
    BY <1>4, <2>1 DEF RotatesAlone
  <2>3. q # r => RotatesAll(q)'
    BY <2>1 DEF RotatesAll, Untouched
  <2> QED  BY <1>7, <2>2, <2>3
<1>8. GoodHolds'
  BY <1>4 DEF SecretsInvariant, GoodHolds
<1> QED  BY <1>2, <1>3, <1>6, <1>7, <1>8 DEF SecretsInvariant, UndisturbedSoFar


\* The names of a rotation that goes on to the next one.
LEMMA SkipKeeps ==
    ASSUME SecretsInvariant, NEW r \in Requests, Rotates(r), todo[r] # <<>>
    PROVE  /\ todo[r] \in Seq(Names) /\ Head(todo[r]) \in Names /\ Tail(todo[r]) \in Seq(Names)
           /\ ScopeOf[Head(todo[r])] = call[r].scope
           /\ \A i \in DOMAIN Tail(todo[r]) : ScopeOf[Tail(todo[r])[i]] = call[r].scope
           /\ \A n : (\E j \in DOMAIN todo[r] : todo[r][j] = n) =>
                 n = Head(todo[r]) \/ \E i \in DOMAIN Tail(todo[r]) : Tail(todo[r])[i] = n
<1>1. todo[r] \in Seq(Names)
  BY DEF SecretsInvariant, TypeOK
<1>2. \A i \in DOMAIN todo[r] : ScopeOf[todo[r][i]] = call[r].scope
  BY DEF SecretsInvariant, Calling
<1> QED  BY <1>1, <1>2, HeadAndTail

LEMMA RotateGetsKeeps ==
    ASSUME SecretsInvariant, NEW r \in Requests, RotateGets(r)
    PROVE  SecretsInvariant'
<1> USE DEF RotateGets, Goto, Skip, history
<1>0. /\ TypeOK /\ Calling(r) /\ pc[r] = "get" /\ Rotates(r) /\ todo[r] # <<>>
      /\ call[r] \in Calls /\ call[r].op = "rotate"
  BY DEF SecretsInvariant, Calling, Rotates
<1>a. PICK n0 : n0 = Head(todo[r])
  OBVIOUS
<1>1. /\ n0 \in Names /\ Tail(todo[r]) \in Seq(Names) /\ ScopeOf[n0] = call[r].scope
      /\ \A i \in DOMAIN Tail(todo[r]) : ScopeOf[Tail(todo[r])[i]] = call[r].scope
      /\ \A n : (\E j \in DOMAIN todo[r] : todo[r][j] = n) =>
            n = n0 \/ \E i \in DOMAIN Tail(todo[r]) : Tail(todo[r])[i] = n
  BY <1>0, <1>a, SkipKeeps
<1>2. /\ \A u \in Requests \ {r} : Untouched(u)
      /\ call' = call /\ seen' = seen /\ rows' = rows
  BY <1>0 DEF TypeOK, Untouched
<1>3. UndisturbedSoFar(r)
  BY DEF SecretsInvariant
<1>4. CASE RowsOf(n0) = {} /\ Skip(r) /\ UNCHANGED text
  <2>1. pc'[r] = "get" /\ todo'[r] = Tail(todo[r])
    BY <1>0, <1>4 DEF TypeOK
  <2>2. TypeOK'
    <3>1. todo' \in [Requests -> Seq(Names)]
      BY <1>0, <1>1, <1>4, <1>a DEF TypeOK
    <3>2. pc' \in [Requests -> Places]
      BY <1>0, <1>4 DEF TypeOK, Places
    <3> QED  BY <1>0, <1>4, <3>1, <3>2 DEF TypeOK
  <2>3. RotationReads(r)
    BY <1>0, <1>2, <2>1 DEF RotationReads
  <2>4. Calling(r)'
    BY <1>0, <1>1, <1>2, <2>1 DEF Calling, Stores, Rotates
  <2>5. r \notin disturbed => RotatesAll(r)'
    <3> SUFFICES ASSUME r \notin disturbed, NEW x \in rows, ScopeOf[x.name] = call[r].scope
                 PROVE  \/ x.key = call[r].key
                        \/ \E i \in DOMAIN Tail(todo[r]) : Tail(todo[r])[i] = x.name
      BY <1>2, <2>1 DEF RotatesAll
    <3>1. x.key = call[r].key \/ \E j \in DOMAIN todo[r] : todo[r][j] = x.name
      BY <1>0, <1>3 DEF RotatesAll, UndisturbedSoFar
    <3>2. x.name # n0
      BY <1>4 DEF RowsOf
    <3> QED  BY <1>1, <3>1, <3>2
  <2> QED  BY <2>1, <2>2, <2>3, <2>4, <2>5, RotationReadsKeeps
<1>5. CASE /\ Readable(call[r].by, n0)
           /\ text' = [text EXCEPT ![r] = ValueOf(n0)] /\ Goto(r, "select") /\ UNCHANGED todo
  <2>1. pc'[r] = "select" /\ text'[r] = ValueOf(n0) /\ todo' = todo
    BY <1>0, <1>5 DEF TypeOK
  <2>2. ValueOf(n0) \in Texts
    <3>1. RowsOf(n0) # {}
      BY <1>5, FS_EmptySet, SMTT(30) DEF Readable
    <3>2. (CHOOSE x \in RowsOf(n0) : TRUE) \in RowsOf(n0)
      BY <3>1
    <3> QED  BY <1>0, <3>2 DEF ValueOf, RowsOf, TypeOK
  <2>3. TypeOK'
    BY <1>0, <1>5, <2>2 DEF TypeOK, Places
  <2>4. RotationReads(r)
    BY <1>0, <1>2, <2>1 DEF RotationReads
  <2>5. Calling(r)'
    BY <1>0, <1>2, <2>1, <2>2 DEF Calling, Stores, Rotates
  <2>6. n0 \notin tangled => text'[r] = latest[n0] \/ latest[n0] = None
    <3> SUFFICES ASSUME n0 \notin tangled, latest[n0] # None
                 PROVE  ValueOf(n0) = latest[n0]
      BY <2>1
    <3>1. Kept(n0)
      BY <1>1 DEF SecretsInvariant, Untangled
    <3>2. PICK x \in rows : RowsOf(n0) = {x} /\ x.value = latest[n0]
      BY <3>1 DEF Kept
    <3>3. (CHOOSE y \in RowsOf(n0) : TRUE) \in {x}
      BY <3>2
    <3> QED  BY <3>2, <3>3 DEF ValueOf
  <2>7. r \notin disturbed => RotatesAll(r)'
    BY <1>0, <1>2, <1>3, <2>1 DEF RotatesAll, UndisturbedSoFar
  <2> QED  BY <1>a, <2>1, <2>3, <2>4, <2>5, <2>6, <2>7, RotationReadsKeeps
<1>6. CASE Goto(r, "failed") /\ UNCHANGED <<text, todo>>
  <2>1. pc'[r] = "failed"
    BY <1>0, <1>6 DEF TypeOK
  <2>2. TypeOK'
    BY <1>0, <1>6 DEF TypeOK, Places
  <2>3. RotationReads(r)
    BY <1>0, <1>2, <2>1 DEF RotationReads
  <2>4. Calling(r)' /\ ~Rotates(r)'
    BY <1>0, <1>2, <2>1 DEF Calling, Stores, Rotates
  <2> QED  BY <2>1, <2>2, <2>3, <2>4, RotationReadsKeeps
<1> QED  BY <1>a, <1>4, <1>5, <1>6

LEMMA RotateSelectsKeeps ==
    ASSUME SecretsInvariant, NEW r \in Requests, RotateSelects(r)
    PROVE  SecretsInvariant'
<1> USE DEF RotateSelects, Goto, Skip, history
<1>0. /\ TypeOK /\ Calling(r) /\ pc[r] = "select" /\ Rotates(r) /\ todo[r] # <<>>
      /\ call[r] \in Calls /\ call[r].op = "rotate" /\ text[r] \in Texts
  BY DEF SecretsInvariant, Calling, Rotates
<1>a. PICK n0 : n0 = Head(todo[r])
  OBVIOUS
<1>1. /\ n0 \in Names /\ Tail(todo[r]) \in Seq(Names) /\ ScopeOf[n0] = call[r].scope
      /\ \A i \in DOMAIN Tail(todo[r]) : ScopeOf[Tail(todo[r])[i]] = call[r].scope
      /\ \A n : (\E j \in DOMAIN todo[r] : todo[r][j] = n) =>
            n = n0 \/ \E i \in DOMAIN Tail(todo[r]) : Tail(todo[r])[i] = n
  BY <1>0, <1>a, SkipKeeps
<1>2. /\ \A u \in Requests \ {r} : Untouched(u)
      /\ call' = call /\ rows' = rows /\ text' = text
      /\ seen'[r] = {x.id : x \in RowsOf(n0)} /\ seen'[r] \subseteq Texts
  BY <1>0, <1>a DEF TypeOK, Untouched, RowsOf
<1>3. UndisturbedSoFar(r)
  BY DEF SecretsInvariant
<1>4. seen' \in [Requests -> SUBSET Texts]
  BY <1>0, <1>2 DEF TypeOK
<1>5. CASE RowsOf(n0) = {} /\ Skip(r)
  <2>1. pc'[r] = "get" /\ todo'[r] = Tail(todo[r])
    BY <1>0, <1>5 DEF TypeOK
  <2>2. TypeOK'
    <3>1. todo' \in [Requests -> Seq(Names)]
      BY <1>0, <1>1, <1>5, <1>a DEF TypeOK
    <3>2. pc' \in [Requests -> Places]
      BY <1>0, <1>5 DEF TypeOK, Places
    <3> QED  BY <1>0, <1>4, <1>5, <3>1, <3>2 DEF TypeOK
  <2>3. RotationReads(r)
    BY <1>0, <1>2, <2>1 DEF RotationReads
  <2>4. Calling(r)'
    BY <1>0, <1>1, <1>2, <2>1 DEF Calling, Stores, Rotates
  <2>5. r \notin disturbed => RotatesAll(r)'
    <3> SUFFICES ASSUME r \notin disturbed, NEW x \in rows, ScopeOf[x.name] = call[r].scope
                 PROVE  \/ x.key = call[r].key
                        \/ \E i \in DOMAIN Tail(todo[r]) : Tail(todo[r])[i] = x.name
      BY <1>2, <2>1 DEF RotatesAll
    <3>1. x.key = call[r].key \/ \E j \in DOMAIN todo[r] : todo[r][j] = x.name
      BY <1>0, <1>3 DEF RotatesAll, UndisturbedSoFar
    <3>2. x.name # n0
      BY <1>5 DEF RowsOf
    <3> QED  BY <1>1, <3>1, <3>2
  <2> QED  BY <2>1, <2>2, <2>3, <2>4, <2>5, RotationReadsKeeps
<1>6. CASE Goto(r, "update") /\ UNCHANGED todo
  <2>1. pc'[r] = "update" /\ todo' = todo
    BY <1>0, <1>6 DEF TypeOK
  <2>2. TypeOK'
    BY <1>0, <1>4, <1>6 DEF TypeOK, Places
  <2>3. RotationReads(r)
    BY <1>0, <1>2, <2>1 DEF RotationReads
  <2>4. Calling(r)'
    <3>1. \A x \in rows : x.name = n0 => IdOf(x.id, n0)
      BY DEF SecretsInvariant
    <3>2. \A i \in seen'[r] : IdOf(i, n0)
      BY <1>2, <3>1 DEF RowsOf
    <3>3. \A i \in seen'[r] : IdOf(i, Head(todo[r]))'
      BY <1>0, <1>2, <1>a, <2>1, <3>2 DEF IdOf, Untouched
    <3> QED  BY <1>0, <1>2, <2>1, <3>3 DEF Calling, Stores, Rotates
  <2>5. \A n \in Names \ tangled : Head(todo'[r]) = n => text'[r] = latest[n] \/ latest[n] = None
    BY <1>0, <1>2, <2>1 DEF SecretsInvariant, Untangled, RotatedAsStored
  <2>6. r \notin disturbed => RotatesAll(r)'
    BY <1>0, <1>a, <1>2, <1>3, <2>1 DEF RotatesAll, UndisturbedSoFar, RowsOf
  <2> QED  BY <2>1, <2>2, <2>3, <2>4, <2>5, <2>6, RotationReadsKeeps
<1>7. CASE Goto(r, "failed") /\ UNCHANGED todo
  <2>1. pc'[r] = "failed"
    BY <1>0, <1>7 DEF TypeOK
  <2>2. TypeOK'
    BY <1>0, <1>4, <1>7 DEF TypeOK, Places
  <2>3. RotationReads(r)
    BY <1>0, <1>2, <2>1 DEF RotationReads
  <2>4. Calling(r)' /\ ~Rotates(r)'
    BY <1>0, <1>2, <2>1 DEF Calling, Stores, Rotates
  <2> QED  BY <2>1, <2>2, <2>3, <2>4, RotationReadsKeeps
<1> QED  BY <1>a, <1>5, <1>6, <1>7


LEMMA RotateUpdatesKeeps ==
    ASSUME SecretsInvariant, NEW r \in Requests, RotateUpdates(r)
    PROVE  SecretsInvariant'
<1> USE DEF RotateUpdates, Goto, Skip, history
<1>0. /\ TypeOK /\ Calling(r) /\ pc[r] = "update" /\ Rotates(r) /\ todo[r] # <<>>
      /\ call[r] \in Calls /\ call[r].op = "rotate" /\ call[r].key \in Keys
      /\ text[r] \in Texts
  BY KindsOfRequest DEF SecretsInvariant, Calling, Rotates
<1>a. PICK n0 : n0 = Head(todo[r])
  OBVIOUS
<1>1. /\ n0 \in Names /\ Tail(todo[r]) \in Seq(Names) /\ ScopeOf[n0] = call[r].scope
      /\ \A i \in DOMAIN Tail(todo[r]) : ScopeOf[Tail(todo[r])[i]] = call[r].scope
      /\ \A n : (\E j \in DOMAIN todo[r] : todo[r][j] = n) =>
            n = n0 \/ \E i \in DOMAIN Tail(todo[r]) : Tail(todo[r])[i] = n
      /\ \A i \in seen[r] : IdOf(i, n0)
  BY <1>0, <1>a, SkipKeeps DEF Calling
<1>2. /\ \A u \in Requests \ {r} : Untouched(u)
      /\ call' = call /\ text' = text /\ seen' = seen /\ cipher' = cipher
      /\ fernet' = fernet /\ latest' = latest /\ faults' = faults
      /\ tangled' = tangled /\ disturbed' = disturbed /\ good' = good
  BY <1>0 DEF TypeOK, Untouched
<1>3. CASE Goto(r, "failed") /\ UNCHANGED <<rows, todo>>
  <2>1. pc'[r] = "failed"
    BY <1>0, <1>3 DEF TypeOK
  <2>2. TypeOK'
    BY <1>0, <1>3 DEF TypeOK, Places
  <2>3. RotationReads(r)
    BY <1>0, <1>2, <1>3, <2>1 DEF RotationReads
  <2>4. Calling(r)' /\ ~Rotates(r)'
    BY <1>0, <1>2, <2>1 DEF Calling, Stores, Rotates
  <2> QED  BY <2>1, <2>2, <2>3, <2>4, RotationReadsKeeps
<1>4. CASE /\ rows' = {IF x.id \in seen[r]
                       THEN [x EXCEPT !.key = call[r].key, !.value = text[r]]
                       ELSE x : x \in rows}
           /\ Skip(r)
  <2>1. PICK f : f = [x \in rows |-> IF x.id \in seen[r]
                                     THEN [x EXCEPT !.key = call[r].key, !.value = text[r]]
                                     ELSE x]
    OBVIOUS
  <2>2. /\ rows' = {f[x] : x \in rows}
        /\ \A y \in rows' : \E x \in rows : y = f[x]
    BY <1>4, <2>1
  <2> HIDE DEF RotateUpdates, Goto, Skip
  <2>3. ASSUME NEW x \in rows
        PROVE  /\ f[x] \in rows' /\ f[x].id = x.id /\ f[x].name = x.name
               /\ f[x] \in [id : Texts, name : Names, key : Keys, value : Texts]
               /\ x.id \in seen[r] =>
                     f[x].key = call[r].key /\ f[x].value = text[r] /\ x.name = n0
               /\ x.id \notin seen[r] => f[x] = x
    <3>1. x \in [id : Texts, name : Names, key : Keys, value : Texts]
      BY <1>0 DEF TypeOK
    <3>2. x.name # n0 => x.id \notin seen[r]
      BY <1>1, OthersNotSeen
    <3>3. CASE x.id \in seen[r]
      <4>1. f[x] = [x EXCEPT !.key = call[r].key, !.value = text[r]]
        BY <2>1, <3>3
      <4> QED  BY <1>0, <2>2, <3>1, <3>2, <3>3, <4>1
    <3>4. CASE x.id \notin seen[r]
      <4>1. f[x] = x
        BY <2>1, <3>4
      <4> QED  BY <2>2, <3>1, <3>4, <4>1
    <3> QED  BY <3>3, <3>4
  <2>4. pc'[r] = "get" /\ todo'[r] = Tail(todo[r])
    BY <1>0, <1>4 DEF TypeOK, Skip, Goto
  <2>5. TypeOK'
    <3>1. todo' \in [Requests -> Seq(Names)]
      BY <1>0, <1>1, <1>4, <1>a DEF TypeOK, Skip
    <3>2. pc' \in [Requests -> Places]
      BY <1>0, <1>4 DEF TypeOK, Places, Skip, Goto
    <3>3. rows' \subseteq [id : Texts, name : Names, key : Keys, value : Texts]
      BY <2>2, <2>3
    <3>4. IsFiniteSet(rows')
      <4>1. f \in [rows -> rows']
        BY <2>1, <2>3
      <4>2. f \in Surjection(rows, rows')
        BY <2>2, <4>1 DEF Surjection
      <4> QED  BY <1>0, <4>2, FS_Surjection DEF TypeOK
    <3> QED  BY <1>0, <1>2, <3>1, <3>2, <3>3, <3>4 DEF TypeOK
  <2>6. Returned
    BY <1>0, <1>2 DEF Returned, Untouched
  <2>7. \A x \in rows' : IdOf(x.id, x.name)'
    BY <2>2, <2>3, <2>6, IdStays DEF SecretsInvariant
  <2>8. \A u \in Requests : Calling(u)'
    <3>1. Calling(r)'
      BY <1>0, <1>1, <1>2, <2>4 DEF Calling, Stores, Rotates
    <3> QED  BY <1>2, <2>6, <3>1, UntouchedCalls DEF SecretsInvariant
  <2>9. /\ \A u \in Requests : (Stores(u)' <=> Stores(u)) /\ (Rotates(u)' <=> Rotates(u))
        /\ ~Stores(r)
    BY <1>0, <1>2, <2>4 DEF Untouched, Stores, Rotates
  <2>10. \A n : RowsOf(n)' = {f[x] : x \in RowsOf(n)}
    BY <2>2, <2>3 DEF RowsOf
  <2>11. ASSUME NEW n \in Names \ tangled'
         PROVE  Untangled(n)'
    <3>1. Kept(n) /\ StoredAlone(n) /\ RotatedAsStored(n)
      BY <1>2, <2>11 DEF SecretsInvariant, Untangled
    <3>2. Kept(n)'
      <4>1. CASE latest[n] = None
        BY <1>2, <2>10, <3>1, <4>1 DEF Kept
      <4>2. CASE latest[n] # None
        <5>1. PICK x \in rows : RowsOf(n) = {x} /\ x.value = latest[n]
          BY <3>1, <4>2 DEF Kept
        <5>2. x.name = n
          BY <5>1 DEF RowsOf
        <5>3. RowsOf(n)' = {f[x]} /\ f[x] \in rows'
          BY <2>3, <2>10, <5>1
        <5>4. f[x].value = latest[n]
          <6>1. x.id \in seen[r] => text[r] = latest[n]
            BY <1>0, <1>a, <2>3, <3>1, <4>2, <5>2 DEF RotatedAsStored
          <6> QED  BY <2>3, <5>1, <6>1
        <5> QED  BY <1>2, <4>2, <5>3, <5>4 DEF Kept
      <4> QED  BY <4>1, <4>2
    <3>3. RotatedAsStored(n)'
      BY <1>2, <2>4, <3>1 DEF RotatedAsStored, Untouched
    <3>4. {x.id : x \in RowsOf(n)'} = {x.id : x \in RowsOf(n)}
      BY <2>3, <2>10 DEF RowsOf
    <3>5. StoredAlone(n)'
      BY <1>2, <2>9, <3>1, <3>4 DEF StoredAlone, Untouched
    <3> QED  BY <3>2, <3>3, <3>5 DEF Untangled
  <2>12. ASSUME NEW q \in Requests, Rotates(q)', q \notin disturbed'
         PROVE  RotatesAlone(q)' /\ RotatesAll(q)'
    <3>1. Rotates(q) /\ RotatesAlone(q) /\ RotatesAll(q)
      BY <1>2, <2>9, <2>12 DEF SecretsInvariant, UndisturbedSoFar
    <3>2. RotatesAlone(q)'
      BY <1>2, <2>9, <3>1 DEF RotatesAlone
    <3>3. CASE q = r
      <4>1. ASSUME NEW x \in rows, ScopeOf[x.name] = call[r].scope
            PROVE  f[x].key = call[r].key \/ \E i \in DOMAIN Tail(todo[r]) : Tail(todo[r])[i] = x.name
        <5>1. x.name = n0 => x.id \in seen[r]
          BY <1>0, <1>a, <3>1, <3>3, <4>1 DEF RotatesAll
        <5>2. x.key = call[r].key \/ \E j \in DOMAIN todo[r] : todo[r][j] = x.name
          BY <3>1, <3>3, <4>1 DEF RotatesAll
        <5>3. CASE x.name = n0
          BY <2>3, <5>1, <5>3
        <5>4. CASE x.name # n0
          BY <1>1, <2>3, <5>2, <5>4
        <5> QED  BY <5>3, <5>4
      <4>2. \A y \in rows' : ScopeOf[y.name] = call[r].scope =>
               y.key = call[r].key \/ \E i \in DOMAIN Tail(todo[r]) : Tail(todo[r])[i] = y.name
        BY <2>2, <2>3, <4>1
      <4>3. RotatesAll(r)'
        BY <1>2, <2>4, <4>2 DEF RotatesAll
      <4> QED  BY <3>2, <3>3, <4>3
    <3>4. CASE q # r
      <4>1. call[r].scope # call[q].scope /\ Untouched(q)
        BY <1>0, <1>2, <3>1, <3>4 DEF RotatesAlone
      <4>2. \A y \in rows' : ScopeOf[y.name] = call[q].scope => y \in rows
        BY <1>1, <2>2, <2>3, <4>1
      <4>3. RotatesAll(q)'
        BY <1>2, <3>1, <4>1, <4>2 DEF RotatesAll, Untouched
      <4> QED  BY <3>2, <4>3
    <3> QED  BY <3>3, <3>4
  <2>13. GoodHolds'
    <3> SUFFICES ASSUME good # None
                 PROVE  GoodHolds'
      BY <1>2 DEF GoodHolds
    <3>1. call[r].scope # good.scope
      BY <1>0 DEF SecretsInvariant, GoodHolds
    <3>2. \A y \in rows' : ScopeOf[y.name] = good.scope => y \in rows
      BY <1>1, <2>2, <2>3, <3>1
    <3> QED  BY <1>2, <2>9, <3>2 DEF SecretsInvariant, GoodHolds
  <2> QED  BY <2>5, <2>7, <2>8, <2>11, <2>12, <2>13 DEF SecretsInvariant, UndisturbedSoFar
<1> QED  BY <1>3, <1>4

LEMMA RotateReturnsKeeps ==
    ASSUME SecretsInvariant, NEW r \in Requests, RotateReturns(r)
    PROVE  SecretsInvariant'
<1> USE DEF RotateReturns, Goto, locals
<1>0. /\ TypeOK /\ Calling(r) /\ pc[r] = "get" /\ Rotates(r) /\ todo[r] = <<>>
      /\ call[r].op = "rotate" /\ call[r].by \in Managers
      /\ call[r].key \in Keys /\ call[r].scope \in Scopes
      /\ UndisturbedSoFar(r)
  BY KindsOfRequest DEF SecretsInvariant, Calling, Rotates
<1>1. TypeOK'
  <2>1. pc' \in [Requests -> Places]
    BY <1>0 DEF TypeOK, Places
  <2>2. fernet' \in [Managers -> Keys]
    BY <1>0 DEF TypeOK
  <2>3. good' \in [by : Managers, scope : Scopes] \cup {None}
    BY <1>0 DEF TypeOK, Undisturbed
  <2> QED  BY <1>0, <2>1, <2>2, <2>3 DEF TypeOK
<1>2. Returned /\ \A u \in Requests \ {r} : Untouched(u)
  BY <1>0 DEF TypeOK, Returned, Untouched
<1>3. /\ pc'[r] = "done" /\ call' = call /\ rows' = rows /\ latest' = latest
      /\ cipher' = cipher /\ seen' = seen /\ todo' = todo /\ text' = text
      /\ tangled' = tangled /\ disturbed' = disturbed
      /\ fernet'[call[r].by] = call[r].key
      /\ \A m \in Managers \ {call[r].by} : fernet'[m] = fernet[m]
      /\ \A n : RowsOf(n)' = RowsOf(n)
  BY <1>0 DEF TypeOK, RowsOf
<1>4. \A x \in rows' : IdOf(x.id, x.name)'
  BY <1>2, <1>3, IdStays DEF SecretsInvariant
<1>5. \A u \in Requests : Calling(u)'
  <2>1. Calling(r)'
    BY <1>0, <1>3, KindsOfRequest DEF Calling, Stores, Rotates
  <2> QED  BY <1>2, <2>1, UntouchedCalls DEF SecretsInvariant
<1>6. /\ \A u \in Requests : Stores(u)' <=> Stores(u)
      /\ \A u \in Requests \ {r} : Rotates(u)' <=> Rotates(u)
      /\ ~Stores(r) /\ ~Rotates(r)'
  BY <1>0, <1>2, <1>3 DEF Untouched, Stores, Rotates
<1>7. ASSUME NEW n \in Names \ tangled'
      PROVE  Untangled(n)'
  <2>1. Kept(n) /\ StoredAlone(n) /\ RotatedAsStored(n)
    BY <1>3, <1>7 DEF SecretsInvariant, Untangled
  <2>2. Kept(n)'
    BY <1>3, <2>1 DEF Kept
  <2>3. RotatedAsStored(n)'
    BY <1>2, <1>3, <2>1 DEF RotatedAsStored, Untouched
  <2>4. StoredAlone(n)'
    BY <1>2, <1>3, <1>6, <2>1 DEF StoredAlone, Untouched
  <2> QED  BY <2>2, <2>3, <2>4 DEF Untangled
<1>8. ASSUME NEW q \in Requests, Rotates(q)', q \notin disturbed'
      PROVE  RotatesAlone(q)' /\ RotatesAll(q)'
  <2>1. q # r /\ Untouched(q) /\ RotatesAlone(q) /\ RotatesAll(q)
    BY <1>2, <1>3, <1>6, <1>8 DEF SecretsInvariant, UndisturbedSoFar
  <2>2. RotatesAlone(q)'
    BY <1>3, <1>6, <2>1 DEF RotatesAlone
  <2>3. RotatesAll(q)'
    BY <1>3, <2>1 DEF RotatesAll, Untouched
  <2> QED  BY <2>2, <2>3
<1>9. GoodHolds'
  <2>1. CASE r \in disturbed
    <3>1. good' = good
      BY <2>1
    <3>2. good # None => good.by # call[r].by /\ fernet'[good.by] = fernet[good.by]
      <4>1. good # None => good.by \in Managers
        BY <1>0 DEF TypeOK
      <4> QED  BY <1>0, <1>3, <4>1 DEF SecretsInvariant, GoodHolds
    <3> QED  BY <1>3, <1>6, <3>1, <3>2 DEF SecretsInvariant, GoodHolds
  <2>2. CASE r \notin disturbed
    <3>1. good' = [by |-> call[r].by, scope |-> call[r].scope]
      BY <2>2 DEF Undisturbed
    <3>2. RotatesAlone(r) /\ RotatesAll(r)
      BY <1>0, <2>2 DEF UndisturbedSoFar
    <3>3. \A x \in rows : ScopeOf[x.name] = call[r].scope => x.key = call[r].key
      BY <1>0, <3>2 DEF RotatesAll
    <3> QED  BY <1>3, <1>6, <3>1, <3>2, <3>3 DEF RotatesAlone, GoodHolds
  <2> QED  BY <2>1, <2>2
<1> QED  BY <1>1, <1>4, <1>5, <1>7, <1>8, <1>9 DEF SecretsInvariant, UndisturbedSoFar

\* Calls that end with an exception leave the invariant as it is.
LEMMA CutOffKeeps ==
    ASSUME SecretsInvariant, TypeOK',
           UNCHANGED <<rows, call, locals, latest, tangled, disturbed>>,
           \A u \in Requests : pc'[u] = pc[u] \/ (pc'[u] = "failed" /\ u \in InFlight),
           good' = None \/ (good' = good /\ fernet'[good.by] = fernet[good.by])
    PROVE  SecretsInvariant'
<1> USE DEF locals
<1>1. Returned
  BY DEF Returned, InFlight
<1>2. \A x \in rows' : IdOf(x.id, x.name)'
  BY <1>1, IdStays DEF SecretsInvariant
<1>3. ASSUME NEW u \in Requests
      PROVE  Calling(u)'
  <2>1. CASE pc'[u] = pc[u]
    <3>1. Untouched(u)
      BY <2>1 DEF Untouched
    <3> QED  BY <1>1, <3>1, UntouchedCalls DEF SecretsInvariant
  <2>2. CASE pc'[u] = "failed" /\ u \in InFlight
    BY <2>2 DEF SecretsInvariant, Calling, Stores, Rotates, InFlight
  <2> QED  BY <2>1, <2>2
<1>4. \A u \in Requests : (Stores(u)' => Stores(u)) /\ (Rotates(u)' => Rotates(u))
  BY DEF Stores, Rotates
<1>5. \A n : RowsOf(n)' = RowsOf(n)
  BY DEF RowsOf
<1>6. ASSUME NEW n \in Names \ tangled
      PROVE  Untangled(n)'
  <2>1. Kept(n) /\ StoredAlone(n) /\ RotatedAsStored(n)
    BY <1>6 DEF SecretsInvariant, Untangled
  <2>2. Kept(n)'
    BY <1>5, <2>1 DEF Kept
  <2>3. RotatedAsStored(n)'
    BY <2>1 DEF RotatedAsStored
  <2>4. StoredAlone(n)'
    BY <1>4, <1>5, <2>1 DEF StoredAlone
  <2> QED  BY <2>2, <2>3, <2>4 DEF Untangled
<1>7. ASSUME NEW q \in Requests, Rotates(q)', q \notin disturbed
      PROVE  RotatesAlone(q)' /\ RotatesAll(q)'
  <2>1. RotatesAlone(q) /\ RotatesAll(q)
    BY <1>4, <1>7 DEF SecretsInvariant, UndisturbedSoFar
  <2>2. RotatesAlone(q)'
    BY <1>4, <2>1 DEF RotatesAlone
  <2>3. RotatesAll(q)'
    BY <2>1 DEF RotatesAll
  <2> QED  BY <2>2, <2>3
<1>8. GoodHolds'
  BY <1>4 DEF SecretsInvariant, GoodHolds
<1> QED  BY <1>2, <1>3, <1>6, <1>7, <1>8 DEF SecretsInvariant, UndisturbedSoFar

LEMMA FailsKeeps ==
    ASSUME SecretsInvariant, NEW r \in Requests, Fails(r)
    PROVE  SecretsInvariant'
<1> USE DEF Fails, Goto, history
<1>1. TypeOK
  BY DEF SecretsInvariant
<1>2. faults' \in 0 .. MaxFaults
  BY <1>1, SecretsAssumption DEF TypeOK
<1>3. pc' \in [Requests -> Places]
  BY <1>1 DEF TypeOK, Places
<1>4. TypeOK'
  BY <1>1, <1>2, <1>3 DEF TypeOK, locals
<1>5. \A u \in Requests : pc'[u] = pc[u] \/ (pc'[u] = "failed" /\ u \in InFlight)
  BY <1>1 DEF TypeOK
<1> QED  BY <1>4, <1>5, CutOffKeeps

LEMMA RestartKeeps ==
    ASSUME SecretsInvariant, NEW m \in Managers, Restart(m)
    PROVE  SecretsInvariant'
<1> USE DEF Restart
<1>1. TypeOK
  BY DEF SecretsInvariant
<1>2. faults' \in 0 .. MaxFaults
  BY <1>1, SecretsAssumption DEF TypeOK
<1>3. pc' \in [Requests -> Places]
  BY <1>1 DEF TypeOK, Places
<1>4. fernet' \in [Managers -> Keys]
  BY <1>1, SecretsAssumption DEF TypeOK
<1>5. good' = None \/ (good' = good /\ good # None /\ good.by # m) \/ (good' = good /\ good = None)
  OBVIOUS
<1>6. TypeOK'
  BY <1>1, <1>2, <1>3, <1>4, <1>5 DEF TypeOK, locals
<1>7. \A u \in Requests : pc'[u] = pc[u] \/ (pc'[u] = "failed" /\ u \in InFlight)
  OBVIOUS
<1>8. good' = None \/ (good' = good /\ fernet'[good.by] = fernet[good.by])
  BY <1>1, <1>5 DEF TypeOK
<1> QED  BY <1>6, <1>7, <1>8, CutOffKeeps

LEMMA InitEstablishes == Init => SecretsInvariant
<1> SUFFICES ASSUME Init
             PROVE  SecretsInvariant
  OBVIOUS
<1> USE DEF Init
<1>1. PICK f : f = [n \in Names |-> [id |-> n, name |-> n, key |-> Settings, value |-> n]]
  OBVIOUS
<1>2. rows = {f[n] : n \in Names}
  BY <1>1
<1>3. \A n \in Names : /\ f[n] \in [id : Texts, name : Names, key : Keys, value : Texts]
                       /\ f[n].id = n /\ f[n].name = n /\ f[n].value = n /\ f[n].key = Settings
  BY <1>1, SecretsAssumption DEF Texts
<1>4. TypeOK
  <2>1. f \in Surjection(Names, rows)
    BY <1>1, <1>2 DEF Surjection
  <2>2. IsFiniteSet(rows)
    BY <2>1, FS_Surjection, SecretsAssumption
  <2>3. rows \subseteq [id : Texts, name : Names, key : Keys, value : Texts]
    BY <1>2, <1>3
  <2>4. fernet \in [Managers -> Keys] /\ faults \in 0 .. MaxFaults
    BY SecretsAssumption
  <2>5. pc \in [Requests -> Places]
    BY DEF Places
  <2>6. latest \in [Names -> Texts \cup {None}]
    BY DEF Texts
  <2> QED  BY <2>2, <2>3, <2>4, <2>5, <2>6 DEF TypeOK
<1>5. \A x \in rows : IdOf(x.id, x.name)
  BY <1>2, <1>3 DEF IdOf
<1>6. \A r \in Requests : ~Stores(r) /\ ~Rotates(r) /\ Calling(r)
  BY DEF Stores, Rotates, Calling
<1>7. ASSUME NEW n \in Names
      PROVE  Untangled(n)
  <2>1. RowsOf(n) = {f[n]} /\ f[n] \in rows
    BY <1>2, <1>3 DEF RowsOf
  <2>2. latest[n] = n /\ n # None
    BY SecretsAssumption
  <2>3. Kept(n)
    BY <1>3, <2>1, <2>2 DEF Kept
  <2>4. StoredAlone(n) /\ RotatedAsStored(n)
    BY <1>6 DEF StoredAlone, RotatedAsStored
  <2> QED  BY <2>3, <2>4 DEF Untangled
<1>8. GoodHolds
  BY DEF GoodHolds
<1> QED  BY <1>4, <1>5, <1>6, <1>7, <1>8 DEF SecretsInvariant, UndisturbedSoFar

LEMMA NextKeeps == SecretsInvariant /\ [Next]_vars => SecretsInvariant'
<1> SUFFICES ASSUME SecretsInvariant, [Next]_vars
             PROVE  SecretsInvariant'
  OBVIOUS
<1>1. CASE UNCHANGED vars
  <2> USE <1>1 DEF vars, locals, history
  <2>1. TypeOK' /\ GoodHolds'
    BY DEF SecretsInvariant, TypeOK, GoodHolds, Stores, Rotates
  <2>2. \A u \in Requests : pc'[u] = pc[u]
    OBVIOUS
  <2>3. good' = good /\ fernet'[good.by] = fernet[good.by]
    OBVIOUS
  <2> QED  BY <2>1, <2>2, <2>3, CutOffKeeps
<1>2. ASSUME NEW r \in Requests, NEW c \in Calls,
             StartStore(r, c) \/ Delete(r, c) \/ StartRotate(r, c)
      PROVE  SecretsInvariant'
  BY <1>2, StartStoreKeeps, DeleteKeeps, StartRotateKeeps
<1>3. ASSUME NEW r \in Requests,
             \/ StoreDeletes(r) \/ StoreCommits(r)
             \/ RotateGets(r) \/ RotateSelects(r) \/ RotateUpdates(r) \/ RotateReturns(r)
             \/ Fails(r)
      PROVE  SecretsInvariant'
  BY <1>3, StoreDeletesKeeps, StoreCommitsKeeps, RotateGetsKeeps, RotateSelectsKeeps,
     RotateUpdatesKeeps, RotateReturnsKeeps, FailsKeeps
<1>4. ASSUME NEW m \in Managers, Restart(m)
      PROVE  SecretsInvariant'
  BY <1>4, RestartKeeps
<1> QED  BY <1>1, <1>2, <1>3, <1>4 DEF Next

-----------------------------------------------------------------------------
(* The theorems.                                                            *)

\* Of every behaviour of the secrets manager the invariant holds in every state.
THEOREM SecretsInvariance == Spec => []SecretsInvariant
BY InitEstablishes, NextKeeps, PTL DEF Spec

\* Every variable keeps its type; a request holds the locals of where it is.
THEOREM SecretsTypeCorrect == Spec => []TypeOK
<1>1. SecretsInvariant => TypeOK
  BY DEF SecretsInvariant
<1> QED  BY <1>1, SecretsInvariance, PTL

\* A name that no store shared with another write has one row, with the value last
\* stored, or none after a deletion, whatever rotated, failed or was cut off
\* (store_secret, delete_secret, rotate_master_key).
THEOREM ValuesNeverLost == Spec => []NoValueLost
<1>1. SecretsInvariant => NoValueLost
  <2> SUFFICES ASSUME SecretsInvariant, NEW n \in Names \ tangled
               PROVE  IF latest[n] = None THEN RowsOf(n) = {}
                      ELSE Cardinality(RowsOf(n)) = 1 /\ ValueOf(n) = latest[n]
    BY DEF NoValueLost
  <2>1. Kept(n)
    BY DEF SecretsInvariant, Untangled
  <2>2. CASE latest[n] = None
    BY <2>1, <2>2 DEF Kept
  <2>3. CASE latest[n] # None
    <3>1. PICK x \in rows : RowsOf(n) = {x} /\ x.value = latest[n]
      BY <2>1, <2>3 DEF Kept
    <3>2. Cardinality(RowsOf(n)) = 1
      BY <3>1, FS_Singleton
    <3>3. (CHOOSE y \in RowsOf(n) : TRUE) = x
      BY <3>1
    <3> QED  BY <2>3, <3>1, <3>2, <3>3 DEF ValueOf
  <2> QED  BY <2>2, <2>3
<1> QED  BY <1>1, SecretsInvariance, PTL

\* What a rotation that nothing disturbed re-encrypted stays readable to its process
\* (rotate_master_key sets its new key last), with what it stores there later.
THEOREM RotatedStaysReadable == Spec => []RotationReadable
<1>1. SecretsInvariant => RotationReadable
  BY DEF SecretsInvariant, GoodHolds, RotationReadable
<1> QED  BY <1>1, SecretsInvariance, PTL

=============================================================================
