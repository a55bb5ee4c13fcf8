----------------------------- MODULE AgentRunProofs -----------------------------
(***************************************************************************)
(* That only the work of runs whose answers named nothing out of scope is  *)
(* ever in a file, and that the work of a successful run is lost in the    *)
(* ways of WorkIsKept and no other, for any checkout, names, agents, runs, *)
(* caps and faults.                                                        *)
(*                                                                         *)
(* A run writes into a file what it was shown of it, which may be old.     *)
(* The invariant says of every run in flight what it will find missing:    *)
(* of another run's work it was shown the file with it, or it has not seen *)
(* the file, or it has met a run that opened the file, or the     *)
(* work was lost before for a reason that stays.                           *)
(***************************************************************************)
EXTENDS AgentRunProperties, FiniteSetTheorems, WellFoundedInduction, TLAPS

Places == {"new", "asking", "writing", "successful", "unsuccessful", "raised", "killed"}
Held == (SUBSET Runs) \cup {None}
BuiltAgents == [type : Agents, writes : SUBSET Names, reads : [Files -> SUBSET Nat]]

TypeOK ==
    /\ disk \in [Files -> Held]
    /\ pc \in [Runs -> Places]
    /\ agent \in [Runs -> BuiltAgents]
    /\ shown \in [Runs -> [Files -> Held]]
    /\ unread \in [Runs -> SUBSET Files]
    /\ answer \in [Runs -> SUBSET Names] /\ toWrite \in [Runs -> SUBSET Names]
    /\ opened \in [Runs -> Names \cup {None}] /\ begun \in [Runs -> SUBSET Files]
    /\ met \subseteq SUBSET Runs
    /\ faults \in 0..MaxFaults

Flying(r) == pc[r] \in {"asking", "writing"}

\* How far a run has come with its files.
Progress(r) ==
    /\ pc[r] \in {"new", "asking", "unsuccessful"} => begun[r] = {} /\ opened[r] = None
    /\ pc[r] \in {"new", "asking"} => answer[r] = {}
    /\ pc[r] = "writing" =>
          /\ answer[r] \subseteq agent[r].writes /\ toWrite[r] \subseteq answer[r]
          /\ opened[r] # None => opened[r] \in toWrite[r]
    /\ pc[r] = "successful" => toWrite[r] = {} /\ opened[r] = None
    /\ opened[r] # None => FileOf[opened[r]] \in begun[r]
    /\ \A f \in begun[r] : disk[f] # None

\* The work of r may be in f.
MayHold(f, r) ==
    /\ \E n \in answer[r] : FileOf[n] = f
    /\ answer[r] \subseteq agent[r].writes
    /\ pc[r] \notin {"new", "asking"}

HoldsScope ==
    \A f \in Files, r \in Runs :
        /\ disk[f] # None /\ r \in disk[f] => MayHold(f, r)
        /\ \A q \in Runs : shown[q][f] # None /\ r \in shown[q][f] => MayHold(f, r)

\* Two runs in flight have met.
AllMet == \A r, q \in Runs : Flying(r) /\ Flying(q) /\ r # q => {r, q} \in met

\* The run has written the file, under all the names it has for it, and has not failed
\* since.
Wrote(r, f) ==
    /\ pc[r] \in {"writing", "successful"}
    /\ \E n \in answer[r] : FileOf[n] = f
    /\ \A n \in toWrite[r] : FileOf[n] # f

\* Why work that is not in the file was lost.
Excused(r, f) ==
    \/ Contended(f)
    \/ \E q \in Runs \ {r} : f \in begun[q] /\ (OpenIn(q, f) \/ Unseen(q, f))

\* Why what q will write of the file may lack the work of r.
Excusable(q, r, f) ==
    \/ shown[q][f] # None /\ r \in shown[q][f]
    \/ Unseen(q, f)
    \/ Contended(f)
    \/ \E p \in Runs \ {q} : f \in begun[p] /\ {q, p} \in met
    \/ \E p \in Runs \ {r} :
          /\ f \in begun[p]
          /\ Unseen(p, f) \/ (OpenIn(p, f) /\ pc[p] \in {"raised", "killed"})

WorkIsAccounted ==
    \A r \in Runs, f \in Files : Wrote(r, f) =>
        /\ f \in begun[r]
        /\ r \in disk[f] \/ Excused(r, f)
        /\ \A q \in Runs \ {r} : Flying(q) => Excusable(q, r, f)

RunInvariant ==
    /\ TypeOK
    /\ \A r \in Runs : Progress(r)
    /\ HoldsScope
    /\ AllMet
    /\ WorkIsAccounted

-----------------------------------------------------------------------------
(* Contracts, and the cap on the files that are read.                       *)

LEMMA LeastNatural ==
    ASSUME NEW T \in SUBSET Nat, T # {}
    PROVE  \E m \in T : \A k \in T : m <= k
<1> DEFINE R == OpToRel(<, Nat)
<1>1. \A a, b \in Nat : a < b => <<a, b>> \in R
  BY DEF OpToRel
<1>2. IsWellFoundedOn(R, Nat)
  BY NatLessThanWellFounded
<1> HIDE DEF R
<1>3. T \subseteq Nat
  OBVIOUS
<1>4. \E m \in T : \A k \in T : ~(<<k, m>> \in R)
  BY ONLY <1>2, <1>3, T # {}, WFMin
<1>5. PICK m \in T : \A k \in T : ~(<<k, m>> \in R)
  BY <1>4
<1>6. ASSUME NEW k \in T  PROVE m <= k
  <2>1. k \in Nat /\ m \in Nat /\ ~(<<k, m>> \in R)
    BY <1>3, <1>5
  <2>2. ~(k < m)
    BY <1>1, <2>1
  <2> QED  BY <2>1, <2>2
<1> QED  BY <1>6

LEMMA FirstIsLeast ==
    ASSUME NEW T \in SUBSET Nat, T # {}
    PROVE  First(T) \in T /\ First(T) \in Nat
<1>1. \E m \in T : \A k \in T : m <= k
  BY LeastNatural
<1> QED  BY <1>1 DEF First

LEMMA ContractIsSequence ==
    ASSUME NEW a \in Agents
    PROVE  \E n \in Nat : DOMAIN Contract(a, Targets) = 1..n
<1>1. CASE a = "architect"
  BY <1>1 DEF Contract, Architect
<1>2. CASE a = "backend"
  BY <1>2 DEF Contract, Backend
<1>3. CASE a = "frontend"
  BY <1>3, SMTT(30) DEF Contract, Frontend
<1>4. CASE a = "infra"
  BY <1>4 DEF Contract, Infra
<1>5. CASE a = "qa"
  BY <1>5, SMTT(30) DEF Contract, Qa
<1>6. CASE a = "security"
  BY <1>6 DEF Contract, Security
<1>7. CASE a = "docs"
  BY <1>7 DEF Contract, DocsAgent
<1>8. CASE a = "refactor"
  <2>1. Contract(a, Targets) = Refactor(Targets)
    BY <1>8 DEF Contract
  <2>2. CASE Targets = <<>>
    BY <2>1, <2>2 DEF Refactor
  <2>3. CASE Targets # <<>>
    <3> DEFINE tests == [i \in DOMAIN Targets |->
                  Pat(<<"tests", "**", "test_" \o NameOf(Targets[i])>>,
                      SelectSeq(Targets[i].exts, LAMBDA e : e # "py") \o <<"py">>)]
               S == [segs : Seq(STRING), exts : Seq(STRING)]
               U == S \cup {tests[i] : i \in DOMAIN Targets}
    <3>1. Targets \in Seq(S) /\ Len(Targets) \in Nat /\ DOMAIN Targets = 1..Len(Targets)
      BY RunAssumption
    <3>2. tests \in [1..Len(Targets) -> U]
      BY <3>1
    <3>3. Refactor(Targets) = Targets \o tests
      BY <2>3 DEF Refactor
    <3> HIDE DEF tests, S
    <3>4. tests \in Seq(U)
      BY <3>1, <3>2
    <3>5. Targets \in Seq(U)
      BY <3>1
    <3> HIDE DEF U
    <3>6. Targets \o tests \in Seq(U)
      BY <3>4, <3>5
    <3>7. DOMAIN (Targets \o tests) = 1..Len(Targets \o tests) /\ Len(Targets \o tests) \in Nat
      BY <3>6
    <3> QED  BY <2>1, <3>3, <3>7
  <2> QED  BY <2>2, <2>3
<1> QED  BY <1>1, <1>2, <1>3, <1>4, <1>5, <1>6, <1>7, <1>8 DEF Agents

LEMMA BuiltType ==
    ASSUME NEW a \in Agents
    PROVE  Built(a) \in BuiltAgents
<1>1. PICK n \in Nat : DOMAIN Contract(a, Targets) = 1..n
  BY ContractIsSequence
<1>2. \A path : ReadBy(Contract(a, Targets), path) \in SUBSET Nat
  BY <1>1 DEF ReadBy
<1>3. [f \in Files |-> ReadBy(Contract(a, Targets), Paths[f])] \in [Files -> SUBSET Nat]
  BY <1>2
<1> QED  BY <1>3 DEF Built, BuiltAgents

LEMMA FilesAreFinite == IsFiniteSet(Files) /\ Files \subseteq Nat
<1>1. IsFiniteSet(Names) /\ Names \subseteq Nat
  BY RunAssumption, FS_Interval
<1>2. Files \in SUBSET Names
  BY DEF Files
<1> QED  BY <1>1, <1>2, FS_Subset

\* A name is of a file.
LEMMA NamesAreOfFiles ==
    /\ \A n \in Names : FileOf[n] \in Files
    /\ Files \subseteq Names /\ None \notin Names /\ None \notin Files
    /\ \A f \in Files : FileOf[f] = f
BY RunAssumption DEF Files

\* When a file that patterns found is not loaded the cap has been reached.  The files
\* that come before a file count it off: no two matched files have the same count, so
\* that the matched files have every count there is, and those below the cap are loaded.
LEMMA CapReached ==
    ASSUME NEW a \in BuiltAgents, NEW bad, NEW broken, NEW f \in Files,
           Found(a, bad, broken, f) # {}, f \notin Loaded(a, bad, broken)
    PROVE  Cardinality(Loaded(a, bad, broken)) = MaxFiles
<1> DEFINE matched == {g \in Files : Found(a, bad, broken, g) # {}}
           At(g) == First(Found(a, bad, broken, g))
           Before(g) == {h \in matched : At(h) < At(g) \/ (At(h) = At(g) /\ h < g)}
           n == Cardinality(matched)
           count == [g \in matched |-> Cardinality(Before(g))]
<1>1. Loaded(a, bad, broken) = {g \in matched : Cardinality(Before(g)) < MaxFiles}
  BY DEF Loaded
<1>2. /\ \A g \in matched : g \in Nat /\ At(g) \in Nat
      /\ f \in matched /\ matched \in SUBSET Files
  <2>1. ASSUME NEW g \in matched  PROVE At(g) \in Nat
    <3>1. Found(a, bad, broken, g) \in SUBSET Nat
      BY DEF Found, BuiltAgents
    <3> QED  BY <3>1, FirstIsLeast
  <2> HIDE DEF At
  <2> QED  BY <2>1, FilesAreFinite
<1> HIDE DEF At
<1>3. IsFiniteSet(matched) /\ n \in Nat
  <2>1. IsFiniteSet(matched)
    BY <1>2, FilesAreFinite, FS_Subset
  <2> QED  BY <2>1, FS_CardinalityType
<1>4. ASSUME NEW g \in matched
      PROVE  /\ IsFiniteSet(Before(g))
             /\ Cardinality(Before(g)) \in Nat /\ Cardinality(Before(g)) \in 0 .. (n - 1)
  <2>1. Before(g) \in SUBSET (matched \ {g})
    BY <1>2
  <2>2. IsFiniteSet(matched \ {g}) /\ Cardinality(matched \ {g}) = n - 1
    BY <1>3, FS_RemoveElement
  <2> HIDE DEF matched, Before
  <2>3. IsFiniteSet(Before(g)) /\ Cardinality(Before(g)) <= n - 1
    BY <2>1, <2>2, FS_Subset
  <2>4. Cardinality(Before(g)) \in Nat
    BY <2>3, FS_CardinalityType
  <2> QED  BY <1>3, <2>3, <2>4
<1>5. ASSUME NEW g \in matched, NEW h \in matched, g # h
      PROVE  count[g] # count[h]
  <2>1. ASSUME NEW x \in matched, NEW y \in matched, x \in Before(y)
        PROVE  Cardinality(Before(x)) < Cardinality(Before(y))
    <3>1. Before(x) \in SUBSET Before(y) /\ x \notin Before(x)
      BY <1>2, <2>1
    <3>2. Before(x) # Before(y)
      BY <2>1, <3>1
    <3> HIDE DEF Before, matched
    <3>3. IsFiniteSet(Before(y)) /\ Cardinality(Before(y)) \in Nat
      BY <1>4
    <3>4. Cardinality(Before(x)) \in Nat
      BY <1>4
    <3>5. /\ Cardinality(Before(x)) <= Cardinality(Before(y))
          /\ Cardinality(Before(y)) # Cardinality(Before(x))
      BY <3>1, <3>2, <3>3, FS_Subset
    <3> QED  BY <3>3, <3>4, <3>5
  <2>2. g \in Before(h) \/ h \in Before(g)
    BY <1>2, <1>5
  <2> HIDE DEF Before, matched
  <2>3. Cardinality(Before(g)) \in Nat /\ Cardinality(Before(h)) \in Nat
    BY <1>4
  <2> QED  BY <2>1, <2>2, <2>3
<1> HIDE DEF matched, Before
<1>6. count \in Surjection(matched, 0 .. (n - 1))
  <2>1. count \in [matched -> 0 .. (n - 1)]
    BY <1>4
  <2>2. count \in Injection(matched, 0 .. (n - 1))
    BY <1>5, <2>1 DEF Injection, IsInjective
  <2>3. IsFiniteSet(0 .. (n - 1)) /\ Cardinality(0 .. (n - 1)) = n
    BY <1>3, FS_Interval, SMTT(30)
  <2> QED  BY <2>2, <2>3, FS_Injection
<1>7. MaxFiles \in Nat /\ MaxFiles < n
  <2>1. Cardinality(Before(f)) \in 0 .. (n - 1) /\ ~(Cardinality(Before(f)) < MaxFiles)
    BY <1>1, <1>2, <1>4
  <2> QED  BY <1>3, <2>1, RunAssumption
<1>8. [g \in Loaded(a, bad, broken) |-> count[g]]
         \in Bijection(Loaded(a, bad, broken), 0 .. (MaxFiles - 1))
  <2> DEFINE low == [g \in Loaded(a, bad, broken) |-> count[g]]
  <2>1. \A g \in Loaded(a, bad, broken) : g \in matched /\ count[g] \in 0 .. (MaxFiles - 1)
    BY <1>1, <1>4, <1>7
  <2>2. low \in Injection(Loaded(a, bad, broken), 0 .. (MaxFiles - 1))
    BY <1>5, <2>1 DEF Injection, IsInjective
  <2>3. ASSUME NEW k \in 0 .. (MaxFiles - 1)
        PROVE  \E g \in Loaded(a, bad, broken) : low[g] = k
    <3>1. k \in 0 .. (n - 1)
      BY <1>3, <1>7
    <3>2. PICK g \in matched : count[g] = k
      BY <1>6, <3>1 DEF Surjection
    <3>3. Cardinality(Before(g)) < MaxFiles
      BY <1>7, <3>2
    <3> QED  BY <1>1, <3>2, <3>3
  <2>4. low \in Surjection(Loaded(a, bad, broken), 0 .. (MaxFiles - 1))
    BY <2>1, <2>3 DEF Surjection
  <2> QED  BY <2>2, <2>4 DEF Bijection
<1>9. IsFiniteSet(0 .. (MaxFiles - 1)) /\ Cardinality(0 .. (MaxFiles - 1)) = MaxFiles
  BY <1>7, FS_Interval, SMTT(30)
<1>10. IsFiniteSet(Loaded(a, bad, broken))
  <2>1. Loaded(a, bad, broken) \in SUBSET matched
    BY <1>1
  <2> QED  BY <1>3, <2>1, FS_Subset
<1> QED  BY <1>8, <1>9, <1>10, FS_Bijection DEF ExistsBijection

-----------------------------------------------------------------------------
(* What a step leaves as it was.                                            *)

\* What a run was shown, failed to read and answered counts for what it has not seen.
LEMMA UnseenStays ==
    ASSUME NEW q \in Runs, NEW f \in Files, agent' = agent, shown'[q] = shown[q],
           unread'[q] = unread[q], answer[q] \subseteq answer'[q], Unseen(q, f)
    PROVE  Unseen(q, f)'
<1>1. {g \in Files : shown'[q][g] # None} = {g \in Files : shown[q][g] # None}
  OBVIOUS
<1> QED  BY <1>1 DEF Unseen

LEMMA ContendedStays ==
    ASSUME TypeOK, NEW f \in Files, met \subseteq met',
           \A p \in Runs : begun[p] \subseteq begun'[p]
    PROVE  Contended(f) => Contended(f)'
BY DEF Contended, TypeOK

\* A run that stops where it is.
LEMMA StopsKeeps ==
    ASSUME RunInvariant, NEW r \in Runs, NEW p \in {"raised", "killed"}, Flying(r),
           pc' = [pc EXCEPT ![r] = p], faults' \in 0..MaxFaults,
           UNCHANGED <<disk, agent, shown, unread, answer, toWrite, opened, begun, met>>
    PROVE  RunInvariant'
<1>1. TypeOK
  BY DEF RunInvariant
<1>2. TypeOK'
  <2>1. pc' \in [Runs -> Places]
    BY <1>1 DEF TypeOK, Places
  <2> QED  BY <1>1, <2>1 DEF TypeOK
<1>3. /\ pc'[r] \in {"raised", "killed"} /\ pc[r] \in {"asking", "writing"}
      /\ \A q \in Runs : q # r => pc'[q] = pc[q]
  BY <1>1 DEF TypeOK, Flying
<1>4. ASSUME NEW q \in Runs  PROVE Progress(q)'
  BY <1>3 DEF RunInvariant, Progress
<1>5. HoldsScope'
  <2>1. ASSUME NEW f \in Files, NEW q \in Runs, MayHold(f, q)  PROVE MayHold(f, q)'
    BY <1>3, <2>1 DEF MayHold
  <2> QED  BY <2>1 DEF RunInvariant, HoldsScope
<1>6. \A q \in Runs : Flying(q)' => Flying(q)
  BY <1>3 DEF Flying
<1>7. AllMet'
  BY <1>6 DEF RunInvariant, AllMet
<1>8. ASSUME NEW q \in Runs, NEW f \in Files, Wrote(q, f)'
      PROVE  /\ f \in begun'[q]
             /\ q \in disk'[f] \/ Excused(q, f)'
             /\ \A p2 \in Runs \ {q} : Flying(p2)' => Excusable(p2, q, f)'
  <2>1. Wrote(q, f)
    BY <1>3, <1>8 DEF Wrote
  <2>2. \A p2 \in Runs : Unseen(p2, f) => Unseen(p2, f)'
    BY UnseenStays
  <2>3. Contended(f) => Contended(f)'
    BY <1>1, ContendedStays
  <2>4. Excused(q, f) => Excused(q, f)'
    BY <2>2, <2>3 DEF Excused, OpenIn
  <2>5. ASSUME NEW p2 \in Runs, Excusable(p2, q, f)  PROVE Excusable(p2, q, f)'
    BY <1>3, <2>2, <2>3, <2>5 DEF Excusable, OpenIn
  <2> QED  BY <1>6, <2>1, <2>4, <2>5 DEF RunInvariant, WorkIsAccounted
<1> QED  BY <1>2, <1>4, <1>5, <1>7, <1>8 DEF RunInvariant, WorkIsAccounted

LEMMA ModelFailsKeeps ==
    ASSUME RunInvariant, NEW r \in Runs, ModelFails(r)
    PROVE  RunInvariant'
BY StopsKeeps DEF ModelFails, Flying, RunInvariant, TypeOK

LEMMA WriteFailsKeeps ==
    ASSUME RunInvariant, NEW r \in Runs, WriteFails(r)
    PROVE  RunInvariant'
<1>1. faults' \in 0..MaxFaults
  BY RunAssumption DEF WriteFails, RunInvariant, TypeOK
<1> QED  BY <1>1, StopsKeeps DEF WriteFails, Flying

LEMMA KilledKeeps ==
    ASSUME RunInvariant, NEW r \in Runs, Killed(r)
    PROVE  RunInvariant'
<1>1. faults' \in 0..MaxFaults
  BY RunAssumption DEF Killed, RunInvariant, TypeOK
<1> QED  BY <1>1, StopsKeeps DEF Killed, InFlight, Flying

-----------------------------------------------------------------------------
(* The model is asked, and answers.                                         *)

LEMMA AnswersKeeps ==
    ASSUME RunInvariant, NEW r \in Runs, NEW names \in SUBSET Names, Answers(r, names)
    PROVE  RunInvariant'
<1>1. TypeOK
  BY DEF RunInvariant
<1>2. TypeOK'
  <2>1. answer' \in [Runs -> SUBSET Names] /\ toWrite' \in [Runs -> SUBSET Names]
    BY <1>1 DEF TypeOK, Answers
  <2>2. pc' \in [Runs -> Places]
    BY <1>1 DEF TypeOK, Answers, Places
  <2> QED  BY <1>1, <2>1, <2>2 DEF TypeOK, Answers
<1>3. /\ pc[r] = "asking" /\ pc'[r] \in {"writing", "unsuccessful"} /\ answer'[r] = names
      /\ answer[r] = {}
      /\ pc'[r] = "writing" => names \subseteq agent[r].writes /\ toWrite'[r] = names
      /\ \A q \in Runs : q # r =>
            pc'[q] = pc[q] /\ answer'[q] = answer[q] /\ toWrite'[q] = toWrite[q]
      /\ UNCHANGED <<disk, agent, shown, unread, opened, begun, met>>
  BY <1>1 DEF TypeOK, Answers, RunInvariant, Progress
<1>4. ASSUME NEW q \in Runs  PROVE Progress(q)'
  BY <1>3 DEF RunInvariant, Progress
<1>5. HoldsScope'
  <2>1. ASSUME NEW f \in Files, NEW q \in Runs, MayHold(f, q)  PROVE MayHold(f, q)'
    BY <1>3, <2>1 DEF MayHold
  <2> QED  BY <1>3, <2>1 DEF RunInvariant, HoldsScope
<1>6. \A q \in Runs : Flying(q)' => Flying(q)
  BY <1>3 DEF Flying
<1>7. AllMet'
  BY <1>3, <1>6 DEF RunInvariant, AllMet
<1>8. ASSUME NEW q \in Runs, NEW f \in Files, Wrote(q, f)'
      PROVE  /\ f \in begun'[q]
             /\ q \in disk'[f] \/ Excused(q, f)'
             /\ \A p \in Runs \ {q} : Flying(p)' => Excusable(p, q, f)'
  <2>1. Wrote(q, f)
    BY <1>3, <1>8 DEF Wrote
  <2>2. \A p \in Runs : Unseen(p, f) => Unseen(p, f)'
    BY <1>3, UnseenStays
  <2>3. Contended(f) => Contended(f)'
    BY <1>1, <1>3, ContendedStays
  <2>4. Excused(q, f) => Excused(q, f)'
    BY <1>3, <2>2, <2>3 DEF Excused, OpenIn
  <2>5. ASSUME NEW p \in Runs, Excusable(p, q, f)  PROVE Excusable(p, q, f)'
    BY <1>3, <2>2, <2>3, <2>5 DEF Excusable, OpenIn
  <2> QED  BY <1>3, <1>6, <2>1, <2>4, <2>5 DEF RunInvariant, WorkIsAccounted
<1> QED  BY <1>2, <1>4, <1>5, <1>7, <1>8 DEF RunInvariant, WorkIsAccounted

\* What a run that is about to ask will be shown of a file: the file as it is, unless
\* none of its patterns reads it or finds it, or it is shown as many as it can be.
LEMMA ShownOrUnseen ==
    ASSUME RunInvariant, NEW r \in Runs, NEW bad, NEW broken, Ask(r, bad, broken),
           NEW f \in Files, disk[f] # None
    PROVE  shown'[r][f] = disk[f] \/ Unseen(r, f)'
<1>1. TypeOK
  BY DEF RunInvariant
<1> DEFINE a == agent[r]
           loaded == Loaded(a, bad, broken)
<1>2. a \in BuiltAgents /\ agent' = agent
  BY <1>1 DEF TypeOK, Ask
<1>3. /\ shown'[r] = [g \in Files |-> IF g \in loaded THEN disk[g] ELSE None]
      /\ unread'[r] = {g \in Files : /\ disk[g] # None /\ a.reads[g] # {}
                                    /\ Found(a, bad, broken, g) = {}}
  BY <1>1 DEF TypeOK, Ask
<1>4. \A g \in loaded : g \in Files /\ disk[g] # None /\ Found(a, bad, broken, g) # {}
  BY DEF Loaded, Found
<1> HIDE DEF loaded
<1>5. CASE f \in loaded
  BY <1>3, <1>5
<1>6. CASE f \notin loaded /\ Found(a, bad, broken, f) = {}
  <2>1. shown'[r][f] = None
    BY <1>3, <1>6
  <2>2. a.reads[f] = {} \/ f \in unread'[r]
    BY <1>3, <1>6
  <2> QED  BY <1>2, <2>1, <2>2 DEF Unseen
<1>7. CASE f \notin loaded /\ Found(a, bad, broken, f) # {}
  <2>1. Cardinality(loaded) = MaxFiles
    BY <1>2, <1>7, CapReached DEF loaded
  <2>2. {g \in Files : shown'[r][g] # None} = loaded
    BY <1>3, <1>4
  <2>3. shown'[r][f] = None
    BY <1>3, <1>7
  <2> QED  BY <2>1, <2>2, <2>3 DEF Unseen
<1> QED  BY <1>5, <1>6, <1>7

\* Work that is not in a file when a run asks was lost to a run that opened the file.
LEMMA AskIsExcused ==
    ASSUME RunInvariant, NEW q \in Runs, NEW bad, NEW broken, Ask(q, bad, broken),
           NEW r \in Runs, r # q, NEW f \in Files, Wrote(r, f)
    PROVE  Excusable(q, r, f)'
<1>1. TypeOK
  BY DEF RunInvariant
<1>2. disk[f] # None /\ (r \in disk[f] \/ Excused(r, f))
  BY DEF RunInvariant, WorkIsAccounted, Progress
<1>3. /\ pc[q] = "new" /\ begun[q] = {} /\ UNCHANGED <<disk, agent, answer, begun, opened>>
      /\ met \subseteq met' /\ \A p \in InFlight : {q, p} \in met'
      /\ \A p \in Runs : p # q =>
            pc'[p] = pc[p] /\ shown'[p] = shown[p] /\ unread'[p] = unread[p]
  BY <1>1 DEF TypeOK, Ask, RunInvariant, Progress
<1>4. CASE r \in disk[f]
  <2>1. shown'[q][f] = disk[f] \/ Unseen(q, f)'
    BY <1>2, ShownOrUnseen
  <2> QED  BY <1>2, <1>4, <2>1 DEF Excusable
<1>5. CASE Contended(f)
  <2>1. Contended(f)'
    BY <1>1, <1>3, <1>5, ContendedStays
  <2> QED  BY <2>1 DEF Excusable
<1>6. ASSUME NEW p \in Runs \ {r}, f \in begun[p], OpenIn(p, f) \/ Unseen(p, f)
      PROVE  Excusable(q, r, f)'
  <2>1. p # q
    BY <1>3, <1>6
  <2>2. CASE Unseen(p, f)
    <3>1. Unseen(p, f)'
      BY <1>3, <2>1, <2>2, UnseenStays
    <3> QED  BY <1>3, <1>6, <3>1 DEF Excusable
  <2>3. CASE OpenIn(p, f) /\ pc[p] = "writing"
    <3>1. {q, p} \in met'
      BY <1>3, <2>3 DEF InFlight
    <3> QED  BY <1>3, <1>6, <2>1, <3>1 DEF Excusable
  <2>4. CASE OpenIn(p, f) /\ pc[p] \in {"raised", "killed"}
    <3>1. OpenIn(p, f)' /\ pc'[p] \in {"raised", "killed"}
      BY <1>3, <2>1, <2>4 DEF OpenIn
    <3> QED  BY <1>3, <1>6, <3>1 DEF Excusable
  <2>5. ASSUME OpenIn(p, f)  PROVE pc[p] \in {"writing", "raised", "killed"}
    <3>1. opened[p] # None /\ pc[p] \in Places
      BY <1>1, <2>5 DEF TypeOK, OpenIn
    <3> QED  BY <3>1 DEF Places, RunInvariant, Progress
  <2> QED  BY <1>6, <2>2, <2>3, <2>4, <2>5
<1> QED  BY <1>2, <1>4, <1>5, <1>6 DEF Excused

LEMMA AskKeeps ==
    ASSUME RunInvariant, NEW q \in Runs, NEW bad, NEW broken, Ask(q, bad, broken)
    PROVE  RunInvariant'
<1>1. TypeOK
  BY DEF RunInvariant
<1> DEFINE loaded == Loaded(agent[q], bad, broken)
<1>2. /\ pc[q] = "new" /\ pc'[q] = "asking" /\ begun[q] = {}
      /\ UNCHANGED <<disk, agent, answer, toWrite, opened, begun>>
      /\ met' = met \cup {{q, p} : p \in InFlight}
      /\ \A p \in Runs : p # q =>
            pc'[p] = pc[p] /\ shown'[p] = shown[p] /\ unread'[p] = unread[p]
      /\ shown'[q] = [f \in Files |-> IF f \in loaded THEN disk[f] ELSE None]
  BY <1>1 DEF TypeOK, Ask, RunInvariant, Progress
<1> HIDE DEF loaded
<1>3. TypeOK'
  <2>1. pc' \in [Runs -> Places]
    BY <1>1 DEF TypeOK, Ask, Places
  <2>2. shown' \in [Runs -> [Files -> Held]]
    <3>1. [f \in Files |-> IF f \in loaded THEN disk[f] ELSE None] \in [Files -> Held]
      <4>1. None \in Held /\ \A f \in Files : disk[f] \in Held
        BY <1>1 DEF TypeOK, Held
      <4> HIDE DEF Held
      <4> QED  BY <4>1
    <3> QED  BY <1>1, <3>1 DEF TypeOK, Ask, loaded
  <2>3. unread' \in [Runs -> SUBSET Files]
    BY <1>1 DEF TypeOK, Ask
  <2>4. met' \subseteq SUBSET Runs
    <3>1. \A p \in InFlight : {q, p} \in SUBSET Runs
      BY DEF InFlight
    <3> QED  BY <1>1, <1>2, <3>1 DEF TypeOK
  <2>5. faults' \in 0..MaxFaults
    BY <1>1, RunAssumption DEF TypeOK, Ask
  <2> QED  BY <1>1, <1>2, <2>1, <2>2, <2>3, <2>4, <2>5 DEF TypeOK
<1>4. ASSUME NEW p \in Runs  PROVE Progress(p)'
  BY <1>2 DEF RunInvariant, Progress
<1>5. HoldsScope'
  <2>1. ASSUME NEW f \in Files, NEW r \in Runs, MayHold(f, r)  PROVE MayHold(f, r)'
    BY <1>2, <2>1 DEF MayHold
  <2>2. ASSUME NEW f \in Files, NEW r \in Runs, NEW p \in Runs,
               shown'[p][f] # None, r \in shown'[p][f]
        PROVE  MayHold(f, r)
    BY <1>2, <2>2 DEF RunInvariant, HoldsScope
  <2> QED  BY <1>2, <2>1, <2>2 DEF RunInvariant, HoldsScope
<1>6. AllMet'
  <2>1. \A p \in Runs : Flying(p)' => p = q \/ p \in InFlight
    BY <1>2 DEF Flying, InFlight
  <2>2. \A p \in InFlight : {q, p} \in met' /\ {p, q} \in met'
    <3>1. \A p \in InFlight : {q, p} \in met' /\ {q, p} = {p, q}
      BY <1>2
    <3> QED  BY <3>1
  <2>3. \A r, p \in InFlight : r # p => {r, p} \in met'
    BY <1>2 DEF RunInvariant, AllMet, Flying, InFlight
  <2> QED  BY <2>1, <2>2, <2>3 DEF AllMet
<1>7. ASSUME NEW r \in Runs, NEW f \in Files, Wrote(r, f)'
      PROVE  /\ f \in begun'[r]
             /\ r \in disk'[f] \/ Excused(r, f)'
             /\ \A p \in Runs \ {r} : Flying(p)' => Excusable(p, r, f)'
  <2>1. Wrote(r, f) /\ r # q
    BY <1>2, <1>7 DEF Wrote
  <2>2. \A p \in Runs : p # q => (Unseen(p, f) => Unseen(p, f)')
    BY <1>2, UnseenStays
  <2>3. Contended(f) => Contended(f)'
    BY <1>1, <1>2, ContendedStays
  <2>4. Excused(r, f) => Excused(r, f)'
    BY <1>2, <2>2, <2>3 DEF Excused, OpenIn
  <2>5. ASSUME NEW p \in Runs, p # q, Excusable(p, r, f)  PROVE Excusable(p, r, f)'
    BY <1>2, <2>2, <2>3, <2>5 DEF Excusable, OpenIn
  <2>6. \A p \in Runs : p # q /\ Flying(p)' => Flying(p)
    BY <1>2 DEF Flying
  <2>7. Excusable(q, r, f)'
    BY <2>1, AskIsExcused
  <2> QED  BY <1>2, <2>1, <2>4, <2>5, <2>6, <2>7 DEF RunInvariant, WorkIsAccounted
<1> QED  BY <1>3, <1>4, <1>5, <1>6, <1>7 DEF RunInvariant, WorkIsAccounted

-----------------------------------------------------------------------------
(* The files are written.                                                   *)

\* Opening a file empties it: the work in it is lost to a run that has opened it.
LEMMA OpenFileKeeps ==
    ASSUME RunInvariant, NEW r \in Runs, NEW n \in Names, OpenFile(r, n)
    PROVE  RunInvariant'
<1>1. TypeOK
  BY DEF RunInvariant
<1>2. PICK f \in Files : f = FileOf[n]
  BY NamesAreOfFiles
<1>3. /\ pc[r] = "writing" /\ opened[r] = None /\ n \in toWrite[r] /\ n # None
      /\ opened'[r] = n /\ begun'[r] = begun[r] \cup {f} /\ disk'[f] = {}
      /\ \A q \in Runs : q # r => opened'[q] = opened[q] /\ begun'[q] = begun[q]
      /\ \A g \in Files : g # f => disk'[g] = disk[g]
      /\ UNCHANGED <<pc, agent, shown, unread, answer, toWrite, met, faults>>
  BY <1>1, <1>2, NamesAreOfFiles DEF TypeOK, OpenFile, IsNext
<1>4. TypeOK'
  <2>1. disk' \in [Files -> Held]
    BY <1>1 DEF TypeOK, OpenFile, Held
  <2>2. opened' \in [Runs -> Names \cup {None}] /\ begun' \in [Runs -> SUBSET Files]
    BY <1>1, <1>2 DEF TypeOK, OpenFile
  <2> QED  BY <1>1, <1>3, <2>1, <2>2 DEF TypeOK
<1>5. disk'[f] # None
  BY <1>3, RunAssumption
<1>6. ASSUME NEW q \in Runs  PROVE Progress(q)'
  <2>1. \A g \in begun[q] : g \in Files /\ disk[g] # None
    BY <1>1 DEF RunInvariant, Progress, TypeOK
  <2>2. \A g \in begun'[q] : g = f \/ g \in begun[q]
    BY <1>3
  <2>3. \A g \in begun'[q] : disk'[g] # None
    BY <1>3, <1>5, <2>1, <2>2
  <2> QED  BY <1>2, <1>3, <2>3 DEF RunInvariant, Progress
<1>7. HoldsScope'
  <2>1. \A g \in Files, q \in Runs : MayHold(g, q)' <=> MayHold(g, q)
    BY <1>3 DEF MayHold
  <2> QED  BY <1>3, <2>1 DEF RunInvariant, HoldsScope
<1>8. AllMet'
  BY <1>3 DEF RunInvariant, AllMet, Flying
<1>9. ASSUME NEW q \in Runs, NEW g \in Files, Wrote(q, g)'
      PROVE  /\ g \in begun'[q]
             /\ q \in disk'[g] \/ Excused(q, g)'
             /\ \A p \in Runs \ {q} : Flying(p)' => Excusable(p, q, g)'
  <2>1. Wrote(q, g) /\ ~(q = r /\ g = f)
    BY <1>2, <1>3, <1>9 DEF Wrote
  <2>2. \A p \in Runs : /\ Unseen(p, g) => Unseen(p, g)'
                        /\ begun[p] \subseteq begun'[p]
    BY <1>3, UnseenStays
  <2>3. Contended(g) => Contended(g)'
    BY <1>1, <1>3, <2>2, ContendedStays
  <2>4. \A p \in Runs : OpenIn(p, g) => OpenIn(p, g)'
    BY <1>3 DEF OpenIn
  <2>5. Excused(q, g) => Excused(q, g)'
    BY <2>2, <2>3, <2>4 DEF Excused
  <2>6. ASSUME NEW p \in Runs, Excusable(p, q, g)  PROVE Excusable(p, q, g)'
    BY <1>3, <2>2, <2>3, <2>4, <2>6 DEF Excusable
  <2>7. q \in disk'[g] \/ Excused(q, g)'
    <3>1. CASE g = f
      <4>1. OpenIn(r, f)'
        BY <1>2, <1>3 DEF OpenIn
      <4> QED  BY <1>3, <2>1, <3>1, <4>1 DEF Excused
    <3>2. CASE g # f
      BY <1>3, <2>1, <2>5, <3>2 DEF RunInvariant, WorkIsAccounted
    <3> QED  BY <3>1, <3>2
  <2>8. \A p \in Runs : Flying(p)' => Flying(p)
    BY <1>3 DEF Flying
  <2> QED  BY <2>1, <2>2, <2>6, <2>7, <2>8 DEF RunInvariant, WorkIsAccounted
<1> QED  BY <1>4, <1>6, <1>7, <1>8, <1>9 DEF RunInvariant, WorkIsAccounted

\* A run writes what it was shown and its own work: what it was not shown was missed,
\* or was written by a run that it met, and then both have opened the file.
LEMMA WriteFileKeeps ==
    ASSUME RunInvariant, NEW r \in Runs, WriteFile(r)
    PROVE  RunInvariant'
<1>1. TypeOK
  BY DEF RunInvariant
<1>2. PICK n \in Names : n = opened[r] /\ n # None
  BY <1>1 DEF TypeOK, WriteFile
<1> DEFINE f == FileOf[n]
           seen == IF ShownAs(r, n) = None THEN {} ELSE ShownAs(r, n)
<1>3. /\ f \in Files
      /\ seen \in SUBSET Runs
      /\ \A q \in seen : shown[r][f] # None /\ q \in shown[r][f]
      /\ n = f /\ shown[r][f] # None => seen = shown[r][f]
  <2>1. f \in Files /\ (n \in Files => n = f)
    BY NamesAreOfFiles
  <2>2. shown[r][f] \in SUBSET Runs \/ shown[r][f] = None
    BY <1>1, <2>1 DEF TypeOK, Held
  <2>3. CASE n \in Files
    BY <2>1, <2>2, <2>3 DEF ShownAs
  <2>4. CASE n \notin Files
    BY <2>1, <2>4 DEF ShownAs
  <2> QED  BY <2>3, <2>4
<1>4. /\ pc[r] = "writing" /\ pc'[r] \in {"writing", "successful"}
      /\ pc'[r] = "successful" => toWrite[r] = {n}
      /\ disk' = [disk EXCEPT ![f] = {r} \cup seen]
      /\ toWrite' = [toWrite EXCEPT ![r] = @ \ {n}]
      /\ opened' = [opened EXCEPT ![r] = None]
      /\ \A q \in Runs : q # r => pc'[q] = pc[q]
      /\ UNCHANGED <<agent, shown, unread, answer, begun, met, faults>>
  BY <1>1, <1>2 DEF TypeOK, WriteFile
<1>5. f \in begun[r] /\ n \in toWrite[r] /\ toWrite[r] \subseteq answer[r]
      /\ answer[r] \subseteq agent[r].writes
  BY <1>2, <1>4 DEF RunInvariant, Progress
<1> HIDE DEF seen, f
<1>6. /\ disk'[f] = {r} \cup seen /\ toWrite'[r] = toWrite[r] \ {n} /\ opened'[r] = None
      /\ \A q \in Runs : q # r => toWrite'[q] = toWrite[q] /\ opened'[q] = opened[q]
      /\ \A g \in Files : g # f => disk'[g] = disk[g]
      /\ disk'[f] # None
  BY <1>1, <1>3, <1>4, RunAssumption DEF TypeOK
<1>7. TypeOK'
  <2>1. pc' \in [Runs -> Places]
    BY <1>1, <1>2 DEF TypeOK, WriteFile, Places
  <2>2. disk' \in [Files -> Held]
    BY <1>1, <1>3, <1>4 DEF TypeOK, Held
  <2>3. toWrite' \in [Runs -> SUBSET Names] /\ opened' \in [Runs -> Names \cup {None}]
    BY <1>1, <1>4 DEF TypeOK
  <2> QED  BY <1>1, <1>4, <2>1, <2>2, <2>3 DEF TypeOK
<1>8. ASSUME NEW q \in Runs  PROVE Progress(q)'
  <2>1. \A g \in begun'[q] : disk'[g] # None
    BY <1>1, <1>4, <1>6 DEF RunInvariant, Progress, TypeOK
  <2>2. CASE q = r
    BY <1>4, <1>5, <1>6, <2>1, <2>2 DEF Progress
  <2>3. CASE q # r
    BY <1>4, <1>6, <2>1, <2>3 DEF RunInvariant, Progress
  <2> QED  BY <2>2, <2>3
<1>9. HoldsScope'
  <2>1. ASSUME NEW g \in Files, NEW q \in Runs, MayHold(g, q)  PROVE MayHold(g, q)'
    BY <1>4, <2>1 DEF MayHold
  <2>2. MayHold(f, r)'
    BY <1>4, <1>5 DEF MayHold, f
  <2>3. ASSUME NEW q \in Runs, q \in disk'[f]  PROVE MayHold(f, q)'
    <3>1. q = r \/ (shown[r][f] # None /\ q \in shown[r][f])
      BY <1>3, <1>6, <2>3
    <3> QED  BY <1>3, <2>1, <2>2, <3>1 DEF RunInvariant, HoldsScope
  <2> QED  BY <1>4, <1>6, <2>1, <2>3 DEF RunInvariant, HoldsScope
<1>10. \A q \in Runs : Flying(q)' => Flying(q)
  BY <1>4 DEF Flying
<1>11. AllMet'
  BY <1>4, <1>10 DEF RunInvariant, AllMet
<1>12. ASSUME NEW q \in Runs, NEW g \in Files, Wrote(q, g), ~(q = r /\ g = f)
       PROVE  /\ g \in begun'[q]
              /\ q \in disk'[g] \/ Excused(q, g)'
              /\ \A p \in Runs \ {q} : Flying(p)' => Excusable(p, q, g)'
  <2>1. \A p \in Runs : Unseen(p, g) => Unseen(p, g)'
    BY <1>4, UnseenStays
  <2>2. Contended(g) => Contended(g)'
    BY <1>1, <1>4, ContendedStays
  <2>3. ASSUME NEW p \in Runs, Excusable(p, q, g)  PROVE Excusable(p, q, g)'
    BY <1>4, <1>6, <2>1, <2>2, <2>3 DEF Excusable, OpenIn
  <2>4. CASE g # f
    <3>1. \A p \in Runs : OpenIn(p, g) => OpenIn(p, g)'
      BY <1>2, <1>6, <2>4 DEF OpenIn, f
    <3>2. Excused(q, g) => Excused(q, g)'
      BY <1>4, <2>1, <2>2, <3>1 DEF Excused
    <3> QED  BY <1>4, <1>6, <1>10, <1>12, <2>3, <2>4, <3>2 DEF RunInvariant, WorkIsAccounted
  <2>5. CASE g = f
    <3>1. q # r /\ Excusable(r, q, f)
      BY <1>4, <1>12, <2>5 DEF Flying, RunInvariant, WorkIsAccounted
    <3>2. q \in disk'[f] \/ Excused(q, f)'
      <4>1. CASE n = f /\ shown[r][f] # None /\ q \in shown[r][f]
        BY <1>3, <1>6, <4>1
      <4>2. CASE n # f \/ Unseen(r, f)
        <5>1. Unseen(r, f)
          BY <1>5, <4>2 DEF Unseen, f
        <5> QED  BY <1>4, <1>5, <2>1, <2>5, <3>1, <5>1 DEF Excused
      <4>3. CASE Contended(f)
        BY <2>2, <2>5, <4>3 DEF Excused
      <4>4. CASE \E p \in Runs \ {r} : f \in begun[p] /\ {r, p} \in met
        <5>1. Contended(f)
          BY <1>5, <4>4 DEF Contended
        <5> QED  BY <2>2, <2>5, <5>1 DEF Excused
      <4>5. CASE \E p \in Runs \ {q} :
                    /\ f \in begun[p]
                    /\ Unseen(p, f) \/ (OpenIn(p, f) /\ pc[p] \in {"raised", "killed"})
        BY <1>4, <1>6, <2>1, <2>5, <4>5 DEF Excused, OpenIn
      <4> QED  BY <3>1, <4>1, <4>2, <4>3, <4>4, <4>5 DEF Excusable
    <3> QED  BY <1>4, <1>10, <1>12, <2>3, <2>5, <3>2 DEF RunInvariant, WorkIsAccounted
  <2> QED  BY <2>4, <2>5
<1>13. ASSUME NEW p \in Runs \ {r}, Flying(p)'  PROVE Excusable(p, r, f)'
  <2>1. {p, r} \in met'
    BY <1>4, <1>10, <1>13 DEF Flying, RunInvariant, AllMet
  <2> QED  BY <1>4, <1>5, <2>1 DEF Excusable
<1>14. ASSUME NEW q \in Runs, NEW g \in Files, Wrote(q, g)'
       PROVE  /\ g \in begun'[q]
              /\ q \in disk'[g] \/ Excused(q, g)'
              /\ \A p \in Runs \ {q} : Flying(p)' => Excusable(p, q, g)'
  <2>1. CASE q = r /\ g = f
    BY <1>4, <1>5, <1>6, <1>13, <2>1
  <2>2. CASE ~(q = r /\ g = f)
    <3>1. Wrote(q, g)
      BY <1>4, <1>6, <1>14, <2>2 DEF Wrote, f
    <3> QED  BY <1>12, <2>2, <3>1
  <2> QED  BY <2>1, <2>2
<1> QED  BY <1>7, <1>8, <1>9, <1>11, <1>14 DEF RunInvariant, WorkIsAccounted

-----------------------------------------------------------------------------

LEMMA InitEstablishes == Init => RunInvariant
<1> SUFFICES ASSUME Init  PROVE RunInvariant
  OBVIOUS
<1>1. PICK team \in Teams : \E who \in [Runs -> team] :
         {who[r] : r \in Runs} = team /\ agent = [r \in Runs |-> Built(who[r])]
  BY DEF Init
<1>2. PICK who \in [Runs -> team] : agent = [r \in Runs |-> Built(who[r])]
  BY <1>1
<1>3. agent \in [Runs -> BuiltAgents]
  <2>1. \A r \in Runs : who[r] \in Agents
    BY <1>2, RunAssumption
  <2>2. \A r \in Runs : Built(who[r]) \in BuiltAgents
    BY <2>1, BuiltType
  <2> QED  BY <1>2, <2>2
<1>4. disk \in [Files -> Held] /\ pc \in [Runs -> Places] /\ shown \in [Runs -> [Files -> Held]]
  <2>1. None \in Held /\ {} \in Held
    BY DEF Held
  <2>2. "new" \in Places
    BY DEF Places
  <2> HIDE DEF Held, Places
  <2> QED  BY <2>1, <2>2 DEF Init
<1>5. /\ unread \in [Runs -> SUBSET Files]
      /\ answer \in [Runs -> SUBSET Names] /\ toWrite \in [Runs -> SUBSET Names]
      /\ opened \in [Runs -> Names \cup {None}] /\ begun \in [Runs -> SUBSET Files]
      /\ met \subseteq SUBSET Runs /\ faults \in 0..MaxFaults
  BY RunAssumption DEF Init
<1>6. TypeOK
  BY <1>3, <1>4, <1>5 DEF TypeOK
<1>7. \A r \in Runs : /\ pc[r] = "new" /\ begun[r] = {} /\ opened[r] = None
                      /\ answer[r] = {}
                      /\ \A f \in Files : shown[r][f] = None
  BY DEF Init
<1>8. \A f \in Files, r \in Runs : disk[f] # None => r \notin disk[f]
  BY DEF Init
<1> QED  BY <1>6, <1>7, <1>8 DEF RunInvariant, Progress, HoldsScope, AllMet, Flying,
            WorkIsAccounted, Wrote

LEMMA NextKeeps ==
    ASSUME RunInvariant, [Next]_vars
    PROVE  RunInvariant'
<1>1. ASSUME NEW r \in Runs, NEW s \in Skips(r), Ask(r, s[1], s[2])  PROVE RunInvariant'
  BY <1>1, AskKeeps
<1>2. ASSUME NEW r \in Runs, ModelFails(r)  PROVE RunInvariant'
  BY <1>2, ModelFailsKeeps
<1>3. ASSUME NEW r \in Runs, NEW names \in Tried, Answers(r, names)
      PROVE  RunInvariant'
  BY <1>3, AnswersKeeps, RunAssumption
<1>4. ASSUME NEW r \in Runs, NEW n \in Names, OpenFile(r, n)  PROVE RunInvariant'
  BY <1>4, OpenFileKeeps
<1>5. ASSUME NEW r \in Runs, WriteFile(r)  PROVE RunInvariant'
  BY <1>5, WriteFileKeeps
<1>6. ASSUME NEW r \in Runs, WriteFails(r)  PROVE RunInvariant'
  BY <1>6, WriteFailsKeeps
<1>7. ASSUME NEW r \in Runs, Killed(r)  PROVE RunInvariant'
  BY <1>7, KilledKeeps
<1>8. CASE UNCHANGED vars
  <2>1. UNCHANGED <<disk, pc, agent, shown, unread, answer, toWrite, opened, begun, met, faults>>
    BY <1>8 DEF vars
  <2>2. TypeOK' /\ (\A r \in Runs : Progress(r)') /\ HoldsScope' /\ AllMet'
    BY <2>1 DEF RunInvariant, TypeOK, Progress, HoldsScope, MayHold, AllMet, Flying
  <2>3. ASSUME NEW r \in Runs, NEW f \in Files, Wrote(r, f)'
        PROVE  /\ f \in begun'[r]
               /\ r \in disk'[f] \/ Excused(r, f)'
               /\ \A q \in Runs \ {r} : Flying(q)' => Excusable(q, r, f)'
    <3>1. Wrote(r, f)
      BY <2>1, <2>3 DEF Wrote
    <3>2. \A q \in Runs : Unseen(q, f) => Unseen(q, f)'
      BY <2>1, UnseenStays
    <3>3. Contended(f)' <=> Contended(f)
      BY <2>1 DEF Contended
    <3>4. Excused(r, f) => Excused(r, f)'
      BY <2>1, <3>2, <3>3 DEF Excused, OpenIn
    <3>5. \A q \in Runs : /\ Flying(q)' <=> Flying(q)
                          /\ Excusable(q, r, f) => Excusable(q, r, f)'
      BY <2>1, <3>2, <3>3 DEF Excusable, Flying, OpenIn
    <3> QED  BY <2>1, <3>1, <3>4, <3>5 DEF RunInvariant, WorkIsAccounted
  <2> QED  BY <2>2, <2>3 DEF RunInvariant, WorkIsAccounted
<1> QED  BY <1>1, <1>2, <1>3, <1>4, <1>5, <1>6, <1>7, <1>8 DEF Next

\* What every run in flight will find missing is accounted for, in every behaviour.
THEOREM RunInvariance == Spec => []RunInvariant
<1>1. RunInvariant /\ [Next]_vars => RunInvariant'
  BY NextKeeps
<1> QED  BY <1>1, InitEstablishes, PTL DEF Spec

\* The checkout, the runs and their agents are always of their types.
THEOREM RunTypeCorrect == Spec => []TypeOK
<1>1. RunInvariant => TypeOK
  BY DEF RunInvariant
<1> QED  BY <1>1, RunInvariance, PTL

\* execute and run_task: an answer with one name out of the contract's scope leaves no
\* trace in any file, at once or through the runs that are shown it later.
THEOREM OnlyScopedWork == Spec => []OnlyWorkInScope
<1>1. RunInvariant => OnlyWorkInScope
  BY DEF RunInvariant, HoldsScope, MayHold, OnlyWorkInScope
<1> QED  BY <1>1, RunInvariance, PTL

\* write_outputs: the work of a successful run is lost to a run that has opened the file
\* and not written it, to one that wrote it unseen (out of its patterns, unreadable, over
\* the cap, or under another name), and to one of two that were in flight together, and
\* in no other way.
THEOREM LossesAreThese == Spec => []WorkIsKept
<1>1. ASSUME RunInvariant, NEW r \in Runs, pc[r] = "successful", NEW n \in answer[r]
      PROVE  r \in disk[FileOf[n]] \/ Excused(r, FileOf[n])
  <2>1. PICK f \in Files : f = FileOf[n]
    BY <1>1, NamesAreOfFiles DEF RunInvariant, TypeOK
  <2>2. Wrote(r, f)
    BY <1>1, <2>1 DEF RunInvariant, Progress, Wrote
  <2>3. r \in disk[f] \/ Excused(r, f)
    BY <1>1, <2>2 DEF RunInvariant, WorkIsAccounted
  <2> QED  BY <2>1, <2>3
<1>2. RunInvariant => WorkIsKept
  BY <1>1 DEF Excused, WorkIsKept
<1> QED  BY <1>2, RunInvariance, PTL

===============================================================================
