--------------------------- MODULE DeploymentProofs ---------------------------
(***************************************************************************)
(* That a rollback finds what it returns to, that this once worked, and    *)
(* that the records tell what is live, for any number of requests,         *)
(* configurations and records.                                             *)
(*                                                                         *)
(* The two facts are about records, but what a record holds was read long  *)
(* before it was registered: the invariant adds what is true of the        *)
(* requests in between.  It also needs that no two requests that poll      *)
(* share a record, so that the outcome of one leaves the other's alone.    *)
(* What is live is recorded by the request that provisioned it: a second   *)
(* invariant says at which points that is still to come.                   *)
(***************************************************************************)
EXTENDS DeploymentProperties, WellFoundedInduction, TLAPS

Successes == {d \in Registered : records[d].status = "success"}

\* The previous deployment of a deploy was registered as a success.
DeployRecords ==
    \A d \in Ids : records[d].kind = "deploy" /\ records[d].previous # 0 =>
        /\ records[d].previous \in 1 .. d - 1
        /\ records[records[d].previous].status = "success"

\* A rollback restored the previous configuration of what it rolled back.
RollbackRecords ==
    \A r \in Ids : records[r].kind = "rollback" =>
        LET d == records[r].previous
        IN  /\ d \in 1 .. r - 1
            /\ records[d].previous \in 1 .. d - 1
            /\ records[r].config = records[records[d].previous].config

\* A request that deploys holds the id of a success, one that polls has an
\* unregistered record with this id, one that rolls back holds the
\* configuration it restores.
Deploying(c) ==
    /\ prev[c] # 0 => prev[c] \in Successes
    /\ pc[c] = "health" =>
          /\ target[c] \in Ids
          /\ records[target[c]].kind = "deploy"
          /\ records[target[c]].status = "in_progress"
          /\ ~records[target[c]].registered
          /\ records[target[c]].previous = prev[c]
    /\ pc[c] # "idle" /\ op[c] # "rollback" => config[c] \in Configs

RollingBack(c) ==
    pc[c] \in {"provision", "provisioned"} /\ op[c] = "rollback" =>
        /\ target[c] \in Registered
        /\ records[target[c]].previous \in Registered
        /\ records[target[c]].previous < target[c]
        /\ config[c] = records[records[target[c]].previous].config

OwnRecord ==
    \A c, o \in Requests :
        c # o /\ pc[c] = "health" /\ pc[o] = "health" => target[c] # target[o]

DeploymentInvariant ==
    /\ TypeOK
    /\ PreviousIsKnown
    /\ DeployRecords
    /\ RollbackRecords
    /\ \A c \in Requests : Deploying(c) /\ RollingBack(c)
    /\ OwnRecord

-----------------------------------------------------------------------------

\* A non-empty set of ids has a largest one.
LEMMA MaxIsMember ==
    ASSUME NEW n \in Nat, NEW S \in SUBSET (1 .. n), S # {}
    PROVE  Max(S) \in S
<1> DEFINE gaps == {n - d : d \in S}
<1>1. IsWellFoundedOn(OpToRel(<, Nat), Nat)
  BY NatLessThanWellFounded
<1>2. gaps \subseteq Nat /\ gaps # {}
  <2>1. \A d \in S : n - d \in Nat
    OBVIOUS
  <2>2. PICK d \in S : TRUE
    OBVIOUS
  <2>3. n - d \in gaps
    BY <2>2
  <2> QED  BY <2>1, <2>3
<1>3. PICK g \in gaps : \A h \in gaps : ~(<<h, g>> \in OpToRel(<, Nat))
  <2> HIDE DEF gaps
  <2> QED  BY <1>1, <1>2, WFMin
<1>4. \A h \in gaps : ~(h < g)
  BY <1>2, <1>3 DEF OpToRel
<1>5. PICK d \in S : g = n - d
  OBVIOUS
<1>6. ASSUME NEW e \in S PROVE d >= e
  <2>1. n - e \in gaps
    OBVIOUS
  <2>2. ~(n - e < n - d)
    BY <1>4, <1>5, <2>1
  <2>3. d \in Nat /\ e \in Nat
    OBVIOUS
  <2> QED  BY <2>2, <2>3
<1> QED  BY <1>6 DEF Max

LEMMA RecordFields ==
    ASSUME records \in Seq(Record), NEW d \in Ids
    PROVE  /\ records[d].config \in Configs /\ records[d].previous \in Nat
           /\ records[d].kind \in {"deploy", "rollback"}
<1>1. records[d] \in Record
  BY DEF Ids
<1> QED  BY <1>1 DEF Record

\* What deploy remembers as the current deployment was a success.
LEMMA LatestIsSuccess ==
    ASSUME records \in Seq(Record), FindLatest # 0
    PROVE  FindLatest \in Successes
<1> DEFINE candidates == {d \in Registered : records[d].status = "success"}
<1>1. candidates # {} /\ FindLatest = Max(candidates)
  BY DEF FindLatest
<1>2. candidates \in SUBSET (1 .. Len(records)) /\ Len(records) \in Nat
  BY DEF Registered, Ids
<1>3. Max(candidates) \in candidates
  BY <1>1, <1>2, MaxIsMember
<1> QED  BY <1>1, <1>3 DEF Successes

-----------------------------------------------------------------------------
(* What every step leaves as it is.                                         *)

\* Records are never taken back: what they say of their configuration, their
\* kind and their previous deployment stays, and so does a success.
Grown ==
    /\ records' \in Seq(Record)
    /\ Len(records') >= Len(records)
    /\ \A d \in Ids :
          /\ records'[d].kind = records[d].kind
          /\ records'[d].config = records[d].config
          /\ records'[d].previous = records[d].previous
          /\ records[d].registered => records'[d].registered
          /\ records[d].status = "success" => records'[d].status = "success"

\* A request that a step of another one leaves alone.
Untouched(o) ==
    /\ pc'[o] = pc[o] /\ op'[o] = op[o] /\ config'[o] = config[o]
    /\ prev'[o] = prev[o] /\ target'[o] = target[o]
    /\ pc[o] = "health" => records'[target[o]] = records[target[o]]

LEMMA UntouchedKeeps ==
    ASSUME DeploymentInvariant, Grown, NEW o \in Requests, Untouched(o)
    PROVE  Deploying(o)' /\ RollingBack(o)'
<1>0. records \in Seq(Record) /\ Len(records) \in Nat
  BY DEF DeploymentInvariant, TypeOK
<1>1. Ids \subseteq Ids' /\ Registered \subseteq Registered'
  BY <1>0 DEF Grown, Ids, Registered
<1>2. Successes \subseteq Successes'
  BY <1>1 DEF Grown, Successes, Registered
<1>3. Deploying(o)'
  BY <1>1, <1>2 DEF DeploymentInvariant, Deploying, Untouched
<1>4. RollingBack(o)'
  <2> SUFFICES ASSUME pc[o] \in {"provision", "provisioned"}, op[o] = "rollback"
               PROVE  /\ target[o] \in Registered'
                      /\ records'[target[o]].previous \in Registered'
                      /\ records'[target[o]].previous < target[o]
                      /\ config[o] = records'[records'[target[o]].previous].config
    BY DEF RollingBack, Untouched
  <2>1. /\ target[o] \in Registered
        /\ records[target[o]].previous \in Registered
        /\ records[target[o]].previous < target[o]
        /\ config[o] = records[records[target[o]].previous].config
    BY DEF DeploymentInvariant, RollingBack
  <2>2. records'[target[o]].previous = records[target[o]].previous
    BY <2>1 DEF Grown, Registered
  <2>3. records'[records[target[o]].previous].config
            = records[records[target[o]].previous].config
    BY <2>1 DEF Grown, Registered
  <2> QED  BY <1>1, <2>1, <2>2, <2>3
<1> QED  BY <1>3, <1>4

\* A request that has returned holds nothing.
Returned(o) == pc'[o] = "idle" /\ prev'[o] = 0

LEMMA ReturnedKeeps ==
    ASSUME NEW o \in Requests, Returned(o)
    PROVE  Deploying(o)' /\ RollingBack(o)'
BY DEF Returned, Deploying, RollingBack

LEMMA ReturnEffect ==
    ASSUME TypeOK, NEW c \in Requests, Return(c)
    PROVE  /\ pc' \in [Requests -> {"idle", "provision", "provisioned", "health"}]
           /\ op' \in [Requests -> {"none", "deploy", "deployWithRollback", "rollback"}]
           /\ config' \in [Requests -> Configs \cup {NoConfig}]
           /\ prev' \in [Requests -> 0 .. Len(records)]
           /\ target' \in [Requests -> 0 .. Len(records)]
           /\ Returned(c)
           /\ \A o \in Requests \ {c} :
                 /\ pc'[o] = pc[o] /\ op'[o] = op[o] /\ config'[o] = config[o]
                 /\ prev'[o] = prev[o] /\ target'[o] = target[o]
<1>1. Len(records) \in Nat
  BY DEF TypeOK
<1> QED  BY <1>1 DEF Return, Goto, TypeOK, Returned

-----------------------------------------------------------------------------
(* The steps that leave the records alone.                                  *)

LEMMA SameRecords ==
    ASSUME DeploymentInvariant, UNCHANGED records
    PROVE  /\ Grown /\ Len(records) \in Nat
           /\ PreviousIsKnown' /\ DeployRecords' /\ RollbackRecords'
<1>1. Grown /\ Len(records) \in Nat
  BY DEF DeploymentInvariant, TypeOK, Grown
<1>2. PreviousIsKnown' /\ DeployRecords' /\ RollbackRecords'
  BY DEF DeploymentInvariant, PreviousIsKnown, DeployRecords, RollbackRecords,
         Registered, Ids
<1> QED  BY <1>1, <1>2

LEMMA DeployKeeps ==
    ASSUME DeploymentInvariant, NEW c \in Requests, Deploy(c)
    PROVE  DeploymentInvariant'
<1> USE DEF Deploy, Arrive, Goto
<1>0. /\ TypeOK /\ Len(records) \in Nat /\ Grown
      /\ PreviousIsKnown' /\ DeployRecords' /\ RollbackRecords'
  BY SameRecords DEF DeploymentInvariant
<1>1. FindLatest # 0 => FindLatest \in Successes
  BY <1>0, LatestIsSuccess DEF TypeOK
<1>2. FindLatest \in 0 .. Len(records)
  BY <1>0, <1>1 DEF Successes, Registered, Ids
<1>3. TypeOK'
  BY <1>0, <1>2 DEF TypeOK, Ids
<1>4. ASSUME NEW o \in Requests
      PROVE  Deploying(o)' /\ RollingBack(o)'
  <2>1. CASE o = c
    BY <1>0, <1>1, <2>1 DEF TypeOK, Deploying, RollingBack, Successes, Registered, Ids
  <2>2. CASE o # c
    BY <1>0, <2>2, UntouchedKeeps DEF TypeOK, Untouched
  <2> QED  BY <2>1, <2>2
<1>5. OwnRecord'
  BY <1>0 DEF DeploymentInvariant, OwnRecord, TypeOK
<1> QED  BY <1>0, <1>3, <1>4, <1>5 DEF DeploymentInvariant

LEMMA ProvisionKeeps ==
    ASSUME DeploymentInvariant, NEW c \in Requests, Provision(c)
    PROVE  DeploymentInvariant'
<1> USE DEF Provision, Goto, locals
<1>0. /\ TypeOK /\ Len(records) \in Nat /\ Grown
      /\ PreviousIsKnown' /\ DeployRecords' /\ RollbackRecords'
  BY SameRecords DEF DeploymentInvariant
<1>1. config[c] \in Configs
  <2>1. CASE op[c] = "rollback"
    <3>1. records[target[c]].previous \in Ids
      BY <2>1 DEF DeploymentInvariant, RollingBack, Registered
    <3>2. config[c] = records[records[target[c]].previous].config
      BY <2>1 DEF DeploymentInvariant, RollingBack
    <3> QED  BY <1>0, <3>1, <3>2, RecordFields DEF TypeOK
  <2>2. CASE op[c] # "rollback"
    BY <2>2 DEF DeploymentInvariant, Deploying
  <2> QED  BY <2>1, <2>2
<1>2. TypeOK'
  <2>1. live' \in Live
    BY <1>0, <1>1 DEF Live, Put, TypeOK
  <2> QED  BY <1>0, <2>1 DEF TypeOK, Ids
<1>3. ASSUME NEW o \in Requests
      PROVE  Deploying(o)' /\ RollingBack(o)'
  <2>1. CASE o = c
    <3>1. pc'[c] = "provisioned" /\ pc[c] = "provision"
      BY <1>0 DEF TypeOK
    <3>2. Deploying(c)'
      BY <3>1 DEF DeploymentInvariant, Deploying, Successes, Registered, Ids
    <3>3. RollingBack(c)'
      BY <3>1 DEF DeploymentInvariant, RollingBack, Registered, Ids
    <3> QED  BY <2>1, <3>2, <3>3
  <2>2. CASE o # c
    BY <1>0, <2>2, UntouchedKeeps DEF TypeOK, Untouched
  <2> QED  BY <2>1, <2>2
<1>4. OwnRecord'
  BY <1>0 DEF DeploymentInvariant, OwnRecord, TypeOK
<1> QED  BY <1>0, <1>2, <1>3, <1>4 DEF DeploymentInvariant

LEMMA ProvisionFailsKeeps ==
    ASSUME DeploymentInvariant, NEW c \in Requests, ProvisionFails(c)
    PROVE  DeploymentInvariant'
<1>0. /\ TypeOK /\ Len(records) \in Nat /\ Grown
      /\ PreviousIsKnown' /\ DeployRecords' /\ RollbackRecords'
  BY SameRecords DEF DeploymentInvariant, ProvisionFails
<1>1. UNCHANGED <<live, records, upkeep, overlapped>> /\ faulted' = TRUE
  BY DEF ProvisionFails
<1>2. Return(c)
  BY DEF ProvisionFails
<1>3. \A o \in Requests \ {c} : Untouched(o)
  BY <1>0, <1>1, <1>2, ReturnEffect DEF Untouched
<1>4. Returned(c)
  BY <1>0, <1>2, ReturnEffect
<1>5. TypeOK'
  <2>1. \A o \in Requests : pc'[o] = "health" =>
            target'[o] \in Ids' /\ ~records'[target'[o]].registered
    BY <1>0, <1>1, <1>3, <1>4 DEF TypeOK, Untouched, Returned, Ids
  <2> QED  BY <1>0, <1>1, <1>2, <2>1, ReturnEffect DEF TypeOK
<1>6. \A o \in Requests : Deploying(o)' /\ RollingBack(o)'
  BY <1>0, <1>3, <1>4, UntouchedKeeps, ReturnedKeeps
<1>7. OwnRecord'
  BY <1>3, <1>4 DEF DeploymentInvariant, OwnRecord, Untouched, Returned
<1> QED  BY <1>0, <1>5, <1>6, <1>7 DEF DeploymentInvariant

LEMMA RollbackKeeps ==
    ASSUME DeploymentInvariant, NEW c \in Requests, Rollback(c)
    PROVE  DeploymentInvariant'
<1> USE DEF Rollback, Arrive, Goto
<1>0. /\ TypeOK /\ Len(records) \in Nat /\ Grown
      /\ PreviousIsKnown' /\ DeployRecords' /\ RollbackRecords'
  BY SameRecords DEF DeploymentInvariant
<1>1. PICK d \in Registered :
          /\ records[d].previous \in Registered
          /\ target' = [target EXCEPT ![c] = d]
          /\ config' = [config EXCEPT ![c] = records[records[d].previous].config]
  OBVIOUS
<1>2. d \in 1 .. Len(records) /\ records[d].previous \in 1 .. Len(records)
  BY <1>1 DEF Registered, Ids
<1>3. records[records[d].previous].config \in Configs
  BY <1>0, <1>2, RecordFields DEF TypeOK, Ids
<1>4. records[d].previous < d
  BY <1>1, <1>2 DEF DeploymentInvariant, PreviousIsKnown
<1>5. TypeOK'
  BY <1>0, <1>1, <1>2, <1>3 DEF TypeOK, Ids
<1>6. ASSUME NEW o \in Requests
      PROVE  Deploying(o)' /\ RollingBack(o)'
  <2>1. CASE o = c
    <3>1. /\ pc'[c] = "provision" /\ op'[c] = "rollback" /\ target'[c] = d
          /\ config'[c] = records[records[d].previous].config
          /\ prev'[c] = prev[c]
      BY <1>0, <1>1 DEF TypeOK
    <3>2. Deploying(c)'
      BY <3>1 DEF DeploymentInvariant, Deploying, Successes, Registered, Ids
    <3>3. RollingBack(c)'
      BY <1>1, <1>4, <3>1 DEF RollingBack, Registered, Ids
    <3> QED  BY <2>1, <3>2, <3>3
  <2>2. CASE o # c
    BY <1>0, <1>1, <2>2, UntouchedKeeps DEF TypeOK, Untouched
  <2> QED  BY <2>1, <2>2
<1>7. OwnRecord'
  BY <1>0, <1>1 DEF DeploymentInvariant, OwnRecord, TypeOK
<1> QED  BY <1>0, <1>5, <1>6, <1>7 DEF DeploymentInvariant

-----------------------------------------------------------------------------
(* A new record.                                                            *)

\* Appending leaves the records that are there where they are.
LEMMA NewRecordAppends ==
    ASSUME records \in Seq(Record), NEW c \in Requests, config[c] \in Configs,
           NEW kind \in {"deploy", "rollback"},
           NEW status \in {"in_progress", "success", "failed"},
           NEW previous \in Nat, NEW registered \in BOOLEAN,
           NewRecord(c, kind, status, previous, registered)
    PROVE  /\ Grown
           /\ Len(records') = Len(records) + 1
           /\ \A d \in Ids : records'[d] = records[d]
           /\ records'[Len(records) + 1].kind = kind
           /\ records'[Len(records) + 1].config = config[c]
           /\ records'[Len(records) + 1].status = status
           /\ records'[Len(records) + 1].previous = previous
           /\ records'[Len(records) + 1].registered = registered
<1> DEFINE r == [kind |-> kind, config |-> config[c], status |-> status,
                 previous |-> previous, available |-> TRUE,
                 registered |-> registered]
<1>1. r \in Record
  BY DEF Record
<1>2. records' = Append(records, r)
  BY DEF NewRecord
<1> HIDE DEF r
<1>3. /\ records' \in Seq(Record)
      /\ Len(records') = Len(records) + 1
      /\ \A d \in Ids : records'[d] = records[d]
      /\ records'[Len(records) + 1] = r
  BY <1>1, <1>2 DEF Ids
<1>4. Grown
  BY <1>3 DEF Grown, Ids
<1>5. /\ r.kind = kind /\ r.config = config[c] /\ r.status = status
      /\ r.previous = previous /\ r.registered = registered
  BY DEF r
<1> QED  BY <1>3, <1>4, <1>5

\* The record facts after a step that adds one: a deploy of a request that
\* holds a success or nothing.
LEMMA DeployRecordAdded ==
    ASSUME DeploymentInvariant, NEW c \in Requests, config[c] \in Configs,
           prev[c] # 0 => prev[c] \in Successes, prev[c] \in Nat,
           NEW status \in {"in_progress", "success", "failed"},
           NEW registered \in BOOLEAN,
           NewRecord(c, "deploy", status, prev[c], registered)
    PROVE  PreviousIsKnown' /\ DeployRecords' /\ RollbackRecords'
<1> DEFINE new == Len(records) + 1
<1>0. records \in Seq(Record) /\ Len(records) \in Nat
  BY DEF DeploymentInvariant, TypeOK
<1>1. /\ Ids' = Ids \cup {new}
      /\ \A d \in Ids : records'[d] = records[d] /\ d < new
      /\ records'[new].kind = "deploy" /\ records'[new].previous = prev[c]
  BY <1>0, NewRecordAppends DEF Ids
<1>2. prev[c] # 0 => /\ prev[c] \in Ids /\ prev[c] \in Registered'
                     /\ records[prev[c]].status = "success"
  BY <1>1 DEF Successes, Registered
<1>3. PreviousIsKnown'
  BY <1>1, <1>2 DEF DeploymentInvariant, PreviousIsKnown, Registered
<1>4. DeployRecords'
  <2> SUFFICES ASSUME NEW d \in Ids', records'[d].kind = "deploy",
                      records'[d].previous # 0
               PROVE  /\ records'[d].previous \in 1 .. d - 1
                      /\ records'[records'[d].previous].status = "success"
    BY DEF DeployRecords
  <2>1. CASE d = new
    BY <1>0, <1>1, <1>2, <2>1 DEF Ids
  <2>2. CASE d \in Ids
    <3>1. /\ records[d].previous \in 1 .. d - 1
          /\ records[records[d].previous].status = "success"
      BY <1>1, <2>2 DEF DeploymentInvariant, DeployRecords
    <3>2. records[d].previous \in Ids
      BY <1>0, <2>2, <3>1 DEF Ids
    <3> QED  BY <1>1, <2>2, <3>1, <3>2
  <2> QED  BY <1>1, <2>1, <2>2
<1>5. RollbackRecords'
  <2> SUFFICES ASSUME NEW r \in Ids', records'[r].kind = "rollback"
               PROVE  LET d == records'[r].previous
                      IN  /\ d \in 1 .. r - 1
                          /\ records'[d].previous \in 1 .. d - 1
                          /\ records'[r].config = records'[records'[d].previous].config
    BY DEF RollbackRecords
  <2> DEFINE d == records[r].previous
  <2>1. r \in Ids /\ records[r].kind = "rollback"
    BY <1>1
  <2>2. /\ d \in 1 .. r - 1
        /\ records[d].previous \in 1 .. d - 1
        /\ records[r].config = records[records[d].previous].config
    BY <2>1 DEF DeploymentInvariant, RollbackRecords
  <2>3. d \in Ids /\ records[d].previous \in Ids
    BY <1>0, <2>1, <2>2 DEF Ids
  <2> QED  BY <1>1, <2>1, <2>2, <2>3
<1> QED  BY <1>3, <1>4, <1>5

LEMMA ProvisionedKeeps ==
    ASSUME DeploymentInvariant, NEW c \in Requests, Provisioned(c)
    PROVE  DeploymentInvariant'
<1> DEFINE new == Len(records) + 1
<1>0. TypeOK /\ records \in Seq(Record) /\ Len(records) \in Nat
  BY DEF DeploymentInvariant, TypeOK
<1>1. /\ pc[c] = "provisioned" /\ op[c] # "rollback"
      /\ config[c] \in Configs
      /\ prev[c] # 0 => prev[c] \in Successes
      /\ prev[c] \in Nat
  BY <1>0 DEF DeploymentInvariant, Deploying, Provisioned, TypeOK
<1>2. UNCHANGED <<live, upkeep, overlapped, faulted>>
  BY DEF Provisioned
<1>3. CASE config[c] \in Unprobed
  <2>1. NewRecord(c, "deploy", "success", prev[c], TRUE) /\ Return(c)
    BY <1>3 DEF Provisioned
  <2>2. /\ Grown /\ Len(records') = new
        /\ \A d \in Ids : records'[d] = records[d]
    BY <1>0, <1>1, <2>1, NewRecordAppends
  <2>3. PreviousIsKnown' /\ DeployRecords' /\ RollbackRecords'
    BY <1>1, <2>1, DeployRecordAdded
  <2>4. Returned(c) /\ \A o \in Requests \ {c} : Untouched(o)
    BY <1>0, <2>1, <2>2, ReturnEffect DEF Untouched, TypeOK
  <2>5. TypeOK'
    <3>1. \A o \in Requests : pc'[o] = "health" =>
              target'[o] \in Ids' /\ ~records'[target'[o]].registered
      BY <1>0, <2>2, <2>4, SMTT(30) DEF TypeOK, Untouched, Returned, Ids
    <3> QED  BY <1>0, <1>2, <2>1, <2>2, <3>1, ReturnEffect, SMTT(30) DEF TypeOK, Grown
  <2>6. \A o \in Requests : Deploying(o)' /\ RollingBack(o)'
    BY <2>2, <2>4, UntouchedKeeps, ReturnedKeeps
  <2>7. OwnRecord'
    BY <2>4 DEF DeploymentInvariant, OwnRecord, Untouched, Returned
  <2> QED  BY <2>3, <2>5, <2>6, <2>7 DEF DeploymentInvariant
<1>4. CASE config[c] \notin Unprobed
  <2>1. /\ NewRecord(c, "deploy", "in_progress", prev[c], FALSE)
        /\ target' = [target EXCEPT ![c] = new]
        /\ pc' = [pc EXCEPT ![c] = "health"]
        /\ UNCHANGED <<op, config, prev>>
    BY <1>4 DEF Provisioned, Goto
  <2>2. /\ Grown /\ Len(records') = new
        /\ \A d \in Ids : records'[d] = records[d]
        /\ records'[new].kind = "deploy" /\ records'[new].status = "in_progress"
        /\ ~records'[new].registered /\ records'[new].previous = prev[c]
    BY <1>0, <1>1, <2>1, NewRecordAppends
  <2>3. PreviousIsKnown' /\ DeployRecords' /\ RollbackRecords'
    BY <1>1, <2>1, DeployRecordAdded
  <2>4. /\ pc'[c] = "health" /\ target'[c] = new
        /\ \A o \in Requests \ {c} :
              /\ Untouched(o)
              /\ pc'[o] = "health" => target'[o] \in 1 .. Len(records)
    BY <1>0, <2>1, <2>2 DEF TypeOK, Untouched, Ids
  <2>5. new \in Ids' /\ Ids \subseteq Ids' /\ new \notin Ids
    BY <1>0, <2>2 DEF Ids
  <2>6. TypeOK'
    <3>1. \A o \in Requests : pc'[o] = "health" =>
              target'[o] \in Ids' /\ ~records'[target'[o]].registered
      <4>1. \A o \in Requests \ {c} : pc'[o] = "health" =>
                target'[o] \in Ids /\ ~records[target'[o]].registered
        BY <1>0, <2>4 DEF TypeOK, Untouched
      <4> QED  BY <2>2, <2>4, <2>5, <4>1
    <3>2. target' \in [Requests -> 0 .. Len(records')]
      BY <1>0, <2>1, <2>2 DEF TypeOK
    <3>3. prev' \in [Requests -> 0 .. Len(records')]
      BY <1>0, <2>1, <2>2 DEF TypeOK
    <3>4. pc' \in [Requests -> {"idle", "provision", "provisioned", "health"}]
      BY <1>0, <2>1 DEF TypeOK
    <3> QED  BY <1>0, <1>2, <2>1, <2>2, <3>1, <3>2, <3>3, <3>4 DEF TypeOK, Grown
  <2>7. ASSUME NEW o \in Requests
        PROVE  Deploying(o)' /\ RollingBack(o)'
    <3>1. CASE o = c
      <4>1. Successes \subseteq Successes'
        BY <2>2, <2>5 DEF Successes, Registered
      <4>2. Deploying(c)'
        BY <1>1, <2>1, <2>2, <2>4, <2>5, <4>1 DEF Deploying
      <4>3. RollingBack(c)'
        BY <2>4 DEF RollingBack
      <4> QED  BY <3>1, <4>2, <4>3
    <3>2. CASE o # c
      BY <2>2, <2>4, <3>2, UntouchedKeeps
    <3> QED  BY <3>1, <3>2
  <2>8. OwnRecord'
    <3>1. \A o \in Requests \ {c} : pc'[o] = "health" => target'[o] # new
      BY <1>0, <2>4
    <3> QED  BY <2>4, <3>1 DEF DeploymentInvariant, OwnRecord, Untouched
  <2> QED  BY <2>3, <2>6, <2>7, <2>8 DEF DeploymentInvariant
<1> QED  BY <1>3, <1>4

LEMMA RolledBackKeeps ==
    ASSUME DeploymentInvariant, NEW c \in Requests, RolledBack(c)
    PROVE  DeploymentInvariant'
<1> DEFINE new == Len(records) + 1
           d == target[c]
<1>0. TypeOK /\ records \in Seq(Record) /\ Len(records) \in Nat
  BY DEF DeploymentInvariant, TypeOK
<1>1. /\ d \in Registered /\ records[d].previous \in Registered
      /\ records[d].previous < d
      /\ config[c] = records[records[d].previous].config
  BY DEF DeploymentInvariant, RollingBack, RolledBack
<1>2. d \in Ids /\ records[d].previous \in Ids
  BY <1>1 DEF Registered
<1>3. config[c] \in Configs
  BY <1>0, <1>1, <1>2, RecordFields
<1>4. /\ NewRecord(c, "rollback", "success", d, TRUE) /\ Return(c)
      /\ UNCHANGED <<live, upkeep, overlapped, faulted>>
  BY DEF RolledBack
<1>5. /\ Grown /\ Len(records') = new
      /\ \A e \in Ids : records'[e] = records[e]
      /\ records'[new].kind = "rollback" /\ records'[new].previous = d
      /\ records'[new].config = config[c]
  <2>1. d \in Nat
    BY <1>0, <1>2 DEF Ids
  <2> QED  BY <1>0, <1>3, <1>4, <2>1, NewRecordAppends
<1>6. Ids' = Ids \cup {new} /\ \A e \in Ids : e < new
  BY <1>0, <1>5 DEF Ids
<1>7. Returned(c) /\ \A o \in Requests \ {c} : Untouched(o)
  BY <1>0, <1>4, <1>5, ReturnEffect DEF Untouched, TypeOK
<1>8. TypeOK'
  <2>1. \A o \in Requests : pc'[o] = "health" =>
            target'[o] \in Ids' /\ ~records'[target'[o]].registered
    <3> SUFFICES ASSUME NEW o \in Requests, pc'[o] = "health"
                 PROVE  target'[o] \in Ids' /\ ~records'[target'[o]].registered
      OBVIOUS
    <3>1. o # c
      BY <1>7 DEF Returned
    <3>2. /\ pc[o] = "health" /\ target'[o] = target[o]
          /\ records'[target[o]] = records[target[o]]
      BY <1>7, <3>1 DEF Untouched
    <3>3. target[o] \in Ids /\ ~records[target[o]].registered
      BY <1>0, <3>2 DEF TypeOK
    <3> QED  BY <1>6, <3>2, <3>3
  <2> QED  BY <1>0, <1>4, <1>5, <2>1, ReturnEffect DEF TypeOK, Grown
<1>9. PreviousIsKnown'
  <2>1. \A e \in Ids : e \in Registered' <=> e \in Registered
    BY <1>5, <1>6 DEF Registered
  <2>2. \A e \in Registered' : e \in Registered \/ e = new
    BY <1>6, <2>1 DEF Registered
  <2> QED  BY <1>1, <1>2, <1>5, <1>6, <2>1, <2>2
           DEF DeploymentInvariant, PreviousIsKnown, Registered
<1>10. DeployRecords'
  <2> SUFFICES ASSUME NEW e \in Ids', records'[e].kind = "deploy",
                      records'[e].previous # 0
               PROVE  /\ records'[e].previous \in 1 .. e - 1
                      /\ records'[records'[e].previous].status = "success"
    BY DEF DeployRecords
  <2>1. e \in Ids /\ records'[e] = records[e]
    BY <1>5, <1>6
  <2>2. /\ records[e].previous \in 1 .. e - 1
        /\ records[records[e].previous].status = "success"
    BY <2>1 DEF DeploymentInvariant, DeployRecords
  <2>3. records[e].previous \in Ids
    BY <1>0, <2>1, <2>2 DEF Ids
  <2> QED  BY <1>5, <2>1, <2>2, <2>3
<1>11. RollbackRecords'
  <2> SUFFICES ASSUME NEW r \in Ids', records'[r].kind = "rollback"
               PROVE  LET e == records'[r].previous
                      IN  /\ e \in 1 .. r - 1
                          /\ records'[e].previous \in 1 .. e - 1
                          /\ records'[r].config = records'[records'[e].previous].config
    BY DEF RollbackRecords
  <2>1. CASE r = new
    BY <1>0, <1>1, <1>2, <1>5, <2>1 DEF Ids
  <2>2. CASE r \in Ids
    <3> DEFINE e == records[r].previous
    <3>1. /\ e \in 1 .. r - 1
          /\ records[e].previous \in 1 .. e - 1
          /\ records[r].config = records[records[e].previous].config
      BY <1>5, <2>2 DEF DeploymentInvariant, RollbackRecords
    <3>2. e \in Ids /\ records[e].previous \in Ids
      BY <1>0, <2>2, <3>1 DEF Ids
    <3> QED  BY <1>5, <2>2, <3>1, <3>2
  <2> QED  BY <1>6, <2>1, <2>2
<1>12. \A o \in Requests : Deploying(o)' /\ RollingBack(o)'
  BY <1>5, <1>7, UntouchedKeeps, ReturnedKeeps
<1>13. OwnRecord'
  BY <1>7 DEF DeploymentInvariant, OwnRecord, Untouched, Returned
<1> QED  BY <1>8, <1>9, <1>10, <1>11, <1>12, <1>13 DEF DeploymentInvariant

-----------------------------------------------------------------------------
(* The outcome of a deployment.                                             *)

\* What is true of the records stays true when they only change where Grown
\* lets them.
LEMMA KeptRecords ==
    ASSUME DeploymentInvariant, Ids' = Ids,
           \A d \in Ids :
               /\ records'[d].kind = records[d].kind
               /\ records'[d].config = records[d].config
               /\ records'[d].previous = records[d].previous
               /\ records[d].status = "success" => records'[d].status = "success"
    PROVE  DeployRecords' /\ RollbackRecords'
<1>0. Len(records) \in Nat
  BY DEF DeploymentInvariant, TypeOK
<1>1. DeployRecords'
  <2> SUFFICES ASSUME NEW d \in Ids, records[d].kind = "deploy",
                      records[d].previous # 0
               PROVE  /\ records[d].previous \in 1 .. d - 1
                      /\ records'[records[d].previous].status = "success"
    BY DEF DeployRecords
  <2>1. /\ records[d].previous \in 1 .. d - 1
        /\ records[records[d].previous].status = "success"
    BY DEF DeploymentInvariant, DeployRecords
  <2>2. records[d].previous \in Ids
    BY <1>0, <2>1 DEF Ids
  <2> QED  BY <2>1, <2>2
<1>2. RollbackRecords'
  <2> SUFFICES ASSUME NEW d \in Ids, records[d].kind = "rollback"
               PROVE  LET e == records[d].previous
                      IN  /\ e \in 1 .. d - 1
                          /\ records'[e].previous \in 1 .. e - 1
                          /\ records[d].config = records'[records'[e].previous].config
    BY DEF RollbackRecords
  <2> DEFINE e == records[d].previous
  <2>1. /\ e \in 1 .. d - 1
        /\ records[e].previous \in 1 .. e - 1
        /\ records[d].config = records[records[e].previous].config
    BY DEF DeploymentInvariant, RollbackRecords
  <2>2. e \in Ids /\ records[e].previous \in Ids
    BY <1>0, <2>1 DEF Ids
  <2> QED  BY <2>1, <2>2
<1> QED  BY <1>1, <1>2

\* A record that was open is registered with its outcome.
LEMMA ConcludeRegisters ==
    ASSUME DeploymentInvariant, NEW c \in Requests, pc[c] = "health",
           NEW status \in {"success", "failed"}, Conclude(target[c], status)
    PROVE  /\ Grown /\ Ids' = Ids /\ Len(records') = Len(records)
           /\ Registered' = Registered \cup {target[c]}
           /\ \A d \in Ids \ {target[c]} : records'[d] = records[d]
           /\ PreviousIsKnown' /\ DeployRecords' /\ RollbackRecords'
           /\ \A o \in Requests \ {c} :
                 pc[o] = "health" => records'[target[o]] = records[target[o]]
<1> DEFINE t == target[c]
<1>0. records \in Seq(Record) /\ Len(records) \in Nat
  BY DEF DeploymentInvariant, TypeOK
<1>1. /\ t \in Ids /\ records[t].status = "in_progress"
      /\ ~records[t].registered /\ records[t].previous = prev[c]
      /\ prev[c] # 0 => prev[c] \in Successes
  BY DEF DeploymentInvariant, Deploying
<1>2. records[t] \in Record
  BY <1>0, <1>1 DEF Ids
<1> DEFINE r == [records[t] EXCEPT !.status = status, !.registered = TRUE]
<1>3. /\ r \in Record /\ r.registered /\ r.kind = records[t].kind
      /\ r.config = records[t].config /\ r.previous = records[t].previous
  BY <1>2 DEF Record
<1>4. records' = [records EXCEPT ![t] = r]
  BY <1>0, <1>1, <1>2 DEF Conclude, Ids, Record
<1> HIDE DEF r
<1>5. /\ records' \in Seq(Record) /\ Len(records') = Len(records)
      /\ records'[t] = r
      /\ \A d \in Ids \ {t} : records'[d] = records[d]
  BY <1>0, <1>1, <1>3, <1>4 DEF Ids
<1>6. Ids' = Ids /\ Grown
  BY <1>0, <1>1, <1>3, <1>5 DEF Grown, Ids
<1>7. Registered' = Registered \cup {t}
  BY <1>1, <1>3, <1>5, <1>6 DEF Registered
<1>8. \A d \in Ids : /\ records'[d].previous = records[d].previous
                     /\ records'[d].kind = records[d].kind
                     /\ records'[d].config = records[d].config
                     /\ records[d].status = "success" => records'[d].status = "success"
  BY <1>6 DEF Grown
<1>9. DeployRecords' /\ RollbackRecords'
  BY <1>6, <1>8, KeptRecords
<1>11. PreviousIsKnown'
  <2>1. records[t].kind = "deploy"
    BY DEF DeploymentInvariant, Deploying
  <2>2. prev[c] # 0 => prev[c] \in Registered /\ prev[c] < t
    BY <1>0, <1>1, <2>1 DEF DeploymentInvariant, DeployRecords, Successes, Ids
  <2>3. \A d \in Registered : records[d].previous # 0 =>
            /\ records[d].previous < d
            /\ records[d].previous \in Registered
    BY DEF DeploymentInvariant, PreviousIsKnown
  <2>4. Registered \subseteq Ids
    BY DEF Registered
  <2> QED  BY <1>1, <1>7, <1>8, <2>2, <2>3, <2>4 DEF PreviousIsKnown
<1>12. \A o \in Requests \ {c} : pc[o] = "health" =>
           target[o] \in Ids /\ target[o] # t
  BY DEF DeploymentInvariant, OwnRecord, Deploying
<1> QED  BY <1>5, <1>6, <1>7, <1>9, <1>11, <1>12

\* A request that returns with the outcome of its deployment.
LEMMA ConcludeAndReturn ==
    ASSUME DeploymentInvariant, NEW c \in Requests, pc[c] = "health",
           NEW status \in {"success", "failed"}, Conclude(target[c], status),
           Return(c), UNCHANGED <<live, upkeep, overlapped, faulted>>
    PROVE  DeploymentInvariant'
<1>0. TypeOK
  BY DEF DeploymentInvariant
<1>1. /\ Grown /\ Ids' = Ids /\ Len(records') = Len(records)
      /\ Registered' = Registered \cup {target[c]}
      /\ PreviousIsKnown' /\ DeployRecords' /\ RollbackRecords'
      /\ \A o \in Requests \ {c} :
            pc[o] = "health" => records'[target[o]] = records[target[o]]
  BY ConcludeRegisters
<1>2. Returned(c) /\ \A o \in Requests \ {c} : Untouched(o)
  BY <1>0, <1>1, ReturnEffect DEF Untouched
<1>3. TypeOK'
  <2>1. \A o \in Requests : pc'[o] = "health" =>
            target'[o] \in Ids' /\ ~records'[target'[o]].registered
    BY <1>0, <1>1, <1>2 DEF TypeOK, Untouched, Returned
  <2> QED  BY <1>0, <1>1, <2>1, ReturnEffect DEF TypeOK, Grown
<1>4. \A o \in Requests : Deploying(o)' /\ RollingBack(o)'
  BY <1>1, <1>2, UntouchedKeeps, ReturnedKeeps
<1>5. OwnRecord'
  BY <1>2 DEF DeploymentInvariant, OwnRecord, Untouched, Returned
<1> QED  BY <1>1, <1>3, <1>4, <1>5 DEF DeploymentInvariant

LEMMA BecomesHealthyKeeps ==
    ASSUME DeploymentInvariant, NEW c \in Requests, BecomesHealthy(c)
    PROVE  DeploymentInvariant'
BY ConcludeAndReturn DEF BecomesHealthy

\* A failed deployment that is rolled back at once.
LEMMA GivesUpKeeps ==
    ASSUME DeploymentInvariant, NEW c \in Requests, GivesUp(c)
    PROVE  DeploymentInvariant'
<1> DEFINE t == target[c]
<1>0. TypeOK /\ records \in Seq(Record) /\ Len(records) \in Nat
  BY DEF DeploymentInvariant, TypeOK
<1>1. /\ pc[c] = "health" /\ Conclude(t, "failed")
      /\ UNCHANGED <<live, upkeep, overlapped, faulted>>
  BY DEF GivesUp
<1>2. CASE Return(c)
  BY <1>1, <1>2, ConcludeAndReturn
<1>3. CASE ~Return(c)
  <2>1. /\ CanRollback(t)
        /\ op' = [op EXCEPT ![c] = "rollback"]
        /\ config' = [config EXCEPT ![c] = records[prev[c]].config]
        /\ pc' = [pc EXCEPT ![c] = "provision"]
        /\ UNCHANGED <<prev, target>>
    BY <1>3 DEF GivesUp, Goto
  <2>2. /\ Grown /\ Ids' = Ids /\ Len(records') = Len(records)
        /\ Registered' = Registered \cup {t}
        /\ PreviousIsKnown' /\ DeployRecords' /\ RollbackRecords'
        /\ \A o \in Requests \ {c} :
              pc[o] = "health" => records'[target[o]] = records[target[o]]
    BY <1>1, ConcludeRegisters
  <2>3. /\ t \in Ids /\ records[t].kind = "deploy"
        /\ records[t].previous = prev[c] /\ prev[c] \in Registered
    BY <1>1, <2>1 DEF DeploymentInvariant, Deploying, CanRollback
  <2>4. prev[c] \in Ids /\ prev[c] \in Successes /\ prev[c] < t
    BY <1>0, <2>3 DEF DeploymentInvariant, Deploying, DeployRecords, Registered, Ids
  <2>5. \A o \in Requests \ {c} : Untouched(o)
    BY <1>0, <2>1, <2>2 DEF TypeOK, Untouched
  <2>6. /\ pc'[c] = "provision" /\ op'[c] = "rollback" /\ target'[c] = t
        /\ config'[c] = records[prev[c]].config /\ prev'[c] = prev[c]
    BY <1>0, <2>1 DEF TypeOK
  <2>7. TypeOK'
    <3>1. \A o \in Requests : pc'[o] = "health" =>
              target'[o] \in Ids' /\ ~records'[target'[o]].registered
      BY <1>0, <2>2, <2>5, <2>6 DEF TypeOK, Untouched
    <3>2. records[prev[c]].config \in Configs
      BY <1>0, <2>4, RecordFields
    <3>3. /\ pc' \in [Requests -> {"idle", "provision", "provisioned", "health"}]
          /\ op' \in [Requests -> {"none", "deploy", "deployWithRollback", "rollback"}]
          /\ config' \in [Requests -> Configs \cup {NoConfig}]
      BY <1>0, <2>1, <3>2 DEF TypeOK
    <3> QED  BY <1>0, <1>1, <2>1, <2>2, <3>1, <3>3 DEF TypeOK, Grown
  <2>8. ASSUME NEW o \in Requests
        PROVE  Deploying(o)' /\ RollingBack(o)'
    <3>1. CASE o = c
      <4>1. prev[c] \in Successes'
        BY <2>2, <2>4 DEF Successes, Registered, Grown
      <4>2. Deploying(c)'
        BY <2>6, <4>1 DEF Deploying
      <4>3. /\ records'[t].previous = prev[c]
            /\ records'[prev[c]].config = records[prev[c]].config
        BY <2>2, <2>3, <2>4 DEF Grown
      <4>4. RollingBack(c)'
        BY <2>2, <2>3, <2>4, <2>6, <4>3 DEF RollingBack
      <4> QED  BY <3>1, <4>2, <4>4
    <3>2. CASE o # c
      BY <2>2, <2>5, <3>2, UntouchedKeeps
    <3> QED  BY <3>1, <3>2
  <2>9. OwnRecord'
    BY <2>5, <2>6 DEF DeploymentInvariant, OwnRecord, Untouched
  <2> QED  BY <2>2, <2>7, <2>8, <2>9 DEF DeploymentInvariant
<1> QED  BY <1>2, <1>3

-----------------------------------------------------------------------------
(* The rest, and the theorems.                                              *)

LEMMA DisableRollbackKeeps ==
    ASSUME DeploymentInvariant, DisableRollback
    PROVE  DeploymentInvariant'
<1>0. TypeOK /\ records \in Seq(Record) /\ Len(records) \in Nat
  BY DEF DeploymentInvariant, TypeOK
<1>1. PICK e \in Ids : records' = [records EXCEPT ![e].available = FALSE]
  BY DEF DisableRollback, Registered
<1> DEFINE r == [records[e] EXCEPT !.available = FALSE]
<1>2. records[e] \in Record
  BY <1>0 DEF Ids
<1>3. /\ r \in Record /\ r.registered = records[e].registered
      /\ r.kind = records[e].kind /\ r.config = records[e].config
      /\ r.previous = records[e].previous /\ r.status = records[e].status
  BY <1>2 DEF Record
<1>4. records' = [records EXCEPT ![e] = r]
  BY <1>1
<1> HIDE DEF r
<1>5. /\ records' \in Seq(Record) /\ Len(records') = Len(records) /\ Ids' = Ids
      /\ \A d \in Ids :
            /\ records'[d].registered = records[d].registered
            /\ records'[d].kind = records[d].kind
            /\ records'[d].config = records[d].config
            /\ records'[d].previous = records[d].previous
            /\ records'[d].status = records[d].status
  BY <1>0, <1>3, <1>4 DEF Ids
<1>6. Registered' = Registered /\ Successes' = Successes
  BY <1>5 DEF Registered, Successes
<1>7. /\ UNCHANGED <<live, pc, op, config, prev, target, overlapped, faulted>>
      /\ upkeep' = upkeep + 1
  BY DEF DisableRollback, locals
<1>8. TypeOK'
  <2>1. upkeep' \in Nat
    BY <1>0, <1>7 DEF TypeOK
  <2>2. \A c \in Requests : pc'[c] = "health" =>
            target'[c] \in Ids' /\ ~records'[target'[c]].registered
    BY <1>0, <1>5, <1>7 DEF TypeOK
  <2> QED  BY <1>0, <1>5, <1>7, <2>1, <2>2 DEF TypeOK
<1>9. PreviousIsKnown'
  BY <1>5, <1>6 DEF DeploymentInvariant, PreviousIsKnown, Registered
<1>10. DeployRecords' /\ RollbackRecords'
  BY <1>5, KeptRecords
<1>12. \A o \in Requests : Deploying(o)'
  BY <1>5, <1>6, <1>7 DEF DeploymentInvariant, Deploying
<1>13. \A o \in Requests : RollingBack(o)'
  BY <1>5, <1>6, <1>7 DEF DeploymentInvariant, RollingBack, Registered
<1>14. OwnRecord'
  BY <1>7 DEF DeploymentInvariant, OwnRecord
<1> QED  BY <1>8, <1>9, <1>10, <1>12, <1>13, <1>14 DEF DeploymentInvariant

LEMMA RestartKeeps ==
    ASSUME DeploymentInvariant, Restart
    PROVE  DeploymentInvariant'
<1>0. TypeOK /\ records \in Seq(Record) /\ Len(records) \in Nat
  BY DEF DeploymentInvariant, TypeOK
<1>1. \A d \in Ids : records[d] \in Record
  BY <1>0 DEF Ids
<1>2. \A d \in Ids : [records[d] EXCEPT !.registered = FALSE] \in Record
  BY <1>1 DEF Record
<1>3. records' = [d \in Ids |-> [records[d] EXCEPT !.registered = FALSE]]
  BY DEF Restart
<1>4. records' \in Seq(Record) /\ Len(records') = Len(records) /\ Ids' = Ids
  BY <1>0, <1>2, <1>3 DEF Ids
<1>5. \A d \in Ids : /\ ~records'[d].registered
                     /\ records'[d].kind = records[d].kind
                     /\ records'[d].config = records[d].config
                     /\ records'[d].previous = records[d].previous
                     /\ records'[d].status = records[d].status
  BY <1>1, <1>3 DEF Record
<1>6. /\ pc' = [c \in Requests |-> "idle"] /\ op' = [c \in Requests |-> "none"]
      /\ config' = [c \in Requests |-> NoConfig]
      /\ prev' = [c \in Requests |-> 0] /\ target' = [c \in Requests |-> 0]
      /\ upkeep' = upkeep + 1 /\ faulted' = TRUE
      /\ UNCHANGED <<live, overlapped>>
  BY DEF Restart
<1>7. TypeOK'
  BY <1>0, <1>4, <1>6 DEF TypeOK
<1>8. PreviousIsKnown'
  BY <1>4, <1>5 DEF PreviousIsKnown, Registered
<1>9. DeployRecords' /\ RollbackRecords'
  BY <1>4, <1>5, KeptRecords
<1>11. \A o \in Requests : Deploying(o)' /\ RollingBack(o)'
  BY <1>6, ReturnedKeeps DEF Returned
<1>12. OwnRecord'
  BY <1>6 DEF OwnRecord
<1> QED  BY <1>7, <1>8, <1>9, <1>11, <1>12 DEF DeploymentInvariant

\* The invariant holds in every reachable state.
THEOREM Invariance == Spec => []DeploymentInvariant
<1>1. Init => DeploymentInvariant
  <2> SUFFICES ASSUME Init PROVE DeploymentInvariant
    OBVIOUS
  <2>1. records = <<>> /\ Len(records) = 0 /\ Ids = {} /\ records \in Seq(Record)
    BY DEF Init, Ids
  <2>2. TypeOK
    <3>1. 0 \in 0 .. Len(records) /\ live \in Live
      BY <2>1 DEF Init, Live
    <3> QED  BY <2>1, <3>1 DEF Init, TypeOK
  <2> QED  BY <2>1, <2>2 DEF Init, DeploymentInvariant, PreviousIsKnown,
              DeployRecords, RollbackRecords, Deploying, RollingBack, OwnRecord,
              Registered
<1>2. DeploymentInvariant /\ [Next]_vars => DeploymentInvariant'
  <2> SUFFICES ASSUME DeploymentInvariant, [Next]_vars
               PROVE  DeploymentInvariant'
    OBVIOUS
  <2>1. CASE UNCHANGED vars
    BY <2>1 DEF vars, locals, DeploymentInvariant, TypeOK, PreviousIsKnown,
       DeployRecords, RollbackRecords, Deploying, RollingBack, OwnRecord,
       Registered, Successes, Ids
  <2>2. ASSUME NEW c \in Requests, Request(c)
        PROVE  DeploymentInvariant'
    BY <2>2, DeployKeeps, RollbackKeeps, ProvisionKeeps, ProvisionFailsKeeps,
       ProvisionedKeeps, BecomesHealthyKeeps, GivesUpKeeps, RolledBackKeeps
       DEF Request
  <2> QED  BY <2>1, <2>2, DisableRollbackKeeps, RestartKeeps DEF Next
<1> QED  BY <1>1, <1>2, PTL DEF Spec

\* The state keeps its type, and a request that polls keeps a record of its
\* own, which no other request finds.
THEOREM TypeCorrect == Spec => []TypeOK
<1>1. DeploymentInvariant => TypeOK
  BY DEF DeploymentInvariant
<1> QED  BY <1>1, Invariance, PTL

\* The previous deployment of a registered one is older and registered, so
\* that a rollback never misses its target.
THEOREM PreviousAlwaysKnown == Spec => []PreviousIsKnown
<1>1. DeploymentInvariant => PreviousIsKnown
  BY DEF DeploymentInvariant
<1> QED  BY <1>1, Invariance, PTL

\* Rolling back a deployment returns to one that was a success before it.
THEOREM DeployAlwaysRollsBackToSuccess == Spec => []DeployRollsBackToSuccess
<1>1. DeploymentInvariant => DeployRollsBackToSuccess
  <2> SUFFICES ASSUME DeploymentInvariant, NEW r \in Ids,
                      records[r].kind = "rollback",
                      records[records[r].previous].kind = "deploy"
               PROVE  \E s \in 1 .. records[r].previous - 1 :
                          /\ s = records[records[r].previous].previous
                          /\ records[s].status = "success"
                          /\ records[r].config = records[s].config
    BY DEF DeployRollsBackToSuccess
  <2> DEFINE d == records[r].previous
             s == records[d].previous
  <2>1. /\ d \in 1 .. r - 1 /\ s \in 1 .. d - 1
        /\ records[r].config = records[s].config
    BY DEF DeploymentInvariant, RollbackRecords
  <2>2. d \in Ids /\ s # 0
    BY <2>1 DEF Ids
  <2>3. records[s].status = "success"
    BY <2>2 DEF DeploymentInvariant, DeployRecords
  <2> QED  BY <2>1, <2>3
<1> QED  BY <1>1, Invariance, PTL
-----------------------------------------------------------------------------
(* What is live.                                                            *)

\* A request that has provisioned what is live, and not recorded it yet.
Accounts(c) ==
    \/ /\ pc[c] = "provisioned" /\ ~DryRun(config[c])
       /\ live = Put(Kind(c), config[c])
    \/ /\ pc[c] = "health" /\ target[c] \in Provisioning
       /\ live = Put(records[target[c]].kind, records[target[c]].config)

Recorded == \E d \in Registered \cap Provisioning :
                live = Put(records[d].kind, records[d].config)

LiveAccounted ==
    ~faulted => live = Nothing \/ Recorded \/ \E c \in Requests : Accounts(c)

\* The newest record of which something was provisioned tells what is live, and what was
\* found healthy can answer.
Tells(d) == (\A e \in Provisioning : e <= d) =>
                live = Put(records[d].kind, records[d].config)

NewestTrue ==
    /\ Provisioning = {} => live = Nothing
    /\ \A d \in Provisioning : Tells(d)
    /\ records # <<>> =>
          LET newest == records[Len(records)]
          IN  newest.kind = "deploy" /\ newest.status = "success"
                 /\ newest.config \notin Unprobed => Answering(live)

\* With requests one at a time it does, but while one has provisioned and not
\* constructed its record; and a request that polls has the newest record.
HasPut(c) == pc[c] = "provisioned" /\ ~DryRun(config[c])

OneAtATime ==
    /\ \A c, o \in Requests : pc[c] # "idle" /\ pc[o] # "idle" => c = o
    /\ \A c \in Requests : HasPut(c) => live = Put(Kind(c), config[c])
    /\ \A c \in Requests : pc[c] = "health" => target[c] = Len(records)
    /\ (\A c \in Requests : ~HasPut(c)) => NewestTrue

LiveInvariant == LiveAccounted /\ (~faulted /\ ~overlapped => OneAtATime)

\* A step of c that leaves what is live: whoever had provisioned it still has, or c has
\* recorded it.
LEMMA AccountsStay ==
    ASSUME DeploymentInvariant, LiveAccounted, Grown, NEW c \in Requests,
           \A o \in Requests \ {c} : Untouched(o),
           Accounts(c) => Recorded' \/ Accounts(c)',
           UNCHANGED <<live, faulted>>
    PROVE  LiveAccounted'
<1> SUFFICES ASSUME ~faulted, live # Nothing
             PROVE  Recorded' \/ \E o \in Requests : Accounts(o)'
  BY DEF LiveAccounted
<1>0. records \in Seq(Record) /\ Len(records) \in Nat
  BY DEF DeploymentInvariant, TypeOK
<1>1. CASE Recorded
  <2>1. PICK d \in Registered \cap Provisioning :
            live = Put(records[d].kind, records[d].config)
    BY <1>1 DEF Recorded
  <2>2. /\ d \in Registered' \cap Provisioning'
        /\ records'[d].config = records[d].config /\ records'[d].kind = records[d].kind
    BY <1>0, <2>1 DEF Grown, Registered, Provisioning, Ids
  <2> QED  BY <2>1, <2>2 DEF Recorded
<1>2. ASSUME NEW o \in Requests, Accounts(o)
      PROVE  Recorded' \/ Accounts(o)'
  <2>1. CASE o = c
    BY <1>2, <2>1
  <2>2. CASE o # c
    <3>1. CASE pc[o] = "provisioned"
      BY <1>2, <2>2, <3>1 DEF Untouched, Accounts, Kind
    <3>2. CASE pc[o] = "health"
      <4>1. /\ target[o] \in Ids' /\ target'[o] = target[o]
            /\ records'[target[o]] = records[target[o]]
        BY <1>0, <2>2, <3>2 DEF Untouched, Grown, Ids, DeploymentInvariant, TypeOK
      <4> QED  BY <1>2, <2>2, <3>2, <4>1 DEF Untouched, Accounts, Provisioning
    <3> QED  BY <1>2, <3>1, <3>2 DEF Accounts
  <2> QED  BY <2>1, <2>2
<1> QED  BY <1>1, <1>2 DEF LiveAccounted

\* A record that is added is the newest; a dry run's tells nothing.
LEMMA NewestAdded ==
    ASSUME records \in Seq(Record), Len(records') = Len(records) + 1, UNCHANGED live,
           \A d \in Ids : records'[d] = records[d],
           NEW kind, NEW k, records'[Len(records) + 1].kind = kind,
           records'[Len(records) + 1].config = k,
           kind = "deploy" /\ records'[Len(records) + 1].status = "success" => k \in Unprobed,
           DryRun(k) => NewestTrue, ~DryRun(k) => live = Put(kind, k)
    PROVE  NewestTrue'
<1> DEFINE new == Len(records) + 1
<1>0. Len(records) \in Nat /\ Ids' = Ids \cup {new} /\ \A d \in Ids : d \in Nat /\ d < new
  BY DEF Ids
<1>1. CASE DryRun(k)
  <2>1. Provisioning' = Provisioning
    BY <1>0, <1>1 DEF Provisioning, DryRun
  <2>2. \A d \in Provisioning : records'[d] = records[d]
    BY DEF Provisioning
  <2>3. \A d \in Provisioning : Tells(d)'
    BY <1>1, <2>1, <2>2 DEF NewestTrue, Tells
  <2> QED  BY <1>0, <1>1, <2>1, <2>3 DEF NewestTrue
<1>2. CASE ~DryRun(k)
  <2>1. new \in Provisioning' /\ Provisioning' \subseteq Ids \cup {new}
    BY <1>0, <1>2 DEF Provisioning, DryRun
  <2>2. ASSUME NEW d \in Provisioning', (\A e \in Provisioning : e <= d)'
        PROVE  live' = Put(records'[d].kind, records'[d].config)
    <3>1. d = new
      BY <1>0, <2>1, <2>2
    <3> QED  BY <1>2, <3>1
  <2> QED  BY <2>1, <2>2 DEF NewestTrue, Tells
<1> QED  BY <1>1, <1>2

\* Steps that leave what the records say, but perhaps the outcome of the newest.
LEMMA NewestKept ==
    ASSUME NewestTrue, records \in Seq(Record), Len(records') = Len(records), UNCHANGED live,
           \A d \in Ids : /\ records'[d].kind = records[d].kind
                         /\ records'[d].config = records[d].config,
           \/ \A d \in Ids : records'[d].status = records[d].status
           \/ Answering(live)
           \/ records # <<>> /\ records'[Len(records)].status # "success"
    PROVE  NewestTrue'
<1>1. Ids' = Ids /\ Provisioning' = Provisioning
  BY DEF Ids, Provisioning
<1>2. \A d \in Provisioning : Tells(d)'
  BY <1>1 DEF NewestTrue, Tells, Provisioning
<1>3. records' # <<>> => records # <<>> /\ Len(records) \in Ids
  BY DEF Ids
<1>4. Answering(live)' <=> Answering(live)
  BY DEF Answering
<1> QED  BY <1>1, <1>2, <1>3, <1>4 DEF NewestTrue

\* What a step of c leaves of the other requests, when it is the only one under way.
LEMMA AloneStays ==
    ASSUME OneAtATime, NEW c \in Requests, pc[c] # "idle",
           \A o \in Requests \ {c} : pc'[o] = pc[o]
    PROVE  /\ \A o \in Requests \ {c} : pc[o] = "idle" /\ pc'[o] = "idle"
           /\ \A a, o \in Requests : pc'[a] # "idle" /\ pc'[o] # "idle" => a = o
BY DEF OneAtATime

\* A request arrives, and was alone if none has been under way with another.
LEMMA ArrivesLive ==
    ASSUME DeploymentInvariant, LiveInvariant, NEW c \in Requests, pc[c] = "idle",
           Goto(c, "provision"), \A o \in Requests \ {c} : Untouched(o),
           overlapped' = (overlapped \/ \E o \in Requests : pc[o] # "idle"),
           UNCHANGED <<live, records, faulted>>
    PROVE  LiveInvariant'
<1>1. pc'[c] = "provision" /\ \A o \in Requests \ {c} : pc'[o] = pc[o]
  BY DEF DeploymentInvariant, TypeOK, Goto
<1>2. LiveAccounted'
  BY SameRecords, AccountsStay DEF LiveInvariant, Accounts
<1>3. ASSUME ~faulted', ~overlapped'  PROVE OneAtATime'
  <2>1. OneAtATime /\ \A o \in Requests : pc[o] = "idle"
    BY <1>3 DEF LiveInvariant
  <2>2. NewestTrue'
    BY <2>1, NewestKept DEF OneAtATime, HasPut, DeploymentInvariant, TypeOK
  <2> QED  BY <1>1, <2>1, <2>2 DEF OneAtATime, HasPut
<1> QED  BY <1>2, <1>3 DEF LiveInvariant

LEMMA DeployLive ==
    ASSUME DeploymentInvariant, LiveInvariant, NEW c \in Requests, Deploy(c)
    PROVE  LiveInvariant'
<1>1. \A o \in Requests \ {c} : Untouched(o)
  BY DEF Deploy, Arrive, Goto, Untouched, DeploymentInvariant, TypeOK
<1> QED  BY <1>1, ArrivesLive DEF Deploy, Arrive

LEMMA RollbackLive ==
    ASSUME DeploymentInvariant, LiveInvariant, NEW c \in Requests, Rollback(c)
    PROVE  LiveInvariant'
<1>1. \A o \in Requests \ {c} : Untouched(o)
  BY DEF Rollback, Arrive, Goto, Untouched, DeploymentInvariant, TypeOK
<1> QED  BY <1>1, ArrivesLive DEF Rollback, Arrive

LEMMA ProvisionLive ==
    ASSUME DeploymentInvariant, LiveInvariant, NEW c \in Requests, Provision(c)
    PROVE  LiveInvariant'
<1>1. /\ pc[c] = "provision" /\ pc'[c] = "provisioned"
      /\ live' = IF DryRun(config[c]) THEN live ELSE Put(Kind(c), config[c])
      /\ \A o \in Requests \ {c} : pc'[o] = pc[o]
      /\ UNCHANGED <<records, op, config, target, overlapped, faulted>>
  BY DEF Provision, Goto, locals, DeploymentInvariant, TypeOK
<1>2. Kind(c)' = Kind(c)
  BY <1>1 DEF Kind
<1>3. LiveAccounted'
  <2>1. CASE DryRun(config[c])
    <3>1. \A o \in Requests \ {c} : Untouched(o)
      BY <1>1 DEF Provision, locals, Untouched
    <3>2. ~Accounts(c)
      BY <1>1 DEF Accounts
    <3> QED  BY <1>1, <2>1, <3>1, <3>2, SameRecords, AccountsStay DEF LiveInvariant
  <2>2. CASE ~DryRun(config[c])
    <3>1. Accounts(c)'
      BY <1>1, <1>2, <2>2 DEF Accounts
    <3> QED  BY <3>1 DEF LiveAccounted
  <2> QED  BY <2>1, <2>2
<1>4. ASSUME OneAtATime  PROVE OneAtATime'
  <2>1. /\ \A o \in Requests \ {c} : pc[o] = "idle" /\ pc'[o] = "idle"
        /\ \A a, o \in Requests : pc'[a] # "idle" /\ pc'[o] # "idle" => a = o
    BY <1>1, <1>4, AloneStays
  <2>2. \A o \in Requests : HasPut(o)' => o = c /\ ~DryRun(config[c])
    BY <1>1, <2>1 DEF HasPut
  <2>3. CASE DryRun(config[c])
    <3>1. NewestTrue
      BY <1>1, <1>4, <2>1 DEF OneAtATime, HasPut
    <3>2. NewestTrue'
      BY <1>1, <2>3, <3>1, NewestKept DEF DeploymentInvariant, TypeOK
    <3> QED  BY <1>1, <2>1, <2>2, <2>3, <3>2 DEF OneAtATime
  <2>4. CASE ~DryRun(config[c])
    <3>1. HasPut(c)' /\ live' = Put(Kind(c), config[c])'
      BY <1>1, <1>2, <2>4 DEF HasPut
    <3>2. \A o \in Requests : pc'[o] = "health" => target'[o] = Len(records')
      BY <1>1, <2>1
    <3> QED  BY <2>1, <2>2, <3>1, <3>2 DEF OneAtATime
  <2> QED  BY <2>3, <2>4
<1> QED  BY <1>1, <1>3, <1>4 DEF LiveInvariant

LEMMA ProvisionedLive ==
    ASSUME DeploymentInvariant, LiveInvariant, NEW c \in Requests, Provisioned(c)
    PROVE  LiveInvariant'
<1> DEFINE new == Len(records) + 1
<1>0. TypeOK /\ records \in Seq(Record) /\ Len(records) \in Nat
  BY DEF DeploymentInvariant, TypeOK
<1>1. /\ pc[c] = "provisioned" /\ config[c] \in Configs /\ prev[c] \in Nat
      /\ UNCHANGED <<live, overlapped, faulted>>
  BY <1>0 DEF DeploymentInvariant, Deploying, Provisioned, TypeOK
<1>2. Kind(c) = "deploy"
  BY DEF Provisioned, Kind
<1>3. OneAtATime => /\ DryRun(config[c]) => NewestTrue
                    /\ ~DryRun(config[c]) => live = Put("deploy", config[c])
  BY <1>1, <1>2 DEF OneAtATime, HasPut
<1>4. CASE config[c] \in Unprobed
  <2>1. NewRecord(c, "deploy", "success", prev[c], TRUE) /\ Return(c)
    BY <1>4 DEF Provisioned
  <2>2. /\ Grown /\ Len(records') = new /\ \A d \in Ids : records'[d] = records[d]
        /\ records'[new].config = config[c] /\ records'[new].registered = TRUE
        /\ records'[new].kind = "deploy"
    BY <1>0, <1>1, <2>1, NewRecordAppends
  <2>3. Returned(c) /\ \A o \in Requests \ {c} : Untouched(o)
    BY <1>0, <2>1, <2>2, ReturnEffect DEF Untouched, TypeOK
  <2>4. new \in Registered' /\ (~DryRun(config[c]) => new \in Provisioning')
    BY <1>0, <2>2 DEF Registered, Provisioning, DryRun, Ids
  <2>5. LiveAccounted'
    <3>1. Accounts(c) => Recorded'
      BY <1>1, <1>2, <2>2, <2>4 DEF Accounts, Recorded
    <3> QED  BY <1>1, <2>2, <2>3, <3>1, AccountsStay DEF LiveInvariant
  <2>6. ASSUME OneAtATime  PROVE OneAtATime'
    <3>1. \A o \in Requests : pc'[o] = "idle"
      BY <1>1, <2>3, <2>6, AloneStays DEF Returned, Untouched
    <3>2. NewestTrue'
      BY <1>0, <1>1, <1>4, <1>3, <2>2, <2>6, NewestAdded
    <3> QED  BY <3>1, <3>2 DEF OneAtATime, HasPut
  <2> QED  BY <1>1, <2>5, <2>6 DEF LiveInvariant
<1>5. CASE config[c] \notin Unprobed
  <2>1. /\ NewRecord(c, "deploy", "in_progress", prev[c], FALSE)
        /\ target' = [target EXCEPT ![c] = new]
        /\ pc' = [pc EXCEPT ![c] = "health"]
        /\ UNCHANGED <<op, config, prev>>
    BY <1>5 DEF Provisioned, Goto
  <2>2. /\ Grown /\ Len(records') = new /\ \A d \in Ids : records'[d] = records[d]
        /\ records'[new].config = config[c] /\ records'[new].status = "in_progress"
        /\ records'[new].kind = "deploy"
    BY <1>0, <1>1, <2>1, NewRecordAppends
  <2>3. /\ pc'[c] = "health" /\ target'[c] = new
        /\ \A o \in Requests \ {c} : Untouched(o)
    BY <1>0, <2>1, <2>2 DEF TypeOK, Untouched
  <2>4. LiveAccounted'
    <3>1. Accounts(c) => Accounts(c)'
      BY <1>0, <1>1, <1>2, <2>2, <2>3 DEF Accounts, Provisioning, DryRun, Ids
    <3> QED  BY <1>1, <2>2, <2>3, <3>1, AccountsStay DEF LiveInvariant
  <2>5. ASSUME OneAtATime  PROVE OneAtATime'
    <3>1. /\ \A o \in Requests \ {c} : pc'[o] = "idle"
          /\ \A a, o \in Requests : pc'[a] # "idle" /\ pc'[o] # "idle" => a = o
      BY <1>1, <2>3, <2>5, AloneStays DEF Untouched
    <3>2. NewestTrue'
      BY <1>0, <1>1, <1>3, <2>2, <2>5, NewestAdded
    <3> QED  BY <2>2, <2>3, <3>1, <3>2 DEF OneAtATime, HasPut
  <2> QED  BY <1>1, <2>4, <2>5 DEF LiveInvariant
<1> QED  BY <1>4, <1>5

LEMMA RolledBackLive ==
    ASSUME DeploymentInvariant, LiveInvariant, NEW c \in Requests, RolledBack(c)
    PROVE  LiveInvariant'
<1> DEFINE new == Len(records) + 1
<1>0. TypeOK /\ records \in Seq(Record) /\ Len(records) \in Nat
  BY DEF DeploymentInvariant, TypeOK
<1>1. /\ pc[c] = "provisioned"
      /\ NewRecord(c, "rollback", "success", target[c], TRUE) /\ Return(c)
      /\ UNCHANGED <<live, overlapped, faulted>>
  BY DEF RolledBack
<1>2. config[c] \in Configs /\ target[c] \in Nat
  <2>1. /\ target[c] \in Registered /\ records[target[c]].previous \in Registered
        /\ config[c] = records[records[target[c]].previous].config
    BY DEF DeploymentInvariant, RollingBack, RolledBack
  <2> QED  BY <1>0, <2>1, RecordFields DEF Registered, Ids
<1>3. /\ Grown /\ Len(records') = new /\ \A d \in Ids : records'[d] = records[d]
      /\ records'[new].config = config[c] /\ records'[new].registered = TRUE
      /\ records'[new].kind = "rollback"
  BY <1>0, <1>1, <1>2, NewRecordAppends
<1>4. Returned(c) /\ \A o \in Requests \ {c} : Untouched(o)
  BY <1>0, <1>1, <1>3, ReturnEffect DEF Untouched, TypeOK
<1>5. /\ new \in Registered' /\ (~DryRun(config[c]) => new \in Provisioning')
      /\ Kind(c) = "rollback"
  BY <1>0, <1>3 DEF Registered, Provisioning, DryRun, Ids, Kind, RolledBack
<1>6. LiveAccounted'
  <2>1. Accounts(c) => Recorded'
    BY <1>1, <1>3, <1>5 DEF Accounts, Recorded
  <2> QED  BY <1>1, <1>3, <1>4, <2>1, AccountsStay DEF LiveInvariant
<1>7. ASSUME OneAtATime  PROVE OneAtATime'
  <2>1. /\ DryRun(config[c]) => NewestTrue
        /\ ~DryRun(config[c]) => live = Put("rollback", config[c])
    <3>1. \A o \in Requests : HasPut(o) => o = c
      BY <1>1, <1>7 DEF OneAtATime, HasPut
    <3> QED  BY <1>1, <1>5, <1>7, <3>1 DEF OneAtATime, HasPut
  <2>2. \A o \in Requests : pc'[o] = "idle"
    BY <1>1, <1>4, <1>7, AloneStays DEF Returned, Untouched
  <2>3. NewestTrue'
    BY <1>0, <1>1, <1>3, <2>1, NewestAdded
  <2> QED  BY <2>2, <2>3 DEF OneAtATime, HasPut
<1> QED  BY <1>1, <1>6, <1>7 DEF LiveInvariant

\* The outcome of a deployment, which may be rolled back at once.
LEMMA ConcludeLive ==
    ASSUME DeploymentInvariant, LiveInvariant, NEW c \in Requests, pc[c] = "health",
           NEW status \in {"success", "failed"}, Conclude(target[c], status),
           status = "success" => Answering(live),
           pc'[c] \in {"idle", "provision"}, \A o \in Requests \ {c} : Untouched(o),
           UNCHANGED <<live, overlapped, faulted>>
    PROVE  LiveInvariant'
<1> DEFINE t == target[c]
<1>0. TypeOK /\ records \in Seq(Record) /\ Len(records) \in Nat /\ t \in Ids
  BY DEF DeploymentInvariant, TypeOK
<1>1. /\ Grown /\ Len(records') = Len(records)
      /\ Registered' = Registered \cup {t}
  BY ConcludeRegisters
<1>2. /\ records'[t].config = records[t].config
      /\ status = "failed" => records'[t].status = "failed"
  <2>1. records[t] \in Record
    BY <1>0 DEF Ids
  <2>2. records' = [records EXCEPT ![t] = [@ EXCEPT !.status = status, !.registered = TRUE]]
    BY <1>0, <2>1 DEF Conclude, Ids, Record
  <2> QED  BY <1>0, <2>1, <2>2 DEF Ids, Record
<1>3. LiveAccounted'
  <2>1. Accounts(c) => Recorded'
    <3>1. t \in Registered' /\ (t \in Provisioning => t \in Provisioning')
      BY <1>1, <1>2, <1>0 DEF Provisioning, DryRun, Ids
    <3>2. records'[t].kind = records[t].kind
      BY <1>0, <1>1 DEF Grown
    <3> QED  BY <1>2, <3>1, <3>2 DEF Accounts, Recorded
  <2> QED  BY <1>1, <2>1, AccountsStay DEF LiveInvariant
<1>4. ASSUME OneAtATime  PROVE OneAtATime'
  <2>1. /\ \A o \in Requests \ {c} : pc[o] = "idle" /\ pc'[o] = "idle"
        /\ \A a, o \in Requests : pc'[a] # "idle" /\ pc'[o] # "idle" => a = o
    BY <1>4, AloneStays DEF Untouched
  <2>2. t = Len(records) /\ records # <<>> /\ NewestTrue
    BY <1>0, <1>4, <2>1 DEF OneAtATime, HasPut, Ids
  <2>3. NewestTrue'
    BY <1>0, <1>1, <1>2, <2>2, NewestKept DEF Grown
  <2>4. \A o \in Requests : pc'[o] \notin {"provisioned", "health"}
    BY <2>1
  <2> QED  BY <2>1, <2>3, <2>4 DEF OneAtATime, HasPut
<1> QED  BY <1>3, <1>4 DEF LiveInvariant

LEMMA BecomesHealthyLive ==
    ASSUME DeploymentInvariant, LiveInvariant, NEW c \in Requests, BecomesHealthy(c)
    PROVE  LiveInvariant'
<1>1. /\ pc[c] = "health" /\ Answering(live) /\ Conclude(target[c], "success") /\ Return(c)
      /\ UNCHANGED <<live, overlapped, faulted>> /\ TypeOK
  BY DEF BecomesHealthy, DeploymentInvariant
<1>2. \A o \in Requests \ {c} : pc[o] = "health" => records'[target[o]] = records[target[o]]
  BY <1>1, ConcludeRegisters
<1>3. pc'[c] = "idle" /\ \A o \in Requests \ {c} : Untouched(o)
  BY <1>1, <1>2, ReturnEffect DEF Untouched, Returned
<1> QED  BY <1>1, <1>3, ConcludeLive

LEMMA GivesUpLive ==
    ASSUME DeploymentInvariant, LiveInvariant, NEW c \in Requests, GivesUp(c)
    PROVE  LiveInvariant'
<1>1. /\ pc[c] = "health" /\ Conclude(target[c], "failed")
      /\ UNCHANGED <<live, overlapped, faulted>> /\ TypeOK
  BY DEF GivesUp, DeploymentInvariant
<1>2. \A o \in Requests \ {c} : pc[o] = "health" => records'[target[o]] = records[target[o]]
  BY <1>1, ConcludeRegisters
<1>3. pc'[c] \in {"idle", "provision"} /\ \A o \in Requests \ {c} : Untouched(o)
  <2>1. CASE Return(c)
    BY <1>1, <1>2, <2>1, ReturnEffect DEF Untouched, Returned
  <2>2. CASE ~Return(c)
    <3>1. /\ op' = [op EXCEPT ![c] = "rollback"]
          /\ config' = [config EXCEPT ![c] = records[prev[c]].config]
          /\ pc' = [pc EXCEPT ![c] = "provision"]
          /\ UNCHANGED <<prev, target>>
      BY <2>2 DEF GivesUp, Goto
    <3> QED  BY <1>1, <1>2, <3>1 DEF TypeOK, Untouched
  <2> QED  BY <2>1, <2>2
<1> QED  BY <1>1, <1>3, ConcludeLive

LEMMA DisableRollbackLive ==
    ASSUME DeploymentInvariant, LiveInvariant, DisableRollback
    PROVE  LiveInvariant'
<1>0. records \in Seq(Record) /\ Len(records) \in Nat
  BY DEF DeploymentInvariant, TypeOK
<1>1. PICK e \in Ids : records' = [records EXCEPT ![e].available = FALSE]
  BY DEF DisableRollback, Registered
<1>2. records[e] \in Record
  BY <1>0 DEF Ids
<1>3. /\ Len(records') = Len(records)
      /\ \A d \in Ids :
            /\ records'[d].registered = records[d].registered
            /\ records'[d].kind = records[d].kind
            /\ records'[d].config = records[d].config
            /\ records'[d].status = records[d].status
  BY <1>0, <1>1, <1>2 DEF Ids, Record
<1>4. UNCHANGED <<live, pc, op, config, target, overlapped, faulted>>
  BY DEF DisableRollback, locals
<1>5. Recorded => Recorded'
  <2>1. Registered' = Registered /\ Provisioning' = Provisioning
    BY <1>3 DEF Registered, Provisioning, Ids
  <2> QED  BY <1>3, <1>4, <2>1 DEF Recorded, Registered
<1>6. ASSUME NEW c \in Requests, Accounts(c) PROVE Accounts(c)'
  <2>1. Provisioning' = Provisioning
    BY <1>3 DEF Provisioning, Ids
  <2> QED  BY <1>3, <1>4, <1>6, <2>1 DEF Accounts, Kind, Provisioning
<1>7. NewestTrue => NewestTrue'
  BY <1>0, <1>3, <1>4, NewestKept
<1>8. ASSUME OneAtATime PROVE OneAtATime'
  <2>1. (\A c \in Requests : ~HasPut(c))' => NewestTrue'
    BY <1>4, <1>7, <1>8 DEF OneAtATime, HasPut
  <2>2. (\A c \in Requests : HasPut(c) => live = Put(Kind(c), config[c]))'
    BY <1>4, <1>8 DEF OneAtATime, HasPut, Kind
  <2> QED  BY <1>3, <1>4, <1>8, <2>1, <2>2 DEF OneAtATime
<1>9. LiveAccounted'
  <2>1. CASE \E c \in Requests : Accounts(c)
    BY <1>6, <2>1 DEF LiveAccounted
  <2>2. CASE ~\E c \in Requests : Accounts(c)
    BY <1>4, <1>5, <2>2 DEF LiveInvariant, LiveAccounted
  <2> QED  BY <2>1, <2>2
<1> QED  BY <1>4, <1>8, <1>9 DEF LiveInvariant

\* What was provisioned is recorded or about to be, in every behaviour.
THEOREM LiveInvariance == Spec => [](DeploymentInvariant /\ LiveInvariant)
<1>1. Init => LiveInvariant
  BY DEF Init, LiveInvariant, LiveAccounted, OneAtATime, NewestTrue, HasPut, Provisioning,
         Ids
<1>2. ASSUME DeploymentInvariant, LiveInvariant, [Next]_vars
      PROVE  LiveInvariant'
  <2>1. CASE UNCHANGED vars
    BY <1>2, <2>1 DEF vars, locals, LiveInvariant, LiveAccounted, Recorded, Accounts,
       OneAtATime, NewestTrue, Tells, HasPut, Kind, Answering, Registered, Provisioning, Ids
  <2>2. CASE \E c \in Requests : Deploy(c)
    BY <1>2, <2>2, DeployLive
  <2>3. CASE \E c \in Requests : Rollback(c)
    BY <1>2, <2>3, RollbackLive
  <2>4. CASE \E c \in Requests : Provision(c)
    BY <1>2, <2>4, ProvisionLive
  <2>5. CASE (\E c \in Requests : ProvisionFails(c)) \/ Restart
    <3>1. faulted' = TRUE
      BY <2>5 DEF ProvisionFails, Restart
    <3> QED  BY <3>1 DEF LiveInvariant, LiveAccounted
  <2>6. CASE \E c \in Requests : Provisioned(c)
    BY <1>2, <2>6, ProvisionedLive
  <2>7. CASE \E c \in Requests : BecomesHealthy(c)
    BY <1>2, <2>7, BecomesHealthyLive
  <2>8. CASE \E c \in Requests : GivesUp(c)
    BY <1>2, <2>8, GivesUpLive
  <2>9. CASE \E c \in Requests : RolledBack(c)
    BY <1>2, <2>9, RolledBackLive
  <2>10. CASE DisableRollback
    BY <1>2, <2>10, DisableRollbackLive
  <2> QED  BY <1>2, <2>1, <2>2, <2>3, <2>4, <2>5, <2>6, <2>7, <2>8, <2>9, <2>10
           DEF Next, Request
<1> QED  BY <1>1, <1>2, Invariance, PTL DEF Spec

\* deploy and rollback: when no request is under way and nothing has failed, what is live
\* was put there by what a record says, although other requests may have come between a
\* command and its record.
THEOREM LiveAlwaysRecorded == Spec => []LiveIsRecorded
<1>1. LiveInvariant => LiveIsRecorded
  BY DEF LiveInvariant, LiveAccounted, Recorded, Accounts, LiveIsRecorded, AllIdle
<1> QED  BY <1>1, LiveInvariance, PTL

\* With requests one at a time the newest record, dry runs apart, tells what is live, as
\* far as its target was given it, and a deployment that was found healthy can answer.
THEOREM NewestAlwaysLive == Spec => []NewestRecordIsLive
<1>1. LiveInvariant => NewestRecordIsLive
  BY DEF LiveInvariant, OneAtATime, NewestTrue, Tells, HasPut, NewestRecordIsLive, AllIdle
<1> QED  BY <1>1, LiveInvariance, PTL

===============================================================================
