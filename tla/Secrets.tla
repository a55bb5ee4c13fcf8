-------------------------------- MODULE Secrets --------------------------------
(***************************************************************************)
(* SecretsManager with a database (core/deployment/secrets_manager.py):    *)
(* one instance per process, each with the master key it encrypts with,    *)
(* over the table forge_secrets, which no constraint keeps to one row per  *)
(* name.                                                                   *)
(*                                                                         *)
(* Every query is an await.  A request is the calls it makes in order, and *)
(* requests interleave between any two queries; a DELETE sees the rows     *)
(* that were there when it began.  get_secret and list_secrets write       *)
(* nothing: they are operators here.                                       *)
(***************************************************************************)
EXTENDS Naturals, FiniteSets, SequencesExt

CONSTANTS
    Managers,       \* bound: the processes
    Names,          \* bound: the secrets
    ScopeOf,        \* the project and environment of each
    Keys,           \* bound: the master keys
    Settings,       \* the one settings.secret_key gives when a process starts
    Requests,       \* bound: the calls; a store's value is named for its request
    MaxFaults,      \* bound: queries that fail, and processes that stop
    None

Scopes == {ScopeOf[n] : n \in Names}

Calls ==
    [op : {"store", "delete"}, by : Managers, name : Names] \cup
    [op : {"rotate"}, by : Managers, scope : Scopes, key : Keys \ {Settings}]

ASSUME SecretsAssumption ==
    /\ Settings \in Keys
    /\ IsFiniteSet(Names)
    /\ Names \cap Requests = {}
    /\ None \notin Names \cup Requests \cup Calls
    /\ MaxFaults \in Nat

VARIABLES
    rows,           \* forge_secrets: [id, name, key, value]
    fernet,         \* the master key of each process
    pc, call,       \* each request
    cipher,         \* the key its value was encrypted with
    seen,           \* the rows its statement found
    todo,           \* the names it has still to rotate
    text,           \* the value it decrypted
    faults,
    latest,         \* history: what was last stored under each name
    tangled,        \* history: the names that a store shared with another write
    disturbed,      \* history: the rotations that a store or a rotation came across
    good            \* history: the last rotation to return that was not disturbed

locals == <<cipher, seen, todo, text>>
history == <<latest, tangled, disturbed, good>>
vars == <<rows, fernet, pc, call, locals, faults, history>>

\* One secret is stored under each name before the first call.
Init ==
    /\ rows = {[id |-> n, name |-> n, key |-> Settings, value |-> n] : n \in Names}
    /\ fernet = [m \in Managers |-> Settings]
    /\ pc = [r \in Requests |-> "new"] /\ call = [r \in Requests |-> None]
    /\ cipher = [r \in Requests |-> None] /\ seen = [r \in Requests |-> {}]
    /\ todo = [r \in Requests |-> <<>>] /\ text = [r \in Requests |-> None]
    /\ faults = 0
    /\ latest = [n \in Names |-> n]
    /\ tangled = {} /\ disturbed = {} /\ good = None

-----------------------------------------------------------------------------

RowsOf(n) == {x \in rows : x.name = n}

\* get_secret: scalar_one_or_none wants at most one row, and Fernet its own key.
Readable(m, n) == Cardinality(RowsOf(n)) = 1 /\ \A x \in RowsOf(n) : x.key = fernet[m]
ValueOf(n) == (CHOOSE x \in RowsOf(n) : TRUE).value

InFlight == {r \in Requests : pc[r] \notin {"new", "done", "failed"}}
Storing == {r \in InFlight : call[r].op = "store"}
Rotating == {r \in InFlight : call[r].op = "rotate"}

Goto(r, place) == pc' = [pc EXCEPT ![r] = place]
Accept(r, c, place) ==
    /\ pc[r] = "new" /\ Goto(r, place) /\ call' = [call EXCEPT ![r] = c]

-----------------------------------------------------------------------------
(* store_secret and delete_secret                                           *)

\* The value is encrypted before the first query.
StartStore(r, c) ==
    /\ c.op = "store" /\ Accept(r, c, "store")
    /\ cipher' = [cipher EXCEPT ![r] = fernet[c.by]]
    /\ LET rotations == {q \in Rotating : call[q].scope = ScopeOf[c.name]} IN
       /\ disturbed' = disturbed \cup rotations
       /\ tangled' = IF rotations # {} \/ \E q \in Storing : call[q].name = c.name
                     THEN tangled \cup {c.name} ELSE tangled
    /\ good' = IF good # None /\ good.scope = ScopeOf[c.name] /\ good.by # c.by
               THEN None ELSE good
    /\ UNCHANGED <<rows, fernet, seen, todo, text, faults, latest>>

StoreDeletes(r) ==
    /\ pc[r] = "store" /\ Goto(r, "insert")
    /\ seen' = [seen EXCEPT ![r] = {x.id : x \in RowsOf(call[r].name)}]
    /\ UNCHANGED <<rows, fernet, call, cipher, todo, text, faults, history>>

NewRow(r) == [id |-> r, name |-> call[r].name, key |-> cipher[r], value |-> r]

\* Mutant: the upsert without its deletion.
InsertOnly(r) ==
    /\ pc[r] = "insert" /\ Goto(r, "done")
    /\ rows' = rows \cup {NewRow(r)}
    /\ latest' = [latest EXCEPT ![call[r].name] = r]
    /\ UNCHANGED <<fernet, call, locals, faults, tangled, disturbed, good>>

\* The rows its DELETE found go, and no others.
StoreCommits(r) ==
    /\ pc[r] = "insert" /\ Goto(r, "done")
    /\ rows' = {x \in rows : x.id \notin seen[r]} \cup {NewRow(r)}
    /\ latest' = [latest EXCEPT ![call[r].name] = r]
    /\ UNCHANGED <<fernet, call, locals, faults, tangled, disturbed, good>>

Delete(r, c) ==
    /\ c.op = "delete" /\ Accept(r, c, "done")
    /\ rows' = rows \ RowsOf(c.name)
    /\ latest' = [latest EXCEPT ![c.name] = None]
    /\ tangled' = IF \E q \in Storing : call[q].name = c.name
                  THEN tangled \cup {c.name} ELSE tangled
    /\ UNCHANGED <<fernet, locals, faults, disturbed, good>>

-----------------------------------------------------------------------------
(* rotate_master_key                                                        *)

\* list_secrets: the name of each row, in any order.
StartRotate(r, c) ==
    /\ c.op = "rotate" /\ Accept(r, c, "get")
    /\ \E listed \in SetToSeqs({x \in rows : ScopeOf[x.name] = c.scope}) :
          todo' = [todo EXCEPT ![r] = [i \in DOMAIN listed |-> listed[i].name]]
    /\ LET stores == {q \in Storing : ScopeOf[call[q].name] = c.scope}
           rotations == {q \in Rotating : call[q].scope = c.scope \/ call[q].by = c.by} IN
       /\ tangled' = tangled \cup {call[q].name : q \in stores}
       /\ disturbed' = disturbed \cup rotations \cup
                       IF stores \cup rotations # {} THEN {r} ELSE {}
    /\ good' = IF good # None /\ (good.scope = c.scope \/ good.by = c.by) THEN None ELSE good
    /\ UNCHANGED <<rows, fernet, cipher, seen, text, faults, latest>>

Skip(r) == todo' = [todo EXCEPT ![r] = Tail(@)] /\ Goto(r, "get")

\* A name that is gone is passed over; what cannot be read ends the rotation.
RotateGets(r) ==
    /\ pc[r] = "get" /\ todo[r] # <<>>
    /\ LET n == Head(todo[r]) IN
       \/ RowsOf(n) = {} /\ Skip(r) /\ UNCHANGED text
       \/ /\ Readable(call[r].by, n)
          /\ text' = [text EXCEPT ![r] = ValueOf(n)] /\ Goto(r, "select") /\ UNCHANGED todo
       \/ /\ RowsOf(n) # {} /\ ~Readable(call[r].by, n)
          /\ Goto(r, "failed") /\ UNCHANGED <<text, todo>>
    /\ UNCHANGED <<rows, fernet, call, cipher, seen, faults, history>>

\* The second session, which need not find the row that was read.
RotateSelects(r) ==
    /\ pc[r] = "select"
    /\ LET found == RowsOf(Head(todo[r])) IN
       /\ seen' = [seen EXCEPT ![r] = {x.id : x \in found}]
       /\ \/ found = {} /\ Skip(r)
          \/ Cardinality(found) = 1 /\ Goto(r, "update") /\ UNCHANGED todo
          \/ Cardinality(found) > 1 /\ Goto(r, "failed") /\ UNCHANGED todo
    /\ UNCHANGED <<rows, fernet, call, cipher, text, faults, history>>

\* The row is updated by its id; one that is gone is a StaleDataError.
RotateUpdates(r) ==
    /\ pc[r] = "update"
    /\ \/ /\ \E x \in rows : x.id \in seen[r]
          /\ rows' = {IF x.id \in seen[r] THEN [x EXCEPT !.key = call[r].key, !.value = text[r]]
                      ELSE x : x \in rows}
          /\ Skip(r)
       \/ /\ \A x \in rows : x.id \notin seen[r]
          /\ Goto(r, "failed") /\ UNCHANGED <<rows, todo>>
    /\ UNCHANGED <<fernet, call, cipher, seen, text, faults, history>>

Undisturbed(r) == [by |-> call[r].by, scope |-> call[r].scope]

\* Mutant: the rows are rotated and the process goes on with its old key.
ReturnsWithOldKey(r) ==
    /\ pc[r] = "get" /\ todo[r] = <<>> /\ Goto(r, "done")
    /\ good' = IF r \in disturbed THEN good ELSE Undisturbed(r)
    /\ UNCHANGED <<rows, fernet, call, locals, faults, latest, tangled, disturbed>>

RotateReturns(r) ==
    /\ pc[r] = "get" /\ todo[r] = <<>> /\ Goto(r, "done")
    /\ fernet' = [fernet EXCEPT ![call[r].by] = call[r].key]
    /\ good' = IF r \in disturbed THEN good ELSE Undisturbed(r)
    /\ UNCHANGED <<rows, call, locals, faults, latest, tangled, disturbed>>

-----------------------------------------------------------------------------
(* Failures                                                                 *)

\* A query raises: the transaction is rolled back and the call ends.
Fails(r) ==
    /\ r \in InFlight /\ faults < MaxFaults
    /\ faults' = faults + 1 /\ Goto(r, "failed")
    /\ UNCHANGED <<rows, fernet, call, locals, history>>

\* A process stops, with its requests, and starts again with the key of the settings.
Restart(m) ==
    /\ faults < MaxFaults /\ faults' = faults + 1
    /\ fernet' = [fernet EXCEPT ![m] = Settings]
    /\ pc' = [r \in Requests |-> IF r \in InFlight /\ call[r].by = m THEN "failed" ELSE pc[r]]
    /\ good' = IF good # None /\ good.by = m THEN None ELSE good
    /\ UNCHANGED <<rows, call, locals, latest, tangled, disturbed>>

Next ==
    \/ \E r \in Requests, c \in Calls : StartStore(r, c) \/ Delete(r, c) \/ StartRotate(r, c)
    \/ \E r \in Requests :
          \/ StoreDeletes(r) \/ StoreCommits(r)
          \/ RotateGets(r) \/ RotateSelects(r) \/ RotateUpdates(r) \/ RotateReturns(r)
          \/ Fails(r)
    \/ \E m \in Managers : Restart(m)

Spec == Init /\ [][Next]_vars
=============================================================================
