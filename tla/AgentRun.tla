-------------------------------- MODULE AgentRun --------------------------------
(***************************************************************************)
(* Agents at work on one checkout: POST /agents/run (agents/router.py),    *)
(* AgentRunner (runner.py) and BaseAgent.execute (base.py), in several     *)
(* server processes that share the files and nothing else.                 *)
(*                                                                         *)
(* A contract, an answer and a write go by the path as it is spelled, and  *)
(* FileOf says which file of the disk that is: "system/./main.py" and      *)
(* "system/main.py" are two names of one file.                             *)
(*                                                                         *)
(* What a file holds is the set of the runs whose work is in it.  A run    *)
(* writes whole files: into a file it was shown, what it was shown and its *)
(* own work; into a file it was not shown, or not under that name, its own *)
(* work only.                                                              *)
(***************************************************************************)
EXTENDS AgentScope, FiniteSets

CONSTANTS
    Paths,          \* a sequence: the names of files, in sorted order
    FileOf,         \* the file each name is of, given as the name Path.glob has for it
    Existing,       \* the files that are there at the beginning
    Runs,           \* bound: the runs of agents
    Teams,          \* the sets of agents asked for together
    Targets,        \* the target files of a refactoring
    MaxFiles,       \* SCOPED_CONTEXT_MAX_FILES
    Tried,          \* bound: the sets of names that an answer may have
    MaxSkips,       \* bound: the files that cannot be read and the patterns that fail, at a time
    MaxFaults,      \* bound: readings with those, writes refused and processes killed
    None

Names == DOMAIN Paths
Files == {n \in Names : FileOf[n] = n}

ASSUME RunAssumption ==
    /\ Len(Paths) \in Nat /\ Names = 1..Len(Paths) /\ Existing \subseteq Files
    /\ FileOf \in [Names -> Files] /\ Tried \subseteq SUBSET Names
    /\ \A team \in Teams : team \subseteq Agents
    /\ Targets \in Seq([segs : Seq(STRING), exts : Seq(STRING)])
    /\ MaxFiles \in Nat /\ MaxSkips \in Nat /\ MaxFaults \in Nat
    /\ None \notin Names /\ \A S \in SUBSET Runs : S # None

\* An agent with its contract built: the names it may write, and the patterns that read
\* each file.
Built(a) ==
    LET contract == Contract(a, Targets) IN
    [type |-> a, writes |-> {n \in Names : MayWrite(contract, Paths[n])},
     reads |-> [f \in Files |-> ReadBy(contract, Paths[f])]]

VARIABLES
    disk,           \* what each file holds, or None
    pc,             \* where each run is
    agent,          \* whose run it is
    shown,          \* the files the run was shown, as they were; None for the others
    unread,         \* history: the files there that it failed to read by any pattern
    answer,         \* the names in the model's answer
    toWrite,        \* those the run has not finished writing
    opened,         \* the name it has opened for writing and not written
    begun,          \* history: the files it has opened
    met,            \* history: the pairs of runs that were in flight at the same time
    faults

vars == <<disk, pc, agent, shown, unread, answer, toWrite, opened, begun, met, faults>>

Init ==
    /\ disk = [f \in Files |-> IF f \in Existing THEN {} ELSE None]
    /\ pc = [r \in Runs |-> "new"]
    /\ \E team \in Teams : \E who \in [Runs -> team] :
          {who[r] : r \in Runs} = team /\ agent = [r \in Runs |-> Built(who[r])]
    /\ shown = [r \in Runs |-> [f \in Files |-> None]]
    /\ unread = [r \in Runs |-> {}] /\ answer = [r \in Runs |-> {}] /\ toWrite = [r \in Runs |-> {}]
    /\ opened = [r \in Runs |-> None] /\ begun = [r \in Runs |-> {}]
    /\ met = {} /\ faults = 0

InFlight == {r \in Runs : pc[r] \in {"asking", "writing"}}

-----------------------------------------------------------------------------
(* run_task                                                                 *)

\* Mutant: the loop ends with the first pattern.
LoadedFirstPattern(a, bad, broken) ==
    {f \in Files \ bad : disk[f] # None /\ 1 \in a.reads[f] \ broken}

\* The patterns that get the text of a file: not one whose expansion raises, and none if
\* the file cannot be read.  Either is logged and passed over.
Found(a, bad, broken, f) ==
    IF disk[f] = None \/ f \in bad THEN {} ELSE a.reads[f] \ broken

First(S) == CHOOSE i \in S : \A j \in S : i <= j

\* load_scoped_context: pattern by pattern, in sorted order, up to the cap.
Loaded(a, bad, broken) ==
    LET matched == {f \in Files : Found(a, bad, broken, f) # {}}
        At(f) == First(Found(a, bad, broken, f))
        Before(f) == {g \in matched : At(g) < At(f) \/ (At(g) = At(f) /\ g < f)}
    IN  {f \in matched : Cardinality(Before(f)) < MaxFiles}

\* The agent is taken from the registry, whatever its max_concurrent, its contract
\* built, the files in its scope read into the message, and the model asked.
Ask(r, bad, broken) ==
    /\ pc[r] = "new"
    /\ pc' = [pc EXCEPT ![r] = "asking"]
    /\ LET loaded == Loaded(agent[r], bad, broken)
       IN  shown' = [shown EXCEPT ![r] = [f \in Files |-> IF f \in loaded THEN disk[f] ELSE None]]
    /\ unread' = [unread EXCEPT ![r] = {f \in Files :
            /\ disk[f] # None /\ agent[r].reads[f] # {}
            /\ Found(agent[r], bad, broken, f) = {}}]
    /\ met' = met \cup {{r, q} : q \in InFlight}
    /\ \/ bad = {} /\ broken = {} /\ UNCHANGED faults
       \/ /\ bad \cup broken # {} /\ faults < MaxFaults /\ faults' = faults + 1
    /\ UNCHANGED <<disk, agent, answer, toWrite, opened, begun>>

\* Mutant: a file out of scope is dropped with a warning and no error.
AnswersLeniently(r, names) ==
    /\ pc[r] = "asking"
    /\ answer' = [answer EXCEPT ![r] = names]
    /\ toWrite' = [toWrite EXCEPT ![r] = names \cap agent[r].writes]
    /\ pc' = [pc EXCEPT ![r] = IF names \cap agent[r].writes = {} THEN "unsuccessful" ELSE "writing"]
    /\ UNCHANGED <<disk, agent, shown, unread, opened, begun, met, faults>>

\* The FILE blocks of the answer.  None at all, or one whose name is out of scope, and
\* the result is unsuccessful and none is written.
Answers(r, names) ==
    /\ pc[r] = "asking"
    /\ answer' = [answer EXCEPT ![r] = names]
    /\ \/ /\ names # {} /\ names \subseteq agent[r].writes
          /\ toWrite' = [toWrite EXCEPT ![r] = names]
          /\ pc' = [pc EXCEPT ![r] = "writing"]
       \/ /\ names = {} \/ ~(names \subseteq agent[r].writes)
          /\ pc' = [pc EXCEPT ![r] = "unsuccessful"] /\ UNCHANGED toWrite
    /\ UNCHANGED <<disk, agent, shown, unread, opened, begun, met, faults>>

\* The model cannot be reached: execute raises, and the request ends in a 500.
ModelFails(r) ==
    /\ pc[r] = "asking" /\ pc' = [pc EXCEPT ![r] = "raised"]
    /\ UNCHANGED <<disk, agent, shown, unread, answer, toWrite, opened, begun, met, faults>>

-----------------------------------------------------------------------------
(* write_outputs.  deleted_files is always empty.                           *)

\* What the run was shown under the name; None if nothing.
ShownAs(r, n) == IF n \in Files THEN shown[r][n] ELSE None

\* The generated files, those not shown, are written before the modified ones.
IsNext(r, n) ==
    /\ n \in toWrite[r]
    /\ ShownAs(r, n) # None => \A m \in toWrite[r] : ShownAs(r, m) # None

\* write_text opens the file, which empties it ...
OpenFile(r, n) ==
    /\ pc[r] = "writing" /\ opened[r] = None /\ IsNext(r, n)
    /\ opened' = [opened EXCEPT ![r] = n]
    /\ begun' = [begun EXCEPT ![r] = @ \cup {FileOf[n]}]
    /\ disk' = [disk EXCEPT ![FileOf[n]] = {}]
    /\ UNCHANGED <<pc, agent, shown, unread, answer, toWrite, met, faults>>

\* ... and writes it.  After the last one the result is returned.
WriteFile(r) ==
    /\ pc[r] = "writing" /\ opened[r] # None
    /\ LET n == opened[r] IN
       /\ disk' = [disk EXCEPT ![FileOf[n]] =
                      {r} \cup IF ShownAs(r, n) = None THEN {} ELSE ShownAs(r, n)]
       /\ toWrite' = [toWrite EXCEPT ![r] = @ \ {n}]
       /\ pc' = [pc EXCEPT ![r] = IF toWrite[r] = {n} THEN "successful" ELSE "writing"]
    /\ opened' = [opened EXCEPT ![r] = None]
    /\ UNCHANGED <<agent, shown, unread, answer, begun, met, faults>>

\* The file cannot be opened, or cannot be written once it is open: AgentError,
\* and the files that are left are not written.
WriteFails(r) ==
    /\ pc[r] = "writing" /\ faults < MaxFaults
    /\ pc' = [pc EXCEPT ![r] = "raised"] /\ faults' = faults + 1
    /\ UNCHANGED <<disk, agent, shown, unread, answer, toWrite, opened, begun, met>>

\* The process is killed with the run in it.
Killed(r) ==
    /\ r \in InFlight /\ faults < MaxFaults
    /\ pc' = [pc EXCEPT ![r] = "killed"] /\ faults' = faults + 1
    /\ UNCHANGED <<disk, agent, shown, unread, answer, toWrite, opened, begun, met>>

-----------------------------------------------------------------------------

\* Files that a pattern would read, and such patterns.
Skips(r) ==
    LET there == {f \in Files : disk[f] # None /\ agent[r].reads[f] # {}}
    IN  {s \in (SUBSET there) \X (SUBSET UNION {agent[r].reads[f] : f \in there}) :
            Cardinality(s[1]) + Cardinality(s[2]) <= MaxSkips}

Next == \E r \in Runs :
    \/ \E s \in Skips(r) : Ask(r, s[1], s[2])
    \/ ModelFails(r)
    \/ \E names \in Tried : Answers(r, names)
    \/ \E n \in Names : OpenFile(r, n)
    \/ WriteFile(r) \/ WriteFails(r) \/ Killed(r)

Spec == Init /\ [][Next]_vars
===============================================================================
