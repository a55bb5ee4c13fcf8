--------------------------- MODULE WorkflowInvariant ---------------------------
(***************************************************************************)
(* The inductive invariant behind the safety properties that hold under    *)
(* every interleaving.  Nothing serialises the updates of the task lists,  *)
(* so it cannot say that the lists are complete; it says that whatever is  *)
(* in them is true, that this is so of every value a coroutine still holds *)
(* after an await, and that a coroutine which is about to write, send or   *)
(* announce something has a lasting reason to.                             *)
(***************************************************************************)
EXTENDS WorkflowProperties

Doomed(t) == Deps[t] \cap everFailed # {}
Enabled(t) == Deps[t] \subseteq succeeded
Announced(t) == <<"task_failed", t>> \in published

\* A value of the four lists, in Redis or in a coroutine, that lacks updates
\* perhaps but claims nothing that is not so.
Truthful(l) ==
    /\ OneList(l)
    /\ l["completed"] \subseteq succeeded
    /\ \A t \in l["failed"] : t \in everFailed /\ Announced(t)
    /\ \A t \in l["blocked"] : Doomed(t)

\* A message is counted before it can have an outcome, an outcome before it
\* becomes an event.
OutcomesReal ==
    \A t \in Tasks : /\ inflight[t] <= sent[t]
                     /\ events["completed"][t] > 0 => t \in succeeded
                     /\ events["failed"][t] > 0 => t \in everFailed

\* What a suspended coroutine is about to do is justified, for as long as it
\* may stay suspended: everything below is stable.
Justified(c) ==
    /\ pc[c] \in {"saveCompleted", "publishFailure", "loadFailed", "saveFailed",
                  "saveError", "loadRunning", "saveRunning", "saveBlocked"}
           => cur[c] \in Tasks
    /\ pc[c] = "saveCompleted" => cur[c] \in succeeded
    /\ pc[c] \in {"publishFailure", "loadFailed", "saveFailed", "saveError"}
           => cur[c] \in everFailed
    /\ pc[c] \in {"loadFailed", "saveFailed"} => Announced(cur[c])
    /\ pc[c] \in {"loadBlocked", "saveBlocked"} => \A u \in todo[c] : Doomed(u)
    /\ pc[c] = "saveBlocked" => Doomed(cur[c])
    /\ pc[c] \in {"dispatch", "gather", "startLoad", "loadRunning", "saveRunning"}
           => \A t \in todo[c] : Enabled(t)
    /\ pc[c] = "expire" => op[c] = "start"
    /\ pc[c] = "publishPhase" \/ (pc[c] = "setPhase" /\ op[c] = "completed")
           => \A t \in Tasks : PhaseOf[t] = seenPhase[c] => Settled(t)
    /\ pc[c] = "setPhase" /\ op[c] = "completed"
           => PHASE_TRANSITIONS[seenPhase[c]] # NoPhase

Inv ==
    /\ TypeOK
    /\ Truthful(lists) /\ \A c \in Coros : Truthful(snap[c])
    /\ OutcomesReal
    /\ \A c \in Coros : Justified(c)
    /\ DependenciesFirst
    /\ PhaseEventSound

-----------------------------------------------------------------------------
(* The regime of the second group: one request, which is over before a       *)
(* worker answers, one listener, and a record that outlives the workflow.    *)
(* The broker may fail at any time, and so may a mark as running.            *)

Quiet == /\ QuietApi /\ "expire" \notin Ops /\ MaxApiCalls <= 1
         /\ \A c, d \in Listeners : c = d
         /\ MayRaise \subseteq {"startLoad", "loadRunning", "saveRunning"}

Busy(c) == pc[c] # "idle"

\* What must not have begun before the record of a workflow is there.
NothingSent == \A t \in Tasks : /\ sent[t] = 0 /\ inflight[t] = 0
                                /\ \A k \in Outcomes : events[k][t] = 0

\* The request, then the handlers: coroutines never overlap.
OneAtATime ==
    /\ \A c, d \in Coros : Busy(c) /\ Busy(d) => c = d
    /\ apiCalls \in {0, 1}
    /\ apiCalls = 0 => ~hasGraph /\ \A c \in Coros : ~Busy(c)
    /\ ~hasGraph => NothingSent /\ \A c \in Coros : pc[c] \in {"idle", "loadState", "delete"}
    /\ \A c \in Coros : pc[c] = "delete" => ~hasGraph
    /\ \A a \in Apis : Busy(a) => \A k \in Outcomes, t \in Tasks : events[k][t] = 0

\* What a coroutine read is still so when it writes, and what it is about
\* to send was sent before only as often as its mark was lost.
UpToDate(c) ==
    /\ pc[c] \in {"saveCompleted", "saveRunning", "saveFailed", "saveBlocked"}
           => snap[c] = lists
    /\ op[c] = "completed" /\ pc[c] \in {"checkPaused", "ready", "dispatch", "loadRunning",
                                         "saveRunning", "checkPhase", "setPhase"}
           => seenPhase[c] = phase
    /\ pc[c] \in {"dispatch", "loadRunning"} => op[c] # "start"
    /\ pc[c] \in {"gather", "startLoad"} => op[c] = "start"
    /\ pc[c] \in {"dispatch", "gather", "loadRunning"}
          \/ (pc[c] = "saveRunning" /\ op[c] # "start")
           => \A t \in todo[c] : sent[t] <= unmarked[t]

\* A task whose outcome is being handled and not yet recorded.
Handling(c, t) ==
    pc[c] \in {"saveCompleted", "publishFailure", "loadFailed", "saveFailed"} /\ cur[c] = t

\* An outcome of the task is still to be recorded.
Outstanding(t) == \/ inflight[t] > 0
                  \/ \E k \in Outcomes : events[k][t] > 0
                  \/ \E c \in Coros : Handling(c, t)

\* A task is in the lists, or will be before anything else happens, when it
\* was sent more often than its mark was lost, and that is once at most.
SentCounted ==
    \A t \in Tasks :
        /\ sent[t] <= 1 + unmarked[t]
        /\ t \in InFlight(lists) \/ (\E c \in Coros : ToMark(c, t))
              \/ sent[t] <= unmarked[t]

ActiveOutstanding ==
    \A t \in Tasks : t \in lists["active"] \/ (\E c \in Coros : ToMark(c, t))
                        => Outstanding(t)

QuietInv == /\ OneAtATime /\ \A c \in Coros : UpToDate(c)
            /\ SentCounted /\ ActiveOutstanding
===============================================================================
