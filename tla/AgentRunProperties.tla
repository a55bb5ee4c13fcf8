-------------------------- MODULE AgentRunProperties --------------------------
(***************************************************************************)
(* What runs of agents do to the files they share.                         *)
(***************************************************************************)
EXTENDS AgentRun

\* Whatever work is in a file, through however many runs that were shown it, is
\* of a run all of whose answered names were within the scope of its contract: an
\* answer with one name out of scope leaves no trace (execute, run_task).  It is the
\* names that are in scope: whether the files they are of are is for FileOf to say.
OnlyWorkInScope ==
    \A f \in Files, r \in Runs :
        disk[f] # None /\ r \in disk[f] =>
            /\ \E n \in answer[r] : FileOf[n] = f
            /\ answer[r] \subseteq agent[r].writes

\* Two runs that wrote the file were in flight at the same time.
Contended(f) == \E pair \in met : \A q \in pair : f \in begun[q]

\* The run has opened the file, under some name, and not written it.
OpenIn(q, f) == opened[q] # None /\ FileOf[opened[q]] = f

\* The run answered with another name of the file than it was shown; or it was not
\* shown the file, because its patterns do not read it, failed to, or read as many as it
\* could be shown.
Unseen(q, f) ==
    \/ \E n \in answer[q] : FileOf[n] = f /\ n # f
    \/ /\ shown[q][f] = None
       /\ \/ agent[q].reads[f] = {}
          \/ f \in unread[q]
          \/ Cardinality({g \in Files : shown[q][g] # None}) = MaxFiles

\* The work of a run that was successful stays in the files it wrote, whatever
\* runs came later, failed, or worked on other files meanwhile.  It is lost in
\* these ways only: to a run that has opened the file and not written it, and may
\* have failed there; to one that wrote the file unseen, because none of its
\* patterns reads it, it could not be read, the cap was reached, or it was written
\* under another name; and to one of two that were in flight together, the later of
\* which may have been shown the file as the other had emptied it, so that even the
\* work of a run that met neither is lost.
WorkIsKept ==
    \A r \in Runs : pc[r] = "successful" =>
        \A f \in {FileOf[n] : n \in answer[r]} :
            \/ r \in disk[f] \/ Contended(f)
            \/ \E q \in Runs \ {r} : f \in begun[q] /\ (OpenIn(q, f) \/ Unseen(q, f))
===============================================================================
