------------------------ MODULE IntentSessionProperties ------------------------
(***************************************************************************)
(* What a user may rely on: of the session that is read back, of the       *)
(* answers that were given, and of the intent the project goes on with.    *)
(***************************************************************************)
EXTENDS IntentSession

Kept(S) == S \cup {None}

\* Every variable keeps its type.
TypeOK ==
    /\ redis \in Kept(Sessions) /\ row \in Kept(Sessions)
    /\ intentKey \in Kept(SUBSET Fields) /\ intentRow \in Kept(SUBSET Fields)
    /\ request \in [Requests ->
            [pc : {"idle", "get key", "get row", "warm", "model", "set key", "set row",
                   "set intent key", "set intent row", "delete key", "delete row"},
             call : Calls, session : Kept(Sessions)]]
    /\ served \in 0..MaxRequests
    /\ last \in Kept(Sessions)
    /\ {overlap, redisFailed, rowFailed, expired} \subseteq BOOLEAN

Quiet == ~overlap /\ \A r \in Requests : At(r, "idle")

\* The session a load would find: the key, else the row.
Found == IF redis # None THEN redis ELSE row

SameButPrompt(s, t) ==
    \/ s = t
    \/ s # None /\ t # None /\ [s EXCEPT !.prompt = t.prompt] = t

\* One request at a time and with Redis obeying, a session is read back as the
\* latest request saved it while its key lives, and when the database has not
\* refused anything either, also after the expiry of the key and after a
\* deletion.  What an expiry does cost is the prompt: an existing row never
\* takes a new one over.
ReadsLastWrite ==
    Quiet /\ ~redisFailed =>
        /\ ~expired /\ last # None => Found = last
        /\ ~rowFailed => SameButPrompt(Found, last)

\* One request at a time, no answer is lost from one save to the next while
\* both stores work: what was filled in stays filled in, whatever is parsed.
\* And no save, whatever overlapped or failed, asks for more when no round is
\* left or nothing is missing (_decide_and_respond, generate_questions).
AnswersKept ==
    [][ /\ ~overlap' /\ ~redisFailed /\ ~rowFailed /\ last # None /\ last' # None
             => last.fields \subseteq last'.fields
        /\ last' # None /\ last'.status = "clarifying"
             => last'.round < MaxRounds /\ last'.fields # Fields ]_vars

\* The intent a project goes on with has every required field, whichever
\* store it comes from, whatever overlapped and whatever failed.
ProjectIntentValid ==
    \A i \in {intentKey, intentRow} : i # None => Required \subseteq i
===============================================================================
