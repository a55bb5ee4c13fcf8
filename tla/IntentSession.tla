----------------------------- MODULE IntentSession -----------------------------
(***************************************************************************)
(* A clarification session: the requests of the intent API (router.py,     *)
(* engine.py of core/intent) on one session that IntentPersistence         *)
(* (persistence.py) keeps in two stores, a Redis key that expires and a    *)
(* PostgreSQL row, either of which may refuse a command.                   *)
(*                                                                         *)
(* A session is what the user has filled in (the populated fields of its   *)
(* intent), the round, the status and the prompt.  Every await of a        *)
(* request is the end of a step.  A request that resumes a session it      *)
(* cannot find starts another one, with no part in this one.               *)
(***************************************************************************)
EXTENDS Naturals, FiniteSets

CONSTANTS
    Fields,        \* the fields of an intent that are scored
    Required,      \* those the validator requires
    Enough,        \* the sets of fields whose confidence reaches the threshold
    MaxRounds,     \* MAX_INTENT_CLARIFICATION_ROUNDS
    Answers,       \* the sets of fields an answer or a parse fills in
    Prompts,
    Requests,      \* bound: the requests served at the same time
    MaxRequests,   \* bound: the requests in all
    None

ASSUME SessionAssumption ==
    /\ Required \subseteq Fields /\ Enough \subseteq SUBSET Fields
    /\ MaxRounds \in Nat \ {0} /\ MaxRequests \in Nat
    /\ Answers \subseteq SUBSET Fields

Sessions == [fields : SUBSET Fields, round : Nat,
             status : {"draft", "clarifying", "validated"}, prompt : Prompts]

ASSUME NoneAssumption == None \notin Sessions

VARIABLES
    redis, row,                 \* the session in each store
    intentKey, intentRow,       \* the validated intent of the project in each
    request,                    \* the requests being served: [pc, call, session]
    served,                     \* how many were begun; the first creates the session
    last,                       \* the session as the latest request left it
    overlap,                    \* two requests were served at the same time
    redisFailed, rowFailed,     \* a command of the store was refused
    expired                     \* the key has expired

stores == <<redis, row, intentKey, intentRow>>
faults == <<redisFailed, rowFailed, expired>>
vars == <<stores, request, served, last, overlap, faults>>

\* What a request can ask.  An answer fills in fields; a parse finds some.
Calls == [op : {"parse"}, fields : Answers, prompt : Prompts]
            \cup [op : {"clarify"}, fields : Answers] \cup [op : {"get", "delete"}]

Idle == [pc |-> "idle", call |-> [op |-> "get"], session |-> None]

Init ==
    /\ redis = None /\ row = None /\ intentKey = None /\ intentRow = None
    /\ request = [r \in Requests |-> Idle]
    /\ served = 0 /\ last = None /\ overlap = FALSE
    /\ redisFailed = FALSE /\ rowFailed = FALSE /\ expired = FALSE

At(r, label) == request[r].pc = label
Call(r) == request[r].call
Session(r) == request[r].session

\* The request goes on at label, holding session s; an idle one holds nothing.
Goto(r, label, s) ==
    request' = [request EXCEPT ![r] =
                  IF label = "idle" THEN Idle ELSE [@ EXCEPT !.pc = label, !.session = s]]

\* A command on a store takes effect, or it is refused and the refusal logged.
OnRedis(effect, otherwise) ==
    \/ effect /\ UNCHANGED redisFailed
    \/ redisFailed' = TRUE /\ otherwise

OnRow(effect, otherwise) ==
    \/ effect /\ UNCHANGED rowFailed
    \/ rowFailed' = TRUE /\ otherwise

\* A session nobody has parsed yet: _get_or_create_session without a session_id.
NewSession(prompt) == [fields |-> {}, round |-> 0, status |-> "draft", prompt |-> prompt]

\* A request arrives.  The first one creates the session.
Begin(r, c) ==
    /\ At(r, "idle") /\ served < MaxRequests
    /\ served = 0 => c.op = "parse"
    /\ request' = [request EXCEPT ![r] =
            [pc |-> IF served = 0 THEN "model"
                    ELSE IF c.op = "delete" THEN "delete key" ELSE "get key",
             call |-> c,
             session |-> IF served = 0 THEN NewSession(c.prompt) ELSE None]]
    /\ served' = served + 1
    /\ overlap' = (overlap \/ \E q \in Requests \ {r} : ~At(q, "idle"))
    /\ UNCHANGED <<stores, last, faults>>

-----------------------------------------------------------------------------
(* load_session                                                             *)

Loaded(r, s) ==
    Goto(r, IF s = None \/ Call(r).op = "get" THEN "idle" ELSE "model", s)

\* Redis answers, or it has nothing or fails and the row is asked.
GetKey(r) ==
    /\ At(r, "get key")
    /\ OnRedis(IF redis = None THEN Goto(r, "get row", None) ELSE Loaded(r, redis),
               Goto(r, "get row", None))
    /\ UNCHANGED <<stores, served, last, overlap, rowFailed, expired>>

\* The row, or nothing: a row that cannot be read is a session not found.
GetRow(r) ==
    /\ At(r, "get row")
    /\ OnRow(IF row = None THEN Loaded(r, None) ELSE Goto(r, "warm", row),
             Loaded(r, None))
    /\ UNCHANGED <<stores, served, last, overlap, redisFailed, expired>>

\* _warm_redis_session writes back what was read from the row.
Warm(r) ==
    /\ At(r, "warm")
    /\ OnRedis(redis' = Session(r), UNCHANGED redis)
    /\ Loaded(r, Session(r))
    /\ UNCHANGED <<row, intentKey, intentRow, served, last, overlap, rowFailed, expired>>

-----------------------------------------------------------------------------
(* process and clarify, up to what is saved.                                *)

\* Mutant: a parse replaces the fields that were clarified before.
UpdatedForgetful(s, c) ==
    IF c.op = "parse"
    THEN [s EXCEPT !.fields = c.fields, !.prompt = c.prompt]
    ELSE [s EXCEPT !.fields = @ \cup c.fields, !.round = @ + 1]

\* _merge_intents keeps what is populated; an answer fills in and counts a round.
Updated(s, c) ==
    IF c.op = "parse"
    THEN [s EXCEPT !.fields = @ \cup c.fields, !.prompt = c.prompt]
    ELSE [s EXCEPT !.fields = @ \cup c.fields, !.round = @ + 1]

\* Mutant: the rounds are not counted against the limit.
MayAskEndlessly(s) == s.fields # Fields

MayAsk(s) == s.round < MaxRounds /\ s.fields # Fields

NeedsClarification(s) == s.fields \notin Enough /\ MayAsk(s)

\* Mutant: enough confidence makes an intent valid.
ValidWhenConfident(s) == s.fields \in Enough \/ Required \subseteq s.fields

\* What the validator may pass; it refuses for other reasons too.
Valid(s) == Required \subseteq s.fields

Save(r, s) == last' = s /\ Goto(r, "set key", s)

\* Too little confidence, or a refusal while rounds are left: ask for more.
Ask(r) ==
    /\ At(r, "model")
    /\ LET s == Updated(Session(r), Call(r))
       IN  MayAsk(s) /\ Save(r, [s EXCEPT !.status = "clarifying"])
    /\ UNCHANGED <<stores, served, overlap, faults>>

Validate(r) ==
    /\ At(r, "model")
    /\ LET s == Updated(Session(r), Call(r))
       IN  /\ ~NeedsClarification(s) /\ Valid(s)
           /\ Save(r, [s EXCEPT !.status = "validated"])
    /\ UNCHANGED <<stores, served, overlap, faults>>

\* The parser finds no model, or the validator refuses and no question is left:
\* the request raises, and nothing of it is saved.
Raise(r) ==
    /\ At(r, "model")
    /\ Call(r).op = "parse" \/ ~MayAsk(Updated(Session(r), Call(r)))
    /\ Goto(r, "idle", None)
    /\ UNCHANGED <<stores, served, last, overlap, faults>>

-----------------------------------------------------------------------------
(* save_session and save_intent: each store on its own.                     *)

\* Mutant: a session that is already in Redis is not written again.
SetKeyOnce(r) ==
    /\ At(r, "set key")
    /\ OnRedis(redis' = (IF redis = None THEN Session(r) ELSE redis), UNCHANGED redis)
    /\ Goto(r, "set row", Session(r))
    /\ UNCHANGED <<row, intentKey, intentRow, served, last, overlap, rowFailed, expired>>

SetKey(r) ==
    /\ At(r, "set key")
    /\ OnRedis(redis' = Session(r), UNCHANGED redis)
    /\ Goto(r, "set row", Session(r))
    /\ UNCHANGED <<row, intentKey, intentRow, served, last, overlap, rowFailed, expired>>

\* A row that exists keeps its prompt.
SetRow(r) ==
    /\ At(r, "set row")
    /\ OnRow(row' = (IF row = None THEN Session(r) ELSE [Session(r) EXCEPT !.prompt = row.prompt]),
             UNCHANGED row)
    /\ Goto(r, IF Session(r).status = "validated" THEN "set intent key" ELSE "idle", Session(r))
    /\ UNCHANGED <<redis, intentKey, intentRow, served, last, overlap, redisFailed, expired>>

SetIntentKey(r) ==
    /\ At(r, "set intent key")
    /\ OnRedis(intentKey' = Session(r).fields, UNCHANGED intentKey)
    /\ Goto(r, "set intent row", Session(r))
    /\ UNCHANGED <<redis, row, intentRow, served, last, overlap, rowFailed, expired>>

SetIntentRow(r) ==
    /\ At(r, "set intent row")
    /\ OnRow(intentRow' = Session(r).fields, UNCHANGED intentRow)
    /\ Goto(r, "idle", None)
    /\ UNCHANGED <<redis, row, intentKey, served, last, overlap, redisFailed, expired>>

-----------------------------------------------------------------------------
(* delete_session, the expiry of the keys, and load_intent's back-fill.     *)

DeleteKey(r) ==
    /\ At(r, "delete key")
    /\ OnRedis(redis' = None, UNCHANGED redis)
    /\ Goto(r, "delete row", None)
    /\ UNCHANGED <<row, intentKey, intentRow, served, last, overlap, rowFailed, expired>>

DeleteRow(r) ==
    /\ At(r, "delete row")
    /\ OnRow(row' = None, UNCHANGED row)
    /\ last' = None
    /\ Goto(r, "idle", None)
    /\ UNCHANGED <<redis, intentKey, intentRow, served, overlap, redisFailed, expired>>

\* The session's key lives a day, the intent's seven.
Expire ==
    /\ \/ redis # None /\ redis' = None /\ UNCHANGED intentKey
       \/ intentKey # None /\ intentKey' = None /\ redis' = None
    /\ expired' = TRUE
    /\ UNCHANGED <<row, intentRow, request, served, last, overlap, redisFailed, rowFailed>>

\* GET /projects/{id}/intent with the key gone: the row is written back.
LoadIntent ==
    /\ intentKey = None /\ intentRow # None
    /\ intentKey' = intentRow
    /\ UNCHANGED <<redis, row, intentRow, request, served, last, overlap, faults>>

-----------------------------------------------------------------------------

Next ==
    \/ \E r \in Requests :
          \/ \E c \in Calls : Begin(r, c)
          \/ GetKey(r) \/ GetRow(r) \/ Warm(r)
          \/ Ask(r) \/ Validate(r) \/ Raise(r)
          \/ SetKey(r) \/ SetRow(r) \/ SetIntentKey(r) \/ SetIntentRow(r)
          \/ DeleteKey(r) \/ DeleteRow(r)
    \/ Expire \/ LoadIntent

Spec == Init /\ [][Next]_vars
===============================================================================
