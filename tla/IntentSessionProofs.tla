-------------------------- MODULE IntentSessionProofs --------------------------
(***************************************************************************)
(* That an intent a project goes on with is valid whatever overlaps or     *)
(* fails, and that the session is read back as it was saved while its      *)
(* requests come one at a time and its stores obey, for any fields, limits *)
(* and numbers of requests.                                                *)
(*                                                                         *)
(* A save is two writes, and a reader may fill the key from the row, so    *)
(* that the stores agree with the latest request only between certain      *)
(* steps: the invariant says which store may be behind while which write   *)
(* is still to come, and what the request that will write it holds.        *)
(***************************************************************************)
EXTENDS IntentSessionProperties, TLAPS

Places == {"idle", "get key", "get row", "warm", "model", "set key", "set row",
           "set intent key", "set intent row", "delete key", "delete row"}
Busy(r) == ~At(r, "idle")
AtOneOf(r, labels) == request[r].pc \in labels

\* What a request asks and holds, by the step it has come to.
Serving(r) ==
    /\ AtOneOf(r, {"get key", "get row", "warm"}) => Call(r).op \in {"parse", "clarify", "get"}
    /\ AtOneOf(r, {"model", "set key", "set row"}) => Call(r).op \in {"parse", "clarify"}
    /\ AtOneOf(r, {"warm", "model", "set key", "set row", "set intent key", "set intent row"})
          => Session(r) \in Sessions
    /\ AtOneOf(r, {"set key", "set row"}) /\ Session(r).status = "validated" => Valid(Session(r))
    /\ AtOneOf(r, {"set intent key", "set intent row"}) => Valid(Session(r))

\* What the latest request saved asked for more only while it might.
Asked == last # None /\ last.status = "clarifying" => MayAsk(last)

\* Before the first request there is nothing.
Unserved ==
    served = 0 => last = None /\ redis = None /\ row = None /\ \A r \in Requests : At(r, "idle")

OneAtATime == \A r, q \in Requests : Busy(r) /\ Busy(q) => r = q

\* A key that lives is the last session, unless it is about to be written or was deleted.
KeyIsLast ==
    /\ redis = last \/ \E r \in Requests : AtOneOf(r, {"set key", "delete row"})
    /\ \A r \in Requests :
          /\ ~AtOneOf(r, {"get row", "warm"})
          /\ At(r, "set key") => Session(r) = last

Same(s) == SameButPrompt(s, last)

\* No store has anything but the last session that is not about to be overwritten.
StoresFollow ==
    /\ redis = None \/ Same(redis) \/ \E r \in Requests : At(r, "set key")
    /\ Same(row) \/ \E r \in Requests : AtOneOf(r, {"set key", "set row", "delete row"})
    /\ \A r \in Requests :
          /\ At(r, "warm") => Same(Session(r))
          /\ At(r, "model") /\ last # None => Same(Session(r))
          /\ AtOneOf(r, {"set key", "set row"}) => Session(r) = last
          /\ At(r, "delete row") => redis = None

SessionInvariant ==
    /\ TypeOK
    /\ \A r \in Requests : Serving(r)
    /\ Asked /\ Unserved /\ ProjectIntentValid
    /\ ~overlap => OneAtATime
    /\ ~overlap /\ ~redisFailed /\ ~expired /\ last # None => KeyIsLast
    /\ ~overlap /\ ~redisFailed /\ ~rowFailed => StoresFollow

-----------------------------------------------------------------------------
(* Sessions, calls and the step of a request.                               *)

LEMMA SamePrompts ==
    ASSUME NEW s \in Sessions, NEW t \in Sessions
    PROVE  SameButPrompt(s, t) <=> s.fields = t.fields /\ s.round = t.round /\ s.status = t.status
<1>1. s # None /\ t # None
  BY NoneAssumption
<1>2. [s EXCEPT !.prompt = t.prompt] = t
         <=> s.fields = t.fields /\ s.round = t.round /\ s.status = t.status
  BY DEF Sessions
<1> QED  BY <1>1, <1>2 DEF SameButPrompt

\* A row that exists takes everything over but the prompt.
LEMMA OldPrompt ==
    ASSUME NEW s \in Sessions, NEW t \in Sessions
    PROVE  LET u == [s EXCEPT !.prompt = t.prompt]
           IN  u \in Sessions /\ SameButPrompt(u, s)
<1>1. [s EXCEPT !.prompt = t.prompt] \in Sessions
  BY DEF Sessions
<1>2. LET u == [s EXCEPT !.prompt = t.prompt]
      IN  u.fields = s.fields /\ u.round = s.round /\ u.status = s.status
  BY DEF Sessions
<1> QED  BY <1>1, <1>2, SamePrompts

LEMMA CallKinds ==
    ASSUME NEW c \in Calls
    PROVE  /\ c.op \in {"parse", "clarify", "get", "delete"}
           /\ c.op \in {"parse", "clarify"} => c.fields \in SUBSET Fields
           /\ c.op = "parse" => c.prompt \in Prompts
BY SessionAssumption DEF Calls

\* What was filled in stays filled in.
LEMMA UpdateAdds ==
    ASSUME NEW s \in Sessions, NEW c \in Calls, c.op \in {"parse", "clarify"}
    PROVE  Updated(s, c) \in Sessions /\ s.fields \subseteq Updated(s, c).fields
<1>1. c.fields \in SUBSET Fields /\ (c.op = "parse" => c.prompt \in Prompts)
  BY CallKinds
<1>2. CASE c.op = "parse"
  <2>1. Updated(s, c) = [s EXCEPT !.fields = @ \cup c.fields, !.prompt = c.prompt]
    BY <1>2 DEF Updated
  <2> QED  BY <1>1, <1>2, <2>1 DEF Sessions
<1>3. CASE c.op # "parse"
  <2>1. Updated(s, c) = [s EXCEPT !.fields = @ \cup c.fields, !.round = @ + 1]
    BY <1>3 DEF Updated
  <2>2. c.fields \in SUBSET Fields /\ s.round + 1 \in Nat
    BY <1>1, <1>3 DEF Sessions
  <2>3. Updated(s, c).fields = s.fields \cup c.fields
    BY <2>1 DEF Sessions
  <2>4. Updated(s, c) \in Sessions
    BY <2>1, <2>2 DEF Sessions
  <2> QED  BY <2>3, <2>4
<1> QED  BY <1>2, <1>3

LEMMA GotoDoes ==
    ASSUME TypeOK, NEW r \in Requests, NEW label \in Places, NEW s \in Kept(Sessions),
           Goto(r, label, s)
    PROVE  /\ request' \in [Requests -> [pc : Places, call : Calls, session : Kept(Sessions)]]
           /\ request'[r].pc = label
           /\ label # "idle" => request'[r].session = s /\ request'[r].call = request[r].call
           /\ \A q \in Requests \ {r} : request'[q] = request[q]
<1> DEFINE x == IF label = "idle" THEN Idle ELSE [request[r] EXCEPT !.pc = label, !.session = s]
<1>1. request \in [Requests -> [pc : Places, call : Calls, session : Kept(Sessions)]]
  BY DEF TypeOK, Places
<1>2. request' = [request EXCEPT ![r] = x]
  BY DEF Goto
<1>3. Idle \in [pc : Places, call : Calls, session : Kept(Sessions)] /\ Idle.pc = "idle"
  BY DEF Idle, Calls, Places, Kept
<1>4. /\ x \in [pc : Places, call : Calls, session : Kept(Sessions)] /\ x.pc = label
      /\ label # "idle" => x.session = s /\ x.call = request[r].call
  <2>1. request[r] \in [pc : Places, call : Calls, session : Kept(Sessions)]
    BY <1>1
  <2>2. CASE label = "idle"
    BY <1>3, <2>2
  <2>3. CASE label # "idle"
    BY <2>1, <2>3
  <2> QED  BY <2>2, <2>3
<1> HIDE DEF x
<1> QED  BY <1>1, <1>2, <1>4

\* A flag that is raised stays so.
LEMMA FlagStays ==
    ASSUME NEW f \in BOOLEAN, NEW g, g = f \/ g = TRUE
    PROVE  g \in BOOLEAN /\ (~g => ~f)
<1>1. CASE g = f
  BY <1>1
<1>2. CASE g = TRUE
  BY <1>2
<1> QED  BY <1>1, <1>2

\* A request that is being served makes a step.
Moves(r) ==
    /\ Busy(r) /\ \A q \in Requests \ {r} : request'[q] = request[q]
    /\ served' = served /\ overlap' = overlap

LEMMA MovesKeeps ==
    ASSUME SessionInvariant, NEW r \in Requests, Moves(r), Serving(r)'
    PROVE  /\ \A u \in Requests : Serving(u)'
           /\ Unserved' /\ (~overlap' => OneAtATime')
           /\ ~overlap => \A q \in Requests \ {r} : At(q, "idle") /\ At(q, "idle")'
<1> USE DEF Moves
<1>1. ASSUME NEW u \in Requests \ {r}
      PROVE  Serving(u)'
  <2>1. Serving(u) /\ request'[u] = request[u]
    BY DEF SessionInvariant
  <2> QED  BY <2>1 DEF Serving, AtOneOf, Call, Session
<1>2. served # 0
  BY DEF SessionInvariant, Unserved, Busy
<1>3. ~overlap => \A q \in Requests \ {r} : At(q, "idle") /\ At(q, "idle")'
  BY DEF SessionInvariant, OneAtATime, Busy, At
<1>4. ~overlap' => OneAtATime'
  BY <1>3 DEF OneAtATime, Busy, At
<1> QED  BY <1>1, <1>2, <1>3, <1>4 DEF Unserved

-----------------------------------------------------------------------------
(* The step of each action.                                                 *)

LEMMA BeginKeeps ==
    ASSUME SessionInvariant, NEW r \in Requests, NEW c \in Calls, Begin(r, c)
    PROVE  SessionInvariant'
<1> USE DEF stores, faults
<1> DEFINE label == IF served = 0 THEN "model"
                    ELSE IF c.op = "delete" THEN "delete key" ELSE "get key"
           s == IF served = 0 THEN NewSession(c.prompt) ELSE None
<1>1. /\ TypeOK /\ At(r, "idle") /\ served \in Nat /\ served' # 0
      /\ c.op \in {"parse", "clarify", "get", "delete"} /\ (served = 0 => c.op = "parse")
  <2>1. TypeOK
    BY DEF SessionInvariant
  <2>2. served \in 0 .. MaxRequests /\ served' = served + 1
    BY <2>1 DEF TypeOK, Begin
  <2>3. served \in Nat /\ served' # 0
    BY <2>2, SessionAssumption
  <2> QED  BY <2>1, <2>3, CallKinds DEF Begin
<1>2. s \in Kept(Sessions) /\ (served = 0 => s \in Sessions)
  <2>1. CASE served = 0
    <3>1. c.op = "parse" /\ c.prompt \in Prompts
      BY <1>1, <2>1, CallKinds
    <3>2. NewSession(c.prompt) \in Sessions
      BY <3>1 DEF NewSession, Sessions
    <3> QED  BY <2>1, <3>2 DEF Kept
  <2>2. CASE served # 0
    BY <2>2 DEF Kept
  <2> QED  BY <2>1, <2>2
<1>3. /\ request' = [request EXCEPT ![r] = [pc |-> label, call |-> c, session |-> s]]
      /\ UNCHANGED <<stores, last, faults>>
      /\ overlap' = (overlap \/ \E q \in Requests \ {r} : ~At(q, "idle"))
  BY DEF Begin
<1>4. label \in Places
  BY DEF Places
<1> HIDE DEF s
<1>5. TypeOK'
  <2>1. [pc |-> label, call |-> c, session |-> s]
           \in [pc : Places, call : Calls, session : Kept(Sessions)]
    BY <1>2, <1>4
  <2>2. request' \in [Requests -> [pc : Places, call : Calls, session : Kept(Sessions)]]
    <3> HIDE DEF label
    <3> QED  BY <1>1, <1>3, <2>1 DEF TypeOK, Places
  <2>3. served' \in 0 .. MaxRequests
    <3>1. served \in 0 .. MaxRequests /\ served < MaxRequests /\ served' = served + 1
      BY <1>1 DEF TypeOK, Begin
    <3> QED  BY <3>1, SessionAssumption
  <2>4. overlap' \in BOOLEAN
    BY <1>1, <1>3 DEF TypeOK
  <2> QED  BY <1>1, <1>3, <2>2, <2>3, <2>4 DEF TypeOK, Places
<1>6. /\ request'[r].pc = label /\ request'[r].call = c /\ request'[r].session = s
      /\ request'[r].pc \in {"model", "delete key", "get key"}
      /\ (request'[r].pc = "model" <=> served = 0)
      /\ request'[r].pc = "get key" => c.op # "delete"
      /\ \A q \in Requests \ {r} : request'[q] = request[q]
  BY <1>1, <1>3 DEF TypeOK
<1>7. ASSUME NEW u \in Requests
      PROVE  Serving(u)'
  <2>1. CASE u = r
    <3> HIDE DEF label
    <3> QED  BY <1>1, <1>2, <1>6, <2>1 DEF Serving, AtOneOf, Call, Session
  <2>2. CASE u # r
    <3>1. Serving(u) /\ request'[u] = request[u]
      BY <1>6, <2>2 DEF SessionInvariant
    <3> QED  BY <3>1 DEF Serving, AtOneOf, Call, Session
  <2> QED  BY <2>1, <2>2
<1>8. Asked' /\ ProjectIntentValid' /\ Unserved'
  BY <1>1, <1>3 DEF SessionInvariant, Asked, ProjectIntentValid, Unserved, MayAsk
<1>9. ~overlap' => ~overlap /\ \A q \in Requests : At(q, "idle") /\ (q # r => At(q, "idle")')
  <2>1. ~overlap' => ~overlap /\ \A q \in Requests \ {r} : At(q, "idle")
    BY <1>3
  <2> QED  BY <1>1, <1>6, <2>1 DEF At
<1>10. ~overlap' => OneAtATime'
  BY <1>9 DEF OneAtATime, Busy
<1>11. ASSUME ~overlap', ~redisFailed', ~expired', last' # None
       PROVE  KeyIsLast'
  <2>1. KeyIsLast /\ served # 0
    BY <1>3, <1>9, <1>11 DEF SessionInvariant, Unserved
  <2>2. redis = last
    BY <1>3, <1>9, <1>11, <2>1 DEF KeyIsLast, AtOneOf, At
  <2> QED  BY <1>3, <1>6, <1>9, <1>11, <2>1, <2>2 DEF KeyIsLast, AtOneOf, At
<1>12. ASSUME ~overlap', ~redisFailed', ~rowFailed'
       PROVE  StoresFollow'
  <2>1. StoresFollow
    BY <1>3, <1>9, <1>12 DEF SessionInvariant
  <2>2. (redis = None \/ Same(redis)) /\ Same(row)
    BY <1>3, <1>9, <1>12, <2>1 DEF StoresFollow, AtOneOf, At
  <2>3. served = 0 => last = None
    BY DEF SessionInvariant, Unserved
  <2>4. (redis' = None \/ Same(redis)') /\ Same(row)'
    BY <1>3, <2>2 DEF Same, SameButPrompt
  <2> QED  BY <1>3, <1>6, <1>9, <1>12, <2>3, <2>4 DEF StoresFollow, AtOneOf, At
<1> QED  BY <1>5, <1>7, <1>8, <1>10, <1>11, <1>12 DEF SessionInvariant

LEMMA GetKeyKeeps ==
    ASSUME SessionInvariant, NEW r \in Requests, GetKey(r)
    PROVE  SessionInvariant'
<1> USE DEF stores
<1>1. TypeOK /\ At(r, "get key") /\ Serving(r) /\ Busy(r)
  BY DEF SessionInvariant, GetKey, Busy, At
<1>2. /\ UNCHANGED <<stores, served, last, overlap, rowFailed, expired>>
      /\ redisFailed' \in BOOLEAN /\ (~redisFailed' => ~redisFailed)
  <2>1. /\ redis' = redis /\ row' = row /\ intentKey' = intentKey /\ intentRow' = intentRow
        /\ served' = served /\ last' = last /\ overlap' = overlap
        /\ rowFailed' = rowFailed /\ expired' = expired
    BY DEF GetKey
  <2>2. redisFailed' = redisFailed \/ redisFailed' = TRUE
    BY DEF GetKey, OnRedis
  <2>3. redisFailed \in BOOLEAN
    BY <1>1 DEF TypeOK
  <2>4. redisFailed' \in BOOLEAN /\ (~redisFailed' => ~redisFailed)
    BY <2>2, <2>3, FlagStays
  <2> QED  BY <2>1, <2>4
<1>3. \/ Goto(r, "get row", None) /\ (~redisFailed' => redis = None)
      \/ redis # None /\ Goto(r, "idle", redis)
      \/ redis # None /\ Call(r).op # "get" /\ Goto(r, "model", redis)
  BY DEF GetKey, OnRedis, Loaded
<1>4. redis \in Kept(Sessions) /\ None \in Kept(Sessions) /\ (redis # None => redis \in Sessions)
  BY <1>1 DEF TypeOK, Kept
<1>5. /\ request' \in [Requests -> [pc : Places, call : Calls, session : Kept(Sessions)]]
      /\ \A q \in Requests \ {r} : request'[q] = request[q]
      /\ \/ At(r, "get row")' /\ Call(r)' = Call(r) /\ (~redisFailed' => redis = None)
         \/ At(r, "idle")'
         \/ /\ At(r, "model")' /\ Call(r)' = Call(r) /\ Call(r).op # "get"
            /\ Session(r)' = redis /\ redis \in Sessions
  <2>1. {"get row", "idle", "model"} \subseteq Places
    BY DEF Places
  <2>2. CASE Goto(r, "get row", None) /\ (~redisFailed' => redis = None)
    BY <1>1, <1>4, <2>1, <2>2, GotoDoes DEF At, Call
  <2>3. CASE redis # None /\ Goto(r, "idle", redis)
    BY <1>1, <1>4, <2>1, <2>3, GotoDoes DEF At
  <2>4. CASE redis # None /\ Call(r).op # "get" /\ Goto(r, "model", redis)
    BY <1>1, <1>4, <2>1, <2>4, GotoDoes DEF At, Call, Session
  <2> QED  BY <1>3, <2>2, <2>3, <2>4
<1>6. TypeOK'
  BY <1>1, <1>2, <1>5 DEF TypeOK, Places
<1>7. Moves(r)
  BY <1>1, <1>2, <1>5 DEF Moves
<1>8. Serving(r)'
  BY <1>1, <1>5 DEF Serving, AtOneOf, At
<1>9. /\ \A u \in Requests : Serving(u)'
      /\ Unserved' /\ (~overlap' => OneAtATime')
      /\ ~overlap => \A q \in Requests \ {r} : At(q, "idle") /\ At(q, "idle")'
  BY <1>7, <1>8, MovesKeeps
<1>10. Asked' /\ ProjectIntentValid'
  BY <1>2 DEF SessionInvariant, Asked, ProjectIntentValid, MayAsk
<1>11. ASSUME ~overlap', ~redisFailed', ~expired', last' # None
       PROVE  KeyIsLast'
  <2>1. KeyIsLast
    BY <1>2, <1>11 DEF SessionInvariant
  <2>2. redis = last
    BY <1>1, <1>2, <1>9, <1>11, <2>1 DEF KeyIsLast, AtOneOf, At
  <2> QED  BY <1>2, <1>5, <1>9, <1>11, <2>2 DEF KeyIsLast, AtOneOf, At
<1>12. ASSUME ~overlap', ~redisFailed', ~rowFailed'
       PROVE  StoresFollow'
  <2>1. StoresFollow
    BY <1>2, <1>12 DEF SessionInvariant
  <2>2. (redis = None \/ Same(redis)) /\ Same(row)
    BY <1>1, <1>2, <1>9, <1>12, <2>1 DEF StoresFollow, AtOneOf, At
  <2>3. (redis' = None \/ Same(redis)') /\ Same(row)'
    BY <1>2, <2>2 DEF Same
  <2>4. At(r, "model")' => Same(Session(r))'
    BY <1>2, <1>5, <2>2, NoneAssumption DEF Same, At
  <2> QED  BY <1>2, <1>5, <1>9, <1>12, <2>3, <2>4 DEF StoresFollow, AtOneOf, At
<1> QED  BY <1>6, <1>9, <1>10, <1>11, <1>12 DEF SessionInvariant


LEMMA GetRowKeeps ==
    ASSUME SessionInvariant, NEW r \in Requests, GetRow(r)
    PROVE  SessionInvariant'
<1> USE DEF stores
<1>1. TypeOK /\ At(r, "get row") /\ Serving(r) /\ Busy(r)
  BY DEF SessionInvariant, GetRow, Busy, At
<1>2. /\ UNCHANGED <<stores, served, last, overlap, redisFailed, expired>>
      /\ rowFailed' \in BOOLEAN /\ (~rowFailed' => ~rowFailed)
  <2>1. /\ redis' = redis /\ row' = row /\ intentKey' = intentKey /\ intentRow' = intentRow
        /\ served' = served /\ last' = last /\ overlap' = overlap
        /\ redisFailed' = redisFailed /\ expired' = expired
    BY DEF GetRow
  <2>2. rowFailed' = rowFailed \/ rowFailed' = TRUE
    BY DEF GetRow, OnRow
  <2>3. rowFailed \in BOOLEAN
    BY <1>1 DEF TypeOK
  <2>4. rowFailed' \in BOOLEAN /\ (~rowFailed' => ~rowFailed)
    BY <2>2, <2>3, FlagStays
  <2> QED  BY <2>1, <2>4
<1>3. \/ Goto(r, "idle", None)
      \/ row # None /\ Goto(r, "warm", row)
  BY DEF GetRow, OnRow, Loaded
<1>4. row \in Kept(Sessions) /\ None \in Kept(Sessions) /\ (row # None => row \in Sessions)
  BY <1>1 DEF TypeOK, Kept
<1>5. /\ request' \in [Requests -> [pc : Places, call : Calls, session : Kept(Sessions)]]
      /\ \A q \in Requests \ {r} : request'[q] = request[q]
      /\ \/ At(r, "idle")'
         \/ /\ At(r, "warm")' /\ Call(r)' = Call(r)
            /\ Session(r)' = row /\ row \in Sessions
  <2>1. {"warm", "idle"} \subseteq Places
    BY DEF Places
  <2>2. CASE Goto(r, "idle", None)
    BY <1>1, <1>4, <2>1, <2>2, GotoDoes DEF At
  <2>3. CASE row # None /\ Goto(r, "warm", row)
    BY <1>1, <1>4, <2>1, <2>3, GotoDoes DEF At, Call, Session
  <2> QED  BY <1>3, <2>2, <2>3
<1>6. TypeOK'
  BY <1>1, <1>2, <1>5 DEF TypeOK, Places
<1>7. Moves(r)
  BY <1>1, <1>2, <1>5 DEF Moves
<1>8. Serving(r)'
  BY <1>1, <1>5 DEF Serving, AtOneOf, At
<1>9. /\ \A u \in Requests : Serving(u)'
      /\ Unserved' /\ (~overlap' => OneAtATime')
      /\ ~overlap => \A q \in Requests \ {r} : At(q, "idle") /\ At(q, "idle")'
  BY <1>7, <1>8, MovesKeeps
<1>10. Asked' /\ ProjectIntentValid'
  BY <1>2 DEF SessionInvariant, Asked, ProjectIntentValid, MayAsk
<1>11. ASSUME ~overlap', ~redisFailed', ~expired', last' # None
       PROVE  KeyIsLast'
  BY <1>1, <1>2, <1>11 DEF SessionInvariant, KeyIsLast, AtOneOf, At
<1>12. ASSUME ~overlap', ~redisFailed', ~rowFailed'
       PROVE  StoresFollow'
  <2>1. StoresFollow
    BY <1>2, <1>12 DEF SessionInvariant
  <2>2. (redis = None \/ Same(redis)) /\ Same(row)
    BY <1>1, <1>2, <1>9, <1>12, <2>1 DEF StoresFollow, AtOneOf, At
  <2>3. (redis' = None \/ Same(redis)') /\ Same(row)'
    BY <1>2, <2>2 DEF Same
  <2>4. At(r, "warm")' => Same(Session(r))'
    BY <1>2, <1>5, <2>2 DEF Same, At
  <2> QED  BY <1>2, <1>5, <1>9, <1>12, <2>3, <2>4 DEF StoresFollow, AtOneOf, At
<1> QED  BY <1>6, <1>9, <1>10, <1>11, <1>12 DEF SessionInvariant

LEMMA WarmKeeps ==
    ASSUME SessionInvariant, NEW r \in Requests, Warm(r)
    PROVE  SessionInvariant'
<1>1. TypeOK /\ At(r, "warm") /\ Serving(r) /\ Busy(r) /\ Session(r) \in Sessions
  BY DEF SessionInvariant, Warm, Busy, At, Serving, AtOneOf
<1>2. /\ row' = row /\ intentKey' = intentKey /\ intentRow' = intentRow
      /\ served' = served /\ last' = last /\ overlap' = overlap
      /\ rowFailed' = rowFailed /\ expired' = expired
      /\ redis' = redis \/ redis' = Session(r)
      /\ redisFailed' \in BOOLEAN /\ (~redisFailed' => ~redisFailed)
  <2>1. /\ row' = row /\ intentKey' = intentKey /\ intentRow' = intentRow
        /\ served' = served /\ last' = last /\ overlap' = overlap
        /\ rowFailed' = rowFailed /\ expired' = expired
        /\ redis' = redis \/ redis' = Session(r)
    BY DEF Warm, OnRedis
  <2>2. redisFailed' = redisFailed \/ redisFailed' = TRUE
    BY DEF Warm, OnRedis
  <2>3. redisFailed \in BOOLEAN
    BY <1>1 DEF TypeOK
  <2>4. redisFailed' \in BOOLEAN /\ (~redisFailed' => ~redisFailed)
    BY <2>2, <2>3, FlagStays
  <2> QED  BY <2>1, <2>4
<1>3. \/ Goto(r, "idle", Session(r))
      \/ Call(r).op # "get" /\ Goto(r, "model", Session(r))
  BY DEF Warm, Loaded
<1>4. Session(r) \in Kept(Sessions) /\ Session(r) # None
  BY <1>1, NoneAssumption DEF Kept
<1>5. /\ request' \in [Requests -> [pc : Places, call : Calls, session : Kept(Sessions)]]
      /\ \A q \in Requests \ {r} : request'[q] = request[q]
      /\ \/ At(r, "idle")'
         \/ /\ At(r, "model")' /\ Call(r)' = Call(r) /\ Call(r).op # "get"
            /\ Session(r)' = Session(r)
  <2>1. {"model", "idle"} \subseteq Places
    BY DEF Places
  <2>2. CASE Goto(r, "idle", Session(r))
    BY <1>1, <1>4, <2>1, <2>2, GotoDoes DEF At
  <2>3. CASE Call(r).op # "get" /\ Goto(r, "model", Session(r))
    BY <1>1, <1>4, <2>1, <2>3, GotoDoes DEF At, Call, Session
  <2> QED  BY <1>3, <2>2, <2>3
<1>6. TypeOK'
  <2>1. redis' \in Kept(Sessions)
    BY <1>1, <1>2, <1>4 DEF TypeOK
  <2> QED  BY <1>1, <1>2, <1>5, <2>1 DEF TypeOK, Places
<1>7. Moves(r)
  BY <1>1, <1>2, <1>5 DEF Moves
<1>8. Serving(r)'
  BY <1>1, <1>5 DEF Serving, AtOneOf, At
<1>9. /\ \A u \in Requests : Serving(u)'
      /\ Unserved' /\ (~overlap' => OneAtATime')
      /\ ~overlap => \A q \in Requests \ {r} : At(q, "idle") /\ At(q, "idle")'
  BY <1>7, <1>8, MovesKeeps
<1>10. Asked' /\ ProjectIntentValid'
  BY <1>2 DEF SessionInvariant, Asked, ProjectIntentValid, MayAsk
<1>11. ASSUME ~overlap', ~redisFailed', ~expired', last' # None
       PROVE  KeyIsLast'
  BY <1>1, <1>2, <1>11 DEF SessionInvariant, KeyIsLast, AtOneOf, At
<1>12. ASSUME ~overlap', ~redisFailed', ~rowFailed'
       PROVE  StoresFollow'
  <2>1. StoresFollow
    BY <1>2, <1>12 DEF SessionInvariant
  <2>2. (redis = None \/ Same(redis)) /\ Same(row) /\ Same(Session(r))
    BY <1>1, <1>2, <1>9, <1>12, <2>1 DEF StoresFollow, AtOneOf, At
  <2>3. (redis' = None \/ Same(redis)') /\ Same(row)'
    BY <1>2, <2>2 DEF Same
  <2>4. At(r, "model")' => Same(Session(r))'
    BY <1>2, <1>5, <2>2 DEF Same, At
  <2> QED  BY <1>2, <1>5, <1>9, <1>12, <2>3, <2>4 DEF StoresFollow, AtOneOf, At
<1> QED  BY <1>6, <1>9, <1>10, <1>11, <1>12 DEF SessionInvariant

\* A session is saved: what has been decided of it is what its status says.
LEMMA SaveKeeps ==
    ASSUME SessionInvariant, NEW r \in Requests, NEW s \in Sessions,
           At(r, "model"), Save(r, s), UNCHANGED <<stores, served, overlap, faults>>,
           s.status = "clarifying" => MayAsk(s), s.status = "validated" => Valid(s)
    PROVE  SessionInvariant'
<1> USE DEF stores, faults
<1>1. TypeOK /\ Serving(r) /\ Busy(r)
  BY DEF SessionInvariant, Busy, At
<1>2. Goto(r, "set key", s) /\ last' = s
  BY DEF Save
<1>3. s \in Kept(Sessions) /\ "set key" \in Places /\ s # None
  BY NoneAssumption DEF Kept, Places
<1>4. /\ request' \in [Requests -> [pc : Places, call : Calls, session : Kept(Sessions)]]
      /\ \A q \in Requests \ {r} : request'[q] = request[q]
      /\ At(r, "set key")' /\ Call(r)' = Call(r) /\ Session(r)' = s
  BY <1>1, <1>2, <1>3, GotoDoes DEF At, Call, Session
<1>5. TypeOK'
  BY <1>1, <1>2, <1>3, <1>4 DEF TypeOK, Places
<1>6. Moves(r)
  BY <1>1, <1>4 DEF Moves
<1>7. Serving(r)'
  <2>1. Call(r).op \in {"parse", "clarify"}
    BY <1>1 DEF Serving, AtOneOf, At
  <2>2. Valid(s)' <=> Valid(s)
    BY DEF Valid
  <2> QED  BY <1>4, <2>1, <2>2 DEF Serving, AtOneOf, At, Valid
<1>8. /\ \A u \in Requests : Serving(u)'
      /\ Unserved' /\ (~overlap' => OneAtATime')
      /\ ~overlap => \A q \in Requests \ {r} : At(q, "idle") /\ At(q, "idle")'
  BY <1>6, <1>7, MovesKeeps
<1>9. Asked' /\ ProjectIntentValid'
  BY <1>2 DEF SessionInvariant, Asked, ProjectIntentValid, MayAsk
<1>10. ASSUME ~overlap'
       PROVE  KeyIsLast' /\ StoresFollow'
  <2>1. \A q \in Requests \ {r} : At(q, "idle")'
    BY <1>8, <1>10
  <2>2. \E q \in Requests : At(q, "set key")'
    BY <1>4
  <2>3. KeyIsLast'
    BY <1>2, <1>4, <2>1, <2>2 DEF KeyIsLast, AtOneOf, At
  <2>4. StoresFollow'
    BY <1>2, <1>4, <2>1, <2>2 DEF StoresFollow, AtOneOf, At
  <2> QED  BY <2>3, <2>4
<1> QED  BY <1>5, <1>8, <1>9, <1>10 DEF SessionInvariant

\* What a request at the model saves has all the answers of its session.
LEMMA AtModel ==
    ASSUME SessionInvariant, NEW r \in Requests, At(r, "model")
    PROVE  /\ Updated(Session(r), Call(r)) \in Sessions
           /\ Session(r).fields \subseteq Updated(Session(r), Call(r)).fields
<1>1. Call(r) \in Calls
  BY DEF SessionInvariant, TypeOK, Call
<1>2. Session(r) \in Sessions /\ Call(r).op \in {"parse", "clarify"}
  BY DEF SessionInvariant, Serving, AtOneOf, At
<1> QED  BY <1>1, <1>2, UpdateAdds

LEMMA AskSaves ==
    ASSUME SessionInvariant, NEW r \in Requests, Ask(r)
    PROVE  \E s \in Sessions :
              /\ At(r, "model") /\ Save(r, s) /\ UNCHANGED <<stores, served, overlap, faults>>
              /\ s.status = "clarifying" /\ MayAsk(s) /\ Session(r).fields \subseteq s.fields
<1> DEFINE u == Updated(Session(r), Call(r))
           s == [u EXCEPT !.status = "clarifying"]
<1>1. At(r, "model") /\ MayAsk(u) /\ Save(r, s) /\ UNCHANGED <<stores, served, overlap, faults>>
  BY DEF Ask
<1>2. u \in Sessions /\ Session(r).fields \subseteq u.fields
  BY <1>1, AtModel
<1> HIDE DEF u
<1>3. s \in Sessions /\ s.status = "clarifying" /\ s.fields = u.fields /\ s.round = u.round
  BY <1>2 DEF Sessions
<1>4. MayAsk(s)
  BY <1>1, <1>3 DEF MayAsk
<1> HIDE DEF s
<1> QED  BY <1>1, <1>2, <1>3, <1>4

LEMMA ValidateSaves ==
    ASSUME SessionInvariant, NEW r \in Requests, Validate(r)
    PROVE  \E s \in Sessions :
              /\ At(r, "model") /\ Save(r, s) /\ UNCHANGED <<stores, served, overlap, faults>>
              /\ s.status = "validated" /\ Valid(s) /\ Session(r).fields \subseteq s.fields
<1> DEFINE u == Updated(Session(r), Call(r))
           s == [u EXCEPT !.status = "validated"]
<1>1. At(r, "model") /\ Valid(u) /\ Save(r, s) /\ UNCHANGED <<stores, served, overlap, faults>>
  BY DEF Validate
<1>2. u \in Sessions /\ Session(r).fields \subseteq u.fields
  BY <1>1, AtModel
<1> HIDE DEF u
<1>3. s \in Sessions /\ s.status = "validated" /\ s.fields = u.fields
  BY <1>2 DEF Sessions
<1>4. Valid(s)
  BY <1>1, <1>3 DEF Valid
<1> HIDE DEF s
<1> QED  BY <1>1, <1>2, <1>3, <1>4

LEMMA AskAndValidateKeep ==
    ASSUME SessionInvariant, NEW r \in Requests, Ask(r) \/ Validate(r)
    PROVE  SessionInvariant'
<1>1. PICK s \in Sessions :
          /\ At(r, "model") /\ Save(r, s) /\ UNCHANGED <<stores, served, overlap, faults>>
          /\ s.status = "clarifying" => MayAsk(s)
          /\ s.status = "validated" => Valid(s)
  BY AskSaves, ValidateSaves
<1> QED  BY <1>1, SaveKeeps


LEMMA RaiseKeeps ==
    ASSUME SessionInvariant, NEW r \in Requests, Raise(r)
    PROVE  SessionInvariant'
<1> USE DEF stores, faults
<1>1. TypeOK /\ At(r, "model") /\ Busy(r)
  BY DEF SessionInvariant, Raise, Busy, At
<1>2. UNCHANGED <<stores, served, last, overlap, faults>> /\ Goto(r, "idle", None)
  BY DEF Raise
<1>3. "idle" \in Places /\ None \in Kept(Sessions)
  BY DEF Places, Kept
<1>4. /\ request' \in [Requests -> [pc : Places, call : Calls, session : Kept(Sessions)]]
      /\ \A q \in Requests \ {r} : request'[q] = request[q]
      /\ At(r, "idle")'
  BY <1>1, <1>2, <1>3, GotoDoes DEF At
<1>5. TypeOK'
  BY <1>1, <1>2, <1>4 DEF TypeOK, Places
<1>6. Moves(r) /\ Serving(r)'
  BY <1>1, <1>2, <1>4 DEF Moves, Serving, AtOneOf, At
<1>7. /\ \A u \in Requests : Serving(u)'
      /\ Unserved' /\ (~overlap' => OneAtATime')
      /\ ~overlap => \A q \in Requests \ {r} : At(q, "idle") /\ At(q, "idle")'
  BY <1>6, MovesKeeps
<1>8. Asked' /\ ProjectIntentValid'
  BY <1>2 DEF SessionInvariant, Asked, ProjectIntentValid, MayAsk
<1>9. ASSUME ~overlap', ~redisFailed', ~expired', last' # None
      PROVE  KeyIsLast'
  <2>1. KeyIsLast
    BY <1>2, <1>9 DEF SessionInvariant
  <2>2. redis = last
    BY <1>1, <1>2, <1>7, <1>9, <2>1 DEF KeyIsLast, AtOneOf, At
  <2> QED  BY <1>2, <1>4, <1>7, <1>9, <2>2 DEF KeyIsLast, AtOneOf, At
<1>10. ASSUME ~overlap', ~redisFailed', ~rowFailed'
       PROVE  StoresFollow'
  <2>1. StoresFollow
    BY <1>2, <1>10 DEF SessionInvariant
  <2>2. (redis = None \/ Same(redis)) /\ Same(row)
    BY <1>1, <1>2, <1>7, <1>10, <2>1 DEF StoresFollow, AtOneOf, At
  <2>3. (redis' = None \/ Same(redis)') /\ Same(row)'
    BY <1>2, <2>2 DEF Same
  <2> QED  BY <1>2, <1>4, <1>7, <1>10, <2>3 DEF StoresFollow, AtOneOf, At
<1> QED  BY <1>5, <1>7, <1>8, <1>9, <1>10 DEF SessionInvariant

LEMMA SetKeyKeeps ==
    ASSUME SessionInvariant, NEW r \in Requests, SetKey(r)
    PROVE  SessionInvariant'
<1>1. TypeOK /\ At(r, "set key") /\ Serving(r) /\ Busy(r) /\ Session(r) \in Sessions
  BY DEF SessionInvariant, SetKey, Busy, At, Serving, AtOneOf
<1>2. /\ row' = row /\ intentKey' = intentKey /\ intentRow' = intentRow
      /\ served' = served /\ last' = last /\ overlap' = overlap
      /\ rowFailed' = rowFailed /\ expired' = expired
      /\ redis' = redis \/ redis' = Session(r)
      /\ Goto(r, "set row", Session(r))
  BY DEF SetKey, OnRedis
<1>3. /\ redisFailed' \in BOOLEAN /\ (~redisFailed' => ~redisFailed)
      /\ redisFailed' = TRUE \/ redis' = Session(r)
  <2>1. redisFailed' = redisFailed \/ redisFailed' = TRUE
    BY DEF SetKey, OnRedis
  <2>2. redisFailed \in BOOLEAN
    BY <1>1 DEF TypeOK
  <2>3. redisFailed' \in BOOLEAN /\ (~redisFailed' => ~redisFailed)
    BY <2>1, <2>2, FlagStays
  <2>4. redisFailed' = TRUE \/ redis' = Session(r)
    BY DEF SetKey, OnRedis
  <2> QED  BY <2>3, <2>4
<1>4. Session(r) \in Kept(Sessions) /\ "set row" \in Places
  BY <1>1 DEF Kept, Places
<1>5. /\ request' \in [Requests -> [pc : Places, call : Calls, session : Kept(Sessions)]]
      /\ \A q \in Requests \ {r} : request'[q] = request[q]
      /\ At(r, "set row")' /\ Call(r)' = Call(r) /\ Session(r)' = Session(r)
  BY <1>1, <1>2, <1>4, GotoDoes DEF At, Call, Session
<1>6. TypeOK'
  <2>1. redis' \in Kept(Sessions)
    BY <1>1, <1>2, <1>4 DEF TypeOK
  <2> QED  BY <1>1, <1>2, <1>3, <1>5, <2>1 DEF TypeOK, Places
<1>7. Moves(r)
  BY <1>1, <1>2, <1>5 DEF Moves
<1>8. Serving(r)'
  BY <1>1, <1>5 DEF Serving, AtOneOf, At, Valid
<1>9. /\ \A u \in Requests : Serving(u)'
      /\ Unserved' /\ (~overlap' => OneAtATime')
      /\ ~overlap => \A q \in Requests \ {r} : At(q, "idle") /\ At(q, "idle")'
  BY <1>7, <1>8, MovesKeeps
<1>10. Asked' /\ ProjectIntentValid'
  BY <1>2 DEF SessionInvariant, Asked, ProjectIntentValid, MayAsk
<1>11. ASSUME ~overlap', ~redisFailed', ~expired', last' # None
       PROVE  KeyIsLast'
  <2>1. Session(r) = last
    BY <1>1, <1>2, <1>3, <1>11 DEF SessionInvariant, KeyIsLast
  <2>2. redis' = last'
    BY <1>2, <1>3, <1>11, <2>1
  <2> QED  BY <1>2, <1>5, <1>9, <1>11, <2>2 DEF KeyIsLast, AtOneOf, At
<1>12. ASSUME ~overlap', ~redisFailed', ~rowFailed'
       PROVE  StoresFollow'
  <2>1. Session(r) = last
    BY <1>1, <1>2, <1>3, <1>12 DEF SessionInvariant, StoresFollow, AtOneOf, At
  <2>2. Same(redis)'
    BY <1>2, <1>3, <1>12, <2>1 DEF Same, SameButPrompt
  <2>3. \E q \in Requests : AtOneOf(q, {"set key", "set row", "delete row"})'
    BY <1>5 DEF AtOneOf, At
  <2> QED  BY <1>2, <1>5, <1>9, <1>12, <2>1, <2>2, <2>3 DEF StoresFollow, AtOneOf, At
<1> QED  BY <1>6, <1>9, <1>10, <1>11, <1>12 DEF SessionInvariant

LEMMA SetRowKeeps ==
    ASSUME SessionInvariant, NEW r \in Requests, SetRow(r)
    PROVE  SessionInvariant'
<1> DEFINE s == IF row = None THEN Session(r) ELSE [Session(r) EXCEPT !.prompt = row.prompt]
<1>1. /\ TypeOK /\ At(r, "set row") /\ Serving(r) /\ Busy(r) /\ Session(r) \in Sessions
      /\ Session(r).status = "validated" => Valid(Session(r))
  BY DEF SessionInvariant, SetRow, Busy, At, Serving, AtOneOf
<1>2. /\ redis' = redis /\ intentKey' = intentKey /\ intentRow' = intentRow
      /\ served' = served /\ last' = last /\ overlap' = overlap
      /\ redisFailed' = redisFailed /\ expired' = expired
      /\ row' = row \/ row' = s
      /\ \/ Goto(r, "idle", Session(r))
         \/ Session(r).status = "validated" /\ Goto(r, "set intent key", Session(r))
  BY DEF SetRow, OnRow
<1>3. /\ rowFailed' \in BOOLEAN /\ (~rowFailed' => ~rowFailed)
      /\ rowFailed' = TRUE \/ row' = s
  <2>1. rowFailed' = rowFailed \/ rowFailed' = TRUE
    BY DEF SetRow, OnRow
  <2>2. rowFailed \in BOOLEAN
    BY <1>1 DEF TypeOK
  <2>3. rowFailed' \in BOOLEAN /\ (~rowFailed' => ~rowFailed)
    BY <2>1, <2>2, FlagStays
  <2>4. rowFailed' = TRUE \/ row' = s
    BY DEF SetRow, OnRow
  <2> QED  BY <2>3, <2>4
<1>4. s \in Sessions /\ SameButPrompt(s, Session(r))
  <2>1. row = None \/ row \in Sessions
    BY <1>1 DEF TypeOK, Kept
  <2>2. CASE row = None
    BY <1>1, <2>2 DEF SameButPrompt
  <2>3. CASE row # None
    BY <1>1, <2>1, <2>3, OldPrompt
  <2> QED  BY <2>2, <2>3
<1> HIDE DEF s
<1>5. Session(r) \in Kept(Sessions) /\ {"idle", "set intent key"} \subseteq Places
  BY <1>1 DEF Kept, Places
<1>6. /\ request' \in [Requests -> [pc : Places, call : Calls, session : Kept(Sessions)]]
      /\ \A q \in Requests \ {r} : request'[q] = request[q]
      /\ \/ At(r, "idle")'
         \/ /\ At(r, "set intent key")' /\ Call(r)' = Call(r)
            /\ Session(r)' = Session(r) /\ Valid(Session(r))
  <2>1. CASE Goto(r, "idle", Session(r))
    BY <1>1, <1>5, <2>1, GotoDoes DEF At
  <2>2. CASE Session(r).status = "validated" /\ Goto(r, "set intent key", Session(r))
    BY <1>1, <1>5, <2>2, GotoDoes DEF At, Call, Session
  <2> QED  BY <1>2, <2>1, <2>2
<1>7. TypeOK'
  <2>1. row' \in Kept(Sessions)
    BY <1>1, <1>2, <1>4 DEF TypeOK, Kept
  <2> QED  BY <1>1, <1>2, <1>3, <1>6, <2>1 DEF TypeOK, Places
<1>8. Moves(r)
  BY <1>1, <1>2, <1>6 DEF Moves
<1>9. Serving(r)'
  BY <1>1, <1>6 DEF Serving, AtOneOf, At, Valid
<1>10. /\ \A u \in Requests : Serving(u)'
       /\ Unserved' /\ (~overlap' => OneAtATime')
       /\ ~overlap => \A q \in Requests \ {r} : At(q, "idle") /\ At(q, "idle")'
  BY <1>8, <1>9, MovesKeeps
<1>11. Asked' /\ ProjectIntentValid'
  BY <1>2 DEF SessionInvariant, Asked, ProjectIntentValid, MayAsk
<1>12. ASSUME ~overlap', ~redisFailed', ~expired', last' # None
       PROVE  KeyIsLast'
  <2>1. KeyIsLast
    BY <1>2, <1>12 DEF SessionInvariant
  <2>2. redis = last
    BY <1>1, <1>2, <1>10, <1>12, <2>1 DEF KeyIsLast, AtOneOf, At
  <2> QED  BY <1>2, <1>6, <1>10, <1>12, <2>2 DEF KeyIsLast, AtOneOf, At
<1>13. ASSUME ~overlap', ~redisFailed', ~rowFailed'
       PROVE  StoresFollow'
  <2>1. StoresFollow
    BY <1>2, <1>3, <1>13 DEF SessionInvariant
  <2>2. (redis = None \/ Same(redis)) /\ Session(r) = last
    BY <1>1, <1>2, <1>10, <1>13, <2>1 DEF StoresFollow, AtOneOf, At
  <2>3. row' = s
    BY <1>3, <1>13
  <2>4. (redis' = None \/ Same(redis)') /\ Same(row)'
    BY <1>2, <1>4, <2>2, <2>3 DEF Same
  <2> QED  BY <1>2, <1>6, <1>10, <1>13, <2>4 DEF StoresFollow, AtOneOf, At
<1> QED  BY <1>7, <1>10, <1>11, <1>12, <1>13 DEF SessionInvariant

\* A write of the project's intent leaves the session's stores alone.
LEMMA IntentWriteKeeps ==
    ASSUME SessionInvariant, NEW r \in Requests,
           AtOneOf(r, {"set intent key", "set intent row"}),
           UNCHANGED <<redis, row, served, last, overlap, expired>>,
           Goto(r, "idle", None) \/ Goto(r, "set intent row", Session(r)),
           intentKey' \in {intentKey, Session(r).fields},
           intentRow' \in {intentRow, Session(r).fields},
           redisFailed' \in BOOLEAN, ~redisFailed' => ~redisFailed,
           rowFailed' \in BOOLEAN, ~rowFailed' => ~rowFailed
    PROVE  SessionInvariant'
<1>1. TypeOK /\ Serving(r) /\ Busy(r) /\ Session(r) \in Sessions /\ Valid(Session(r))
  BY DEF SessionInvariant, Busy, At, Serving, AtOneOf
<1>2. /\ Session(r) \in Kept(Sessions) /\ None \in Kept(Sessions)
      /\ {"idle", "set intent row"} \subseteq Places
  BY <1>1 DEF Kept, Places
<1>3. /\ request' \in [Requests -> [pc : Places, call : Calls, session : Kept(Sessions)]]
      /\ \A q \in Requests \ {r} : request'[q] = request[q]
      /\ \/ At(r, "idle")'
         \/ At(r, "set intent row")' /\ Call(r)' = Call(r) /\ Session(r)' = Session(r)
  <2>1. CASE Goto(r, "idle", None)
    BY <1>1, <1>2, <2>1, GotoDoes DEF At
  <2>2. CASE Goto(r, "set intent row", Session(r))
    BY <1>1, <1>2, <2>2, GotoDoes DEF At, Call, Session
  <2> QED  BY <2>1, <2>2
<1>4. TypeOK'
  <2>1. Session(r).fields \in SUBSET Fields
    BY <1>1 DEF Sessions
  <2>2. intentKey' \in Kept(SUBSET Fields) /\ intentRow' \in Kept(SUBSET Fields)
    BY <1>1, <2>1 DEF TypeOK, Kept
  <2> QED  BY <1>1, <1>3, <2>2 DEF TypeOK, Places
<1>5. Moves(r)
  BY <1>1, <1>3 DEF Moves
<1>6. Serving(r)'
  BY <1>1, <1>3 DEF Serving, AtOneOf, At, Valid
<1>7. /\ \A u \in Requests : Serving(u)'
      /\ Unserved' /\ (~overlap' => OneAtATime')
      /\ ~overlap => \A q \in Requests \ {r} : At(q, "idle") /\ At(q, "idle")'
  BY <1>5, <1>6, MovesKeeps
<1>8. Asked' /\ ProjectIntentValid'
  BY <1>1 DEF SessionInvariant, Asked, ProjectIntentValid, MayAsk, Valid
<1>9. ASSUME ~overlap', ~redisFailed', ~expired', last' # None
      PROVE  KeyIsLast'
  <2>1. KeyIsLast
    BY <1>9 DEF SessionInvariant
  <2>2. redis = last
    BY <1>7, <1>9, <2>1 DEF KeyIsLast, AtOneOf, At
  <2> QED  BY <1>3, <1>7, <1>9, <2>2 DEF KeyIsLast, AtOneOf, At
<1>10. ASSUME ~overlap', ~redisFailed', ~rowFailed'
       PROVE  StoresFollow'
  <2>1. StoresFollow
    BY <1>10 DEF SessionInvariant
  <2>2. (redis = None \/ Same(redis)) /\ Same(row)
    BY <1>7, <1>10, <2>1 DEF StoresFollow, AtOneOf, At
  <2>3. (redis' = None \/ Same(redis)') /\ Same(row)'
    BY <2>2 DEF Same
  <2> QED  BY <1>3, <1>7, <1>10, <2>3 DEF StoresFollow, AtOneOf, At
<1> QED  BY <1>4, <1>7, <1>8, <1>9, <1>10 DEF SessionInvariant

LEMMA SetIntentKeyKeeps ==
    ASSUME SessionInvariant, NEW r \in Requests, SetIntentKey(r)
    PROVE  SessionInvariant'
<1>1. TypeOK
  BY DEF SessionInvariant
<1>2. redisFailed' = redisFailed \/ redisFailed' = TRUE
  BY DEF SetIntentKey, OnRedis
<1>3. redisFailed' \in BOOLEAN /\ (~redisFailed' => ~redisFailed)
  BY <1>1, <1>2, FlagStays DEF TypeOK
<1>4. rowFailed' \in BOOLEAN /\ (~rowFailed' => ~rowFailed)
  BY <1>1 DEF SetIntentKey, TypeOK
<1>5. /\ AtOneOf(r, {"set intent key", "set intent row"})
      /\ UNCHANGED <<redis, row, served, last, overlap, expired>>
      /\ Goto(r, "set intent row", Session(r)) /\ intentRow' = intentRow
      /\ intentKey' \in {intentKey, Session(r).fields}
  BY DEF SetIntentKey, OnRedis, AtOneOf, At
<1> QED  BY <1>3, <1>4, <1>5, IntentWriteKeeps

LEMMA SetIntentRowKeeps ==
    ASSUME SessionInvariant, NEW r \in Requests, SetIntentRow(r)
    PROVE  SessionInvariant'
<1>1. TypeOK
  BY DEF SessionInvariant
<1>2. rowFailed' = rowFailed \/ rowFailed' = TRUE
  BY DEF SetIntentRow, OnRow
<1>3. rowFailed' \in BOOLEAN /\ (~rowFailed' => ~rowFailed)
  BY <1>1, <1>2, FlagStays DEF TypeOK
<1>4. redisFailed' \in BOOLEAN /\ (~redisFailed' => ~redisFailed)
  BY <1>1 DEF SetIntentRow, TypeOK
<1>5. /\ AtOneOf(r, {"set intent key", "set intent row"})
      /\ UNCHANGED <<redis, row, served, last, overlap, expired>>
      /\ Goto(r, "idle", None) /\ intentKey' = intentKey
      /\ intentRow' \in {intentRow, Session(r).fields}
  BY DEF SetIntentRow, OnRow, AtOneOf, At
<1> QED  BY <1>3, <1>4, <1>5, IntentWriteKeeps


LEMMA DeleteKeyKeeps ==
    ASSUME SessionInvariant, NEW r \in Requests, DeleteKey(r)
    PROVE  SessionInvariant'
<1>1. TypeOK /\ At(r, "delete key") /\ Busy(r)
  BY DEF SessionInvariant, DeleteKey, Busy, At
<1>2. /\ row' = row /\ intentKey' = intentKey /\ intentRow' = intentRow
      /\ served' = served /\ last' = last /\ overlap' = overlap
      /\ rowFailed' = rowFailed /\ expired' = expired
      /\ redis' = redis \/ redis' = None
      /\ Goto(r, "delete row", None)
  BY DEF DeleteKey, OnRedis
<1>3. /\ redisFailed' \in BOOLEAN /\ (~redisFailed' => ~redisFailed)
      /\ redisFailed' = TRUE \/ redis' = None
  <2>1. redisFailed' = redisFailed \/ redisFailed' = TRUE
    BY DEF DeleteKey, OnRedis
  <2>2. redisFailed \in BOOLEAN
    BY <1>1 DEF TypeOK
  <2>3. redisFailed' \in BOOLEAN /\ (~redisFailed' => ~redisFailed)
    BY <2>1, <2>2, FlagStays
  <2>4. redisFailed' = TRUE \/ redis' = None
    BY DEF DeleteKey, OnRedis
  <2> QED  BY <2>3, <2>4
<1>4. None \in Kept(Sessions) /\ "delete row" \in Places
  BY DEF Kept, Places
<1>5. /\ request' \in [Requests -> [pc : Places, call : Calls, session : Kept(Sessions)]]
      /\ \A q \in Requests \ {r} : request'[q] = request[q]
      /\ At(r, "delete row")'
  BY <1>1, <1>2, <1>4, GotoDoes DEF At
<1>6. TypeOK'
  <2>1. redis' \in Kept(Sessions)
    BY <1>1, <1>2, <1>4 DEF TypeOK
  <2> QED  BY <1>1, <1>2, <1>3, <1>5, <2>1 DEF TypeOK, Places
<1>7. Moves(r) /\ Serving(r)'
  BY <1>1, <1>2, <1>5 DEF Moves, Serving, AtOneOf, At
<1>8. /\ \A u \in Requests : Serving(u)'
      /\ Unserved' /\ (~overlap' => OneAtATime')
      /\ ~overlap => \A q \in Requests \ {r} : At(q, "idle") /\ At(q, "idle")'
  BY <1>7, MovesKeeps
<1>9. Asked' /\ ProjectIntentValid'
  BY <1>2 DEF SessionInvariant, Asked, ProjectIntentValid, MayAsk
<1>10. /\ \E q \in Requests : AtOneOf(q, {"set key", "delete row"})'
       /\ \E q \in Requests : AtOneOf(q, {"set key", "set row", "delete row"})'
  BY <1>5 DEF AtOneOf, At
<1>11. ASSUME ~overlap', ~redisFailed', ~expired', last' # None
       PROVE  KeyIsLast'
  BY <1>2, <1>5, <1>8, <1>10, <1>11 DEF KeyIsLast, AtOneOf, At
<1>12. ASSUME ~overlap', ~redisFailed', ~rowFailed'
       PROVE  StoresFollow'
  BY <1>2, <1>3, <1>5, <1>8, <1>10, <1>12 DEF StoresFollow, AtOneOf, At
<1> QED  BY <1>6, <1>8, <1>9, <1>11, <1>12 DEF SessionInvariant

LEMMA DeleteRowKeeps ==
    ASSUME SessionInvariant, NEW r \in Requests, DeleteRow(r)
    PROVE  SessionInvariant'
<1>1. TypeOK /\ At(r, "delete row") /\ Busy(r)
  BY DEF SessionInvariant, DeleteRow, Busy, At
<1>2. /\ redis' = redis /\ intentKey' = intentKey /\ intentRow' = intentRow
      /\ served' = served /\ last' = None /\ overlap' = overlap
      /\ redisFailed' = redisFailed /\ expired' = expired
      /\ row' = row \/ row' = None
      /\ Goto(r, "idle", None)
  BY DEF DeleteRow, OnRow
<1>3. /\ rowFailed' \in BOOLEAN /\ (~rowFailed' => ~rowFailed)
      /\ rowFailed' = TRUE \/ row' = None
  <2>1. rowFailed' = rowFailed \/ rowFailed' = TRUE
    BY DEF DeleteRow, OnRow
  <2>2. rowFailed \in BOOLEAN
    BY <1>1 DEF TypeOK
  <2>3. rowFailed' \in BOOLEAN /\ (~rowFailed' => ~rowFailed)
    BY <2>1, <2>2, FlagStays
  <2>4. rowFailed' = TRUE \/ row' = None
    BY DEF DeleteRow, OnRow
  <2> QED  BY <2>3, <2>4
<1>4. None \in Kept(Sessions) /\ "idle" \in Places
  BY DEF Kept, Places
<1>5. /\ request' \in [Requests -> [pc : Places, call : Calls, session : Kept(Sessions)]]
      /\ \A q \in Requests \ {r} : request'[q] = request[q]
      /\ At(r, "idle")'
  BY <1>1, <1>2, <1>4, GotoDoes DEF At
<1>6. TypeOK'
  <2>1. row' \in Kept(Sessions)
    BY <1>1, <1>2, <1>4 DEF TypeOK
  <2> QED  BY <1>1, <1>2, <1>3, <1>4, <1>5, <2>1 DEF TypeOK, Places
<1>7. Moves(r) /\ Serving(r)'
  BY <1>1, <1>2, <1>5 DEF Moves, Serving, AtOneOf, At
<1>8. /\ \A u \in Requests : Serving(u)'
      /\ Unserved' /\ (~overlap' => OneAtATime')
      /\ ~overlap => \A q \in Requests \ {r} : At(q, "idle") /\ At(q, "idle")'
  BY <1>7, MovesKeeps
<1>9. Asked' /\ ProjectIntentValid'
  BY <1>2 DEF SessionInvariant, Asked, ProjectIntentValid
<1>10. ASSUME ~overlap', ~redisFailed', ~rowFailed'
       PROVE  StoresFollow'
  <2>1. redis = None
    BY <1>1, <1>2, <1>3, <1>10 DEF SessionInvariant, StoresFollow
  <2>2. row' = last' /\ Same(row)'
    BY <1>2, <1>3, <1>10 DEF Same, SameButPrompt
  <2> QED  BY <1>2, <1>5, <1>8, <1>10, <2>1, <2>2 DEF StoresFollow, AtOneOf, At
<1> QED  BY <1>2, <1>6, <1>8, <1>9, <1>10 DEF SessionInvariant

\* Requests make no step.
LEMMA ServingStays ==
    ASSUME SessionInvariant, UNCHANGED <<request, served, overlap>>
    PROVE  /\ \A u \in Requests : Serving(u)'
           /\ ~overlap' => OneAtATime'
<1>1. \A u \in Requests : Serving(u)'
  BY DEF SessionInvariant, Serving, AtOneOf, Call, Session, Valid
<1>2. ~overlap' => OneAtATime'
  BY DEF SessionInvariant, OneAtATime, Busy, At
<1> QED  BY <1>1, <1>2

LEMMA ExpireKeeps ==
    ASSUME SessionInvariant, Expire
    PROVE  SessionInvariant'
<1>1. /\ UNCHANGED <<row, intentRow, request, served, last, overlap, redisFailed, rowFailed>>
      /\ redis' \in {redis, None} /\ intentKey' \in {intentKey, None}
      /\ expired' = TRUE
  BY DEF Expire
<1>2. TypeOK'
  <2>1. TypeOK
    BY DEF SessionInvariant
  <2>2. redis' \in Kept(Sessions) /\ intentKey' \in Kept(SUBSET Fields)
    BY <1>1, <2>1 DEF TypeOK, Kept
  <2>3. {overlap', redisFailed', rowFailed', expired'} \subseteq BOOLEAN
    BY <1>1, <2>1 DEF TypeOK
  <2> QED  BY <1>1, <2>1, <2>2, <2>3 DEF TypeOK
<1>3. Asked' /\ ProjectIntentValid' /\ Unserved'
  BY <1>1 DEF SessionInvariant, Asked, ProjectIntentValid, MayAsk, Unserved, At
<1>4. ASSUME ~overlap', ~redisFailed', ~rowFailed'
      PROVE  StoresFollow'
  BY <1>1, <1>4 DEF SessionInvariant, StoresFollow, AtOneOf, At, Session, Same
<1> QED  BY <1>1, <1>2, <1>3, <1>4, ServingStays DEF SessionInvariant

LEMMA LoadIntentKeeps ==
    ASSUME SessionInvariant, LoadIntent
    PROVE  SessionInvariant'
<1>1. /\ UNCHANGED <<redis, row, intentRow, request, served, last, overlap>>
      /\ UNCHANGED <<redisFailed, rowFailed, expired>> /\ intentKey' = intentRow
  BY DEF LoadIntent, faults
<1>2. TypeOK'
  BY <1>1 DEF SessionInvariant, TypeOK
<1>3. Asked' /\ ProjectIntentValid' /\ Unserved'
  BY <1>1 DEF SessionInvariant, Asked, ProjectIntentValid, MayAsk, Unserved, At
<1>4. /\ KeyIsLast' <=> KeyIsLast
      /\ StoresFollow' <=> StoresFollow
  BY <1>1 DEF KeyIsLast, StoresFollow, AtOneOf, At, Session, Same
<1> QED  BY <1>1, <1>2, <1>3, <1>4, ServingStays DEF SessionInvariant

LEMMA InitEstablishes == Init => SessionInvariant
<1> SUFFICES ASSUME Init
             PROVE  SessionInvariant
  OBVIOUS
<1> USE DEF Init
<1>1. Idle \in [pc : Places, call : Calls, session : Kept(Sessions)] /\ Idle.pc = "idle"
  BY DEF Idle, Calls, Places, Kept
<1>2. \A r \in Requests : request[r] = Idle /\ request[r].pc = "idle"
  BY <1>1
<1>3. TypeOK
  <2>1. {overlap, redisFailed, rowFailed, expired} \subseteq BOOLEAN
    OBVIOUS
  <2>2. served \in 0 .. MaxRequests
    BY SessionAssumption
  <2>3. request \in [Requests -> [pc : Places, call : Calls, session : Kept(Sessions)]]
    BY <1>1
  <2> QED  BY <2>1, <2>2, <2>3 DEF TypeOK, Kept, Places
<1>4. \A r \in Requests : Serving(r)
  BY <1>2 DEF Serving, AtOneOf
<1>5. Asked /\ Unserved /\ ProjectIntentValid /\ OneAtATime
  BY <1>2 DEF Asked, Unserved, ProjectIntentValid, OneAtATime, Busy, At
<1>6. StoresFollow
  BY <1>2 DEF StoresFollow, AtOneOf, At, Same, SameButPrompt
<1> QED  BY <1>3, <1>4, <1>5, <1>6 DEF SessionInvariant

LEMMA NextKeeps == SessionInvariant /\ [Next]_vars => SessionInvariant'
<1> SUFFICES ASSUME SessionInvariant, [Next]_vars
             PROVE  SessionInvariant'
  OBVIOUS
<1>1. CASE UNCHANGED vars
  <2> USE <1>1 DEF vars, stores, faults
  <2>1. TypeOK'
    BY DEF SessionInvariant, TypeOK
  <2>2. Asked' /\ ProjectIntentValid' /\ Unserved'
    BY DEF SessionInvariant, Asked, ProjectIntentValid, MayAsk, Unserved, At
  <2>3. /\ KeyIsLast' <=> KeyIsLast
        /\ StoresFollow' <=> StoresFollow
    BY DEF KeyIsLast, StoresFollow, AtOneOf, At, Session, Same
  <2> QED  BY <2>1, <2>2, <2>3, ServingStays DEF SessionInvariant
<1>2. ASSUME NEW r \in Requests, NEW c \in Calls, Begin(r, c)
      PROVE  SessionInvariant'
  BY <1>2, BeginKeeps
<1>3. ASSUME NEW r \in Requests,
             \/ GetKey(r) \/ GetRow(r) \/ Warm(r)
             \/ Ask(r) \/ Validate(r) \/ Raise(r)
             \/ SetKey(r) \/ SetRow(r) \/ SetIntentKey(r) \/ SetIntentRow(r)
             \/ DeleteKey(r) \/ DeleteRow(r)
      PROVE  SessionInvariant'
  BY <1>3, GetKeyKeeps, GetRowKeeps, WarmKeeps, AskAndValidateKeep, RaiseKeeps, SetKeyKeeps,
     SetRowKeeps, SetIntentKeyKeeps, SetIntentRowKeeps, DeleteKeyKeeps, DeleteRowKeeps
<1> QED  BY <1>1, <1>2, <1>3, ExpireKeeps, LoadIntentKeeps DEF Next

-----------------------------------------------------------------------------
(* The theorems.                                                            *)

\* Of every behaviour of a session the invariant holds in every state.
THEOREM SessionInvariance == Spec => []SessionInvariant
BY InitEstablishes, NextKeeps, PTL DEF Spec

\* Every variable keeps its type.
THEOREM SessionTypeCorrect == Spec => []TypeOK
<1>1. SessionInvariant => TypeOK
  BY DEF SessionInvariant
<1> QED  BY <1>1, SessionInvariance, PTL

\* An intent that save_intent or load_intent's back-fill leaves with a project has
\* every required field, whatever overlapped and whatever failed.
THEOREM IntentsAlwaysValid == Spec => []ProjectIntentValid
<1>1. SessionInvariant => ProjectIntentValid
  BY DEF SessionInvariant
<1> QED  BY <1>1, SessionInvariance, PTL

\* One request at a time and with Redis obeying, load_session finds what the latest
\* request saved (save_session), up to the prompt once the key has expired.
THEOREM LastWriteIsRead == Spec => []ReadsLastWrite
<1>1. SessionInvariant => ReadsLastWrite
  <2> SUFFICES ASSUME SessionInvariant, ~overlap, \A r \in Requests : At(r, "idle"), ~redisFailed
               PROVE  /\ ~expired /\ last # None => Found = last
                      /\ ~rowFailed => SameButPrompt(Found, last)
    BY DEF ReadsLastWrite, Quiet
  <2>1. ~expired /\ last # None => redis = last
    BY DEF SessionInvariant, KeyIsLast, AtOneOf, At
  <2>2. ~rowFailed => (redis = None \/ Same(redis)) /\ Same(row)
    BY DEF SessionInvariant, StoresFollow, AtOneOf, At
  <2> QED  BY <2>1, <2>2 DEF Found, Same
<1> QED  BY <1>1, SessionInvariance, PTL

\* One request at a time and with both stores obeying, an answer once saved is in every
\* later save (_merge_intents); and no save asks for more when no round is left or
\* nothing is missing (_decide_and_respond).
THEOREM AnswersAlwaysKept == Spec => AnswersKept
<1>1. SessionInvariant /\ [Next]_vars =>
         \/ last' = last \/ last' = None
         \/ \E r \in Requests, s \in Sessions :
               /\ At(r, "model") /\ last' = s /\ overlap' = overlap
               /\ s.status = "clarifying" => MayAsk(s)
               /\ Session(r).fields \subseteq s.fields
  <2> SUFFICES ASSUME SessionInvariant, [Next]_vars, last' # last, last' # None
               PROVE  \E r \in Requests, s \in Sessions :
                         /\ At(r, "model") /\ last' = s /\ overlap' = overlap
                         /\ s.status = "clarifying" => MayAsk(s)
                         /\ Session(r).fields \subseteq s.fields
    OBVIOUS
  <2>1. \E r \in Requests : Ask(r) \/ Validate(r)
    BY DEF Next, vars, Begin, GetKey, GetRow, Warm, Raise, SetKey, SetRow, SetIntentKey,
           SetIntentRow, DeleteKey, DeleteRow, Expire, LoadIntent
  <2>2. PICK r \in Requests, s \in Sessions :
            /\ At(r, "model") /\ Save(r, s) /\ UNCHANGED <<stores, served, overlap, faults>>
            /\ s.status = "clarifying" => MayAsk(s)
            /\ Session(r).fields \subseteq s.fields
    BY <2>1, AskSaves, ValidateSaves
  <2>3. last' = s /\ overlap' = overlap
    BY <2>2 DEF Save
  <2> QED  BY <2>2, <2>3
<1>2. SessionInvariant /\ SessionInvariant' /\ [Next]_vars =>
         /\ ~overlap' /\ ~redisFailed /\ ~rowFailed /\ last # None /\ last' # None
              => last.fields \subseteq last'.fields
         /\ last' # None /\ last'.status = "clarifying"
              => last'.round < MaxRounds /\ last'.fields # Fields
  <2> SUFFICES ASSUME SessionInvariant, SessionInvariant', [Next]_vars
               PROVE  /\ ~overlap' /\ ~redisFailed /\ ~rowFailed /\ last # None /\ last' # None
                           => last.fields \subseteq last'.fields
                      /\ last' # None /\ last'.status = "clarifying"
                           => last'.round < MaxRounds /\ last'.fields # Fields
    OBVIOUS
  <2>1. last' # None /\ last'.status = "clarifying"
           => last'.round < MaxRounds /\ last'.fields # Fields
    BY DEF SessionInvariant, Asked, MayAsk
  <2>2. ASSUME ~overlap', ~redisFailed, ~rowFailed, last # None, last' # None, last' # last
        PROVE  last.fields \subseteq last'.fields
    <3>1. PICK r \in Requests, s \in Sessions :
              /\ At(r, "model") /\ last' = s /\ overlap' = overlap
              /\ Session(r).fields \subseteq s.fields
      BY <1>1, <2>2
    <3>2. Same(Session(r))
      BY <2>2, <3>1 DEF SessionInvariant, StoresFollow
    <3>3. Session(r) \in Sessions /\ last \in Sessions
      BY <2>2, <3>1 DEF SessionInvariant, Serving, AtOneOf, At, TypeOK, Kept
    <3>4. Session(r).fields = last.fields
      BY <3>2, <3>3, SamePrompts DEF Same
    <3> QED  BY <3>1, <3>4
  <2> QED  BY <2>1, <2>2
<1> QED  BY <1>2, SessionInvariance, PTL DEF Spec, AnswersKept

===============================================================================
