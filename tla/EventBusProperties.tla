-------------------------- MODULE EventBusProperties --------------------------
(***************************************************************************)
(* What a subscriber of the event bus and a reader of its history may rely *)
(* on, with publishers that interleave, handlers that unsubscribe, and a   *)
(* Redis that fails.                                                       *)
(***************************************************************************)
EXTENDS EventBus

Before(e, f, s) == \E i, j \in DOMAIN s : i < j /\ s[i] = e /\ s[j] = f

\* A handler is called with an event once, and with events in the order they
\* were published on its channel, across unsubscribe, a new subscription and
\* failures.  Two histories break it, and no other: a project handler that
\* unsubscribed from within itself (unsubscribe swallows the cancellation of the
\* listener it runs in, and the next subscription starts a second one), and two
\* concurrent subscribe_all that share one connection.
OnceInOrder ==
    \A h \in Handlers :
        ~(IF h \in ProjectHandlers THEN survivor ELSE raced) =>
            \A i, j \in DOMAIN seen[h] :
                i < j => Before(seen[h][i], seen[h][j], published[ChannelOf(h)])

\* The sorted set keeps the newest events that were added, in whatever order
\* their publishers added and trimmed them, and beyond its limit only as many as
\* have not been trimmed.
HistoryIsNewest ==
    /\ Newest(MaxHistory, recorded) \subseteq history
    /\ Cardinality(history) <=
            MaxHistory + Cardinality({e \in Events : publishing[e] \in {"trim", "untrimmed"}})

Awaits(h, e) ==
    \E l \in Running \ cancelled :
        /\ ChannelOf(l) = ChannelOf(h) /\ Open(connOf[l])
        /\ \E i \in DOMAIN queue[connOf[l]] : queue[connOf[l]][i] = e

\* A listener may have ended that nothing restarts: Redis has failed, the bus was
\* left, or two global listeners share a connection.
Disturbed == faults > 0 \/ exited \/ raced

\* As long as no listener has failed and the bus is not left, a registered handler
\* has a listener of its channel that will run, or a caller about to create it,
\* also when it is registered while the listener of a former subscription ends.
Attended ==
    \A h \in Handlers :
        Registered(h) /\ ~Disturbed =>
            \E l \in Running \ cancelled :
                /\ ChannelOf(l) = ChannelOf(h)
                /\ phase[l] = "connecting" \/ task[ChannelOf(h)] = l

\* As long as that is so, a handler that stays registered is called with every
\* event that the connection of a listener of its channel has received.
Delivered ==
    \A h \in Handlers, e \in Events :
        Registered(h) /\ Awaits(h, e) ~>
            ~Registered(h) \/ Disturbed \/ \E i \in DOMAIN seen[h] : seen[h][i] = e
===============================================================================
