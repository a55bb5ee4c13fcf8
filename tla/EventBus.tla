-------------------------------- MODULE EventBus --------------------------------
(***************************************************************************)
(* EventBus (event_bus.py): one process that publishes the events of one   *)
(* project and handles them, over Redis pub/sub and a sorted set.  An      *)
(* event goes to the project's channel, then to the global channel, then   *)
(* to the history.  A channel is read by a listener task that calls the    *)
(* handlers registered on it one after the other.                          *)
(*                                                                         *)
(* Redis is external: PUBLISH appends to the queue of every connection     *)
(* subscribed at that moment, and a connection or a command may fail.      *)
(* A connection is named by the listener it was opened for.                *)
(***************************************************************************)
EXTENDS Naturals, Sequences, FiniteSets

CONSTANTS
    Events,             \* the timestamps of the events, which are distinct
    ProjectHandlers, GlobalHandlers,
    ProjectListeners, GlobalListeners,  \* bound: the listener tasks ever created
    Uses,               \* bound: the channels one run of the process subscribes to,
                        \* how many events it publishes at the same time, and
                        \* whether its history is cleared
    MaxHistory,         \* _MAX_HISTORY_ENTRIES
    MaxFaults,          \* bound: the failures of Redis
    None

ASSUME BusAssumption ==
    /\ Events \subseteq Nat /\ IsFiniteSet(Events)
    /\ MaxHistory \in Nat \ {0} /\ MaxFaults \in Nat
    /\ (ProjectHandlers \cup ProjectListeners) \cap (GlobalHandlers \cup GlobalListeners) = {}
    /\ None \notin ProjectListeners \cup GlobalListeners \cup Seq(Events)

Channels  == {"project", "global"}
Handlers  == ProjectHandlers \cup GlobalHandlers
Listeners == ProjectListeners \cup GlobalListeners

ChannelOf(x) ==
    IF x \in ProjectHandlers \cup ProjectListeners THEN "project" ELSE "global"

ASSUME UsesAssumption == Uses \subseteq [channels : SUBSET Channels, publishers : Nat, clears : BOOLEAN]

VARIABLES
    inUse,          \* what this run does
    publishing,     \* how far publish has got with each event
    published,      \* the events in the order of each channel
    history,        \* the sorted set of the project
    recorded,       \* the events that were added to it since it was cleared
    handlers,       \* the handlers registered on each channel, in order
    task,           \* the listener task the bus holds for each channel, or None
    phase,          \* where each listener is
    connOf,         \* the connection each listener reads
    globalPubsub,   \* self._global_pubsub
    queue,          \* what each connection has received; None if it is not open
    event, todo,    \* what each listener dispatches, and the handlers left to call
    cancelled,      \* the listeners with a cancellation that is not yet thrown
    seen,           \* the events each handler was called with, in order
    exited,         \* the bus was left (__aexit__)
    survivor,       \* a listener has outlived its cancellation
    raced,          \* two calls of subscribe_all have started a listener each
    faults

publisherVars == <<publishing, published, history, recorded>>
listenerVars == <<phase, connOf, queue, event, todo, cancelled, seen>>
busVars == <<inUse, publisherVars, listenerVars, handlers, task, globalPubsub, exited, survivor, raced, faults>>

BusInit ==
    /\ inUse \in Uses
    /\ publishing = [e \in Events |-> "no"]
    /\ published = [c \in Channels |-> <<>>]
    /\ history = {} /\ recorded = {}
    /\ handlers = [c \in Channels |-> <<>>]
    /\ task = [c \in Channels |-> None]
    /\ phase = [l \in Listeners |-> "unused"]
    /\ connOf = [l \in Listeners |-> l]
    /\ globalPubsub = None
    /\ queue = [l \in Listeners |-> None]
    /\ event = [l \in Listeners |-> None] /\ todo = [l \in Listeners |-> <<>>]
    /\ cancelled = {}
    /\ seen = [h \in Handlers |-> <<>>]
    /\ exited = FALSE /\ survivor = FALSE /\ raced = FALSE /\ faults = 0

Open(l) == queue[l] # None
Running == {l \in Listeners : phase[l] \notin {"unused", "done"}}
Newest(n, S) == {e \in S : Cardinality({f \in S : f > e}) < n}

-----------------------------------------------------------------------------
(* publish, clear_history.  Publishers of several events interleave.        *)

Broadcast(e, channel, from, to) ==
    /\ publishing[e] = from
    /\ publishing' = [publishing EXCEPT ![e] = to]
    /\ published' = [published EXCEPT ![channel] = Append(@, e)]
    /\ queue' = [l \in Listeners |->
                   IF Open(l) /\ ChannelOf(l) = channel THEN Append(queue[l], e) ELSE queue[l]]
    /\ UNCHANGED <<history, recorded, phase, connOf, event, todo, cancelled, seen,
                   handlers, task, globalPubsub, survivor, raced, faults, inUse, exited>>

Publishers == {e \in Events : publishing[e] \in {"global", "history", "trim"}}

PublishProject(e) ==
    Cardinality(Publishers) < inUse.publishers /\ Broadcast(e, "project", "no", "global")
PublishGlobal(e)  == Broadcast(e, "global", "global", "history")

\* ZADD, scored by the timestamp of the event.
AddToHistory(e) ==
    /\ publishing[e] = "history"
    /\ publishing' = [publishing EXCEPT ![e] = "trim"]
    /\ history' = history \cup {e} /\ recorded' = recorded \cup {e}
    /\ UNCHANGED <<published, listenerVars, handlers, task, globalPubsub,
                   survivor, raced, faults, inUse, exited>>

\* Mutant: the rank of the last entry to remove is off by one.
TrimTooMuch(e) ==
    /\ publishing[e] = "trim"
    /\ publishing' = [publishing EXCEPT ![e] = "yes"]
    /\ history' = Newest(MaxHistory - 1, history)
    /\ UNCHANGED <<published, recorded, listenerVars, handlers, task, globalPubsub,
                   survivor, raced, faults, inUse, exited>>

\* ZREMRANGEBYRANK 0 -(max + 1).
Trim(e) ==
    /\ publishing[e] = "trim"
    /\ publishing' = [publishing EXCEPT ![e] = "yes"]
    /\ history' = Newest(MaxHistory, history)
    /\ UNCHANGED <<published, recorded, listenerVars, handlers, task, globalPubsub,
                   survivor, raced, faults, inUse, exited>>

\* A command of publish fails and publish raises; what it has done stays done.
PublishRaises(e) ==
    /\ publishing[e] \in {"no", "global", "history", "trim"} /\ faults < MaxFaults
    /\ publishing' = [publishing EXCEPT ![e] = IF @ = "trim" THEN "untrimmed" ELSE "raised"]
    /\ faults' = faults + 1
    /\ UNCHANGED <<published, history, recorded, listenerVars, handlers, task, globalPubsub,
                   survivor, raced, inUse, exited>>

\* clear_history, and the key that expires when nothing was written for a week.
ClearHistory ==
    /\ inUse.clears /\ recorded # {}
    /\ history' = {} /\ recorded' = {}
    /\ UNCHANGED <<publishing, published, listenerVars, handlers, task, globalPubsub,
                   survivor, raced, faults, inUse, exited>>

-----------------------------------------------------------------------------
(* subscribe, subscribe_all, unsubscribe, __aexit__                         *)

Registered(h) == \E i \in DOMAIN handlers[ChannelOf(h)] : handlers[ChannelOf(h)][i] = h

NeedsListener(channel) == task[channel] \notin Running

\* One of the tasks not yet created, if any is left.
Fresh(S) ==
    LET unused == {l \in S : phase[l] = "unused"}
    IN  {l \in unused : l = CHOOSE m \in unused : TRUE}

Register(h) ==
    /\ ChannelOf(h) \in inUse.channels /\ ~Registered(h)
    /\ handlers' = [handlers EXCEPT ![ChannelOf(h)] = Append(@, h)]

\* The task is created at once and connects when it first runs.
Subscribe(h) ==
    /\ h \in ProjectHandlers /\ Register(h)
    /\ \/ /\ NeedsListener("project")
          /\ \E l \in Fresh(ProjectListeners) :
                /\ phase' = [phase EXCEPT ![l] = "starting"]
                /\ task' = [task EXCEPT !["project"] = l]
       \/ ~NeedsListener("project") /\ UNCHANGED <<phase, task>>
    /\ UNCHANGED <<publisherVars, connOf, queue, event, todo, cancelled, seen, globalPubsub,
                   survivor, raced, faults, inUse, exited>>

\* The connection is made first, by the caller, who awaits it.
SubscribeAll(h) ==
    /\ h \in GlobalHandlers /\ Register(h)
    /\ \/ /\ NeedsListener("global")
          /\ \E l \in Fresh(GlobalListeners) :
                /\ phase' = [phase EXCEPT ![l] = "connecting"]
                /\ globalPubsub' = l
       \/ ~NeedsListener("global") /\ UNCHANGED <<phase, globalPubsub>>
    /\ UNCHANGED <<publisherVars, connOf, queue, event, todo, cancelled, seen, task,
                   survivor, raced, faults, inUse, exited>>

\* subscribe_all goes on: it creates the task, whatever has become of the bus.
CreateGlobalTask(l) ==
    /\ phase[l] = "connecting"
    /\ queue' = [queue EXCEPT ![l] = <<>>]
    /\ task' = [task EXCEPT !["global"] = l]
    /\ phase' = [phase EXCEPT ![l] = "starting"]
    /\ raced' = (raced \/ \E m \in GlobalListeners \ {l} : m \in Running)
    /\ UNCHANGED <<publisherVars, connOf, event, todo, cancelled, seen, handlers, globalPubsub,
                   survivor, faults, inUse, exited>>

\* Mutant: the task stays in the table when its handlers are removed.
UnsubscribeKeepsTask ==
    /\ handlers["project"] # <<>> /\ task["project"] # None
    /\ handlers' = [handlers EXCEPT !["project"] = <<>>]
    /\ cancelled' = cancelled \cup ({task["project"]} \cap Running)
    /\ UNCHANGED <<publisherVars, phase, connOf, queue, event, todo, seen, task, globalPubsub,
                   survivor, raced, faults, inUse, exited>>

\* Mutant: the task is forgotten and not cancelled.
UnsubscribeLeavesTask ==
    /\ handlers["project"] # <<>> /\ task["project"] # None
    /\ handlers' = [handlers EXCEPT !["project"] = <<>>]
    /\ task' = [task EXCEPT !["project"] = None]
    /\ UNCHANGED <<publisherVars, listenerVars, globalPubsub, survivor, raced, faults, inUse, exited>>

\* unsubscribe, not from a handler.  It waits two seconds at most, so that it
\* may return before the listener has ended.
Unsubscribe ==
    /\ handlers["project"] # <<>> /\ task["project"] # None
    /\ handlers' = [handlers EXCEPT !["project"] = <<>>]
    /\ task' = [task EXCEPT !["project"] = None]
    /\ cancelled' = cancelled \cup ({task["project"]} \cap Running)
    /\ UNCHANGED <<publisherVars, phase, connOf, queue, event, todo, seen, globalPubsub,
                   survivor, raced, faults, inUse, exited>>

\* unsubscribe from a handler that listener l runs: the listener cancels itself,
\* the cancellation is thrown in unsubscribe, which swallows it, and the listener
\* goes on with nothing that holds it.
UnsubscribeInHandler(l) ==
    /\ phase[l] = "in handler" /\ l \notin cancelled /\ task["project"] = l
    /\ handlers' = [handlers EXCEPT !["project"] = <<>>]
    /\ task' = [task EXCEPT !["project"] = None]
    /\ survivor' = TRUE
    /\ UNCHANGED <<publisherVars, listenerVars, globalPubsub, raced, faults, inUse, exited>>

\* __aexit__ cancels the tasks and waits for none of them.
Exit ==
    /\ ~exited /\ exited' = TRUE
    /\ cancelled' = cancelled \cup ({task[c] : c \in Channels} \cap Running)
    /\ UNCHANGED <<publisherVars, phase, connOf, queue, event, todo, seen, handlers, task,
                   globalPubsub, survivor, raced, faults, inUse>>

-----------------------------------------------------------------------------
(* _listen, _listen_global, _dispatch_to_handlers                           *)

\* The task runs for the first time.  The project's opens its own connection;
\* the global one reads whichever connection was made last.
StartListening(l) ==
    /\ phase[l] = "starting" /\ l \notin cancelled
    /\ phase' = [phase EXCEPT ![l] = "listening"]
    /\ \/ l \in ProjectListeners /\ queue' = [queue EXCEPT ![l] = <<>>] /\ UNCHANGED connOf
       \/ /\ l \in GlobalListeners /\ connOf' = [connOf EXCEPT ![l] = globalPubsub]
          /\ UNCHANGED queue
    /\ UNCHANGED <<publisherVars, event, todo, cancelled, seen, handlers, task, globalPubsub,
                   survivor, raced, faults, inUse, exited>>

\* The first of the handlers is called, or the next message awaited.  Nothing is
\* awaited between two handlers: only a handler gives way to other tasks.
CallNext(l, e, rest) ==
    /\ phase' = [phase EXCEPT ![l] = IF rest = <<>> THEN "listening" ELSE "in handler"]
    /\ event' = [event EXCEPT ![l] = e]
    /\ todo' = [todo EXCEPT ![l] = IF rest = <<>> THEN rest ELSE Tail(rest)]
    /\ seen' = IF rest = <<>> THEN seen ELSE [seen EXCEPT ![Head(rest)] = Append(@, e)]

\* Mutant: only the handler registered first is called.
ReceiveFirstHandler(l) ==
    /\ phase[l] = "listening" /\ l \notin cancelled
    /\ Open(connOf[l]) /\ queue[connOf[l]] # <<>>
    /\ queue' = [queue EXCEPT ![connOf[l]] = Tail(@)]
    /\ CallNext(l, Head(queue[connOf[l]]),
                SelectSeq(handlers[ChannelOf(l)], LAMBDA h : h = handlers[ChannelOf(l)][1]))
    /\ UNCHANGED <<publisherVars, connOf, cancelled, handlers, task, globalPubsub,
                   survivor, raced, faults, inUse, exited>>

\* A message is read, for the handlers of this moment.
Receive(l) ==
    /\ phase[l] = "listening" /\ l \notin cancelled
    /\ Open(connOf[l]) /\ queue[connOf[l]] # <<>>
    /\ queue' = [queue EXCEPT ![connOf[l]] = Tail(@)]
    /\ CallNext(l, Head(queue[connOf[l]]), handlers[ChannelOf(l)])
    /\ UNCHANGED <<publisherVars, connOf, cancelled, handlers, task, globalPubsub,
                   survivor, raced, faults, inUse, exited>>

\* The handler returns or raises, which is logged.
HandlerReturns(l) ==
    /\ phase[l] = "in handler" /\ l \notin cancelled
    /\ CallNext(l, event[l], todo[l])
    /\ UNCHANGED <<publisherVars, connOf, queue, cancelled, handlers, task, globalPubsub,
                   survivor, raced, faults, inUse, exited>>

\* The listener ends and closes what self._global_pubsub is now, or its own
\* connection.  A task that never ran, or did not get to its try, closes nothing.
Closes(l) == IF l \in GlobalListeners THEN globalPubsub ELSE l

EndListener(l) ==
    /\ phase' = [phase EXCEPT ![l] = "done"]
    /\ queue' = IF phase[l] \in {"connecting", "starting"} THEN queue
                ELSE [queue EXCEPT ![Closes(l)] = None]
    /\ cancelled' = cancelled \ {l}
    /\ UNCHANGED <<publisherVars, connOf, event, todo, seen, handlers, task, globalPubsub,
                   survivor, raced, inUse, exited>>

\* The cancellation is thrown where the task awaits, in a handler too; or the
\* connection it shares has been closed, or is being read by the other listener.
Stops(l) ==
    /\ \/ l \in cancelled
       \/ phase[l] = "listening" /\ ~Open(connOf[l])
       \/ /\ phase[l] = "listening"
          /\ \E m \in Listeners \ {l} : phase[m] = "listening" /\ connOf[m] = connOf[l]
    /\ EndListener(l) /\ UNCHANGED faults

\* The connection fails: in subscribe_all, which raises, or in the listener.
ConnectionFails(l) ==
    /\ phase[l] \in {"connecting", "listening"} \cup (IF l \in ProjectListeners THEN {"starting"} ELSE {})
    /\ faults < MaxFaults /\ faults' = faults + 1
    /\ EndListener(l)

-----------------------------------------------------------------------------

Publish == \E e \in Events :
    PublishProject(e) \/ PublishGlobal(e) \/ AddToHistory(e) \/ Trim(e) \/ PublishRaises(e)

ListenerStep(l) ==
    CreateGlobalTask(l) \/ StartListening(l) \/ Receive(l) \/ HandlerReturns(l)

BusNext ==
    \/ Publish \/ ClearHistory
    \/ \E h \in Handlers : Subscribe(h) \/ SubscribeAll(h)
    \/ Unsubscribe \/ Exit
    \/ \E l \in Listeners :
          ListenerStep(l) \/ UnsubscribeInHandler(l) \/ Stops(l) \/ ConnectionFails(l)

\* The event loop runs every task that can go on; a handler is taken to return.
BusSpec == BusInit /\ [][BusNext]_busVars /\ \A l \in Listeners : WF_busVars(ListenerStep(l))
===============================================================================
