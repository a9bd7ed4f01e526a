----------------------------- MODULE EventBuses -----------------------------
(***************************************************************************)
(* InProcessEventBus and RedisEventBus (src/kernel-impl/memory/event-bus.ts *)
(* and redis/event-bus.ts): the subscriptions of one process to the events  *)
(* of one type, made with subscribe and with once.                          *)
(*                                                                          *)
(* An event is handed to the handlers one after the other in one turn of    *)
(* the event loop, each running to its first await.  In that time a handler *)
(* may subscribe, unsubscribe and publish: in the process publish hands the *)
(* event out itself, over the subscribers it filters before, so that such   *)
(* an event is handed out within the dispatch of the first; on Redis        *)
(* (external) the message comes later through the subscriber connection, in *)
(* the order of publication, and the loop is over the map as it is then.    *)
(* What a handler does after its first await is an action of its own, and   *)
(* what it throws is caught.                                                *)
(***************************************************************************)
EXTENDS Naturals, SequencesExt

CONSTANTS
    MaxSubscribers,     \* bound: subscriptions ever made
    MaxPublished,       \* bound: events ever published, numbered in their order
    MaxDrops            \* bound: how often the Redis connection is lost

ASSUME BusAssumption == MaxSubscribers \in Nat /\ MaxPublished \in Nat /\ MaxDrops \in Nat

Subscribers == 1 .. MaxSubscribers
Published == 1 .. MaxPublished

VARIABLES
    bus,            \* "memory" or "redis"
    subscription,   \* the subscriptions: kind, whether on, and once's promise
    published,      \* how many events were published
    channel,        \* redis: messages published and not come yet
    connection,     \* redis: the subscriber connection
    drops,          \* auxiliary: how often it was lost
    dispatch,       \* of each event: whether it is being handed out, whose
                    \* handler runs (0: none has yet), and to whom it still goes
    heard,          \* auxiliary: the events each handler was called with
    within,         \* auxiliary: the dispatches in which an event was handed out
    since,          \* auxiliary: how many events there were before a subscription
    missed          \* auxiliary: events that were published or on their way
                    \* without a connection

busvars == <<bus, subscription, published, channel, connection, drops, dispatch, heard, within, since, missed>>

Idle == [on |-> FALSE, by |-> 0, to |-> <<>>]

BusTypeOK ==
    /\ bus \in {"memory", "redis"}
    /\ subscription \in [Subscribers ->
          [kind : {"none", "subscribe", "once"}, on : BOOLEAN, promise : {"none", "open", "resolved", "rejected"}]]
    /\ \A s \in Subscribers :
          /\ subscription[s].on => subscription[s].kind # "none"
          /\ subscription[s].promise # "none" <=> subscription[s].kind = "once"
    /\ published \in 0 .. MaxPublished /\ missed \subseteq 1 .. published
    /\ channel \in Seq(1 .. published) /\ (bus = "memory" => channel = <<>>)
    /\ connection \in {"up", "lost", "closed"} /\ drops \in 0 .. MaxDrops
    /\ dispatch \in [Published -> [on : BOOLEAN, by : 0 .. MaxSubscribers, to : Seq(Subscribers)]]
    /\ \A e \in Published : dispatch[e].on => e <= published
    /\ within \in [Published -> SUBSET Published]
    /\ heard \in [Subscribers -> Seq(1 .. published)] /\ since \in [Subscribers -> 0 .. published]

BusInit ==
    /\ bus \in {"memory", "redis"} /\ published = 0 /\ channel = <<>> /\ connection = "up" /\ drops = 0
    /\ subscription = [s \in Subscribers |-> [kind |-> "none", on |-> FALSE, promise |-> "none"]]
    /\ dispatch = [e \in Published |-> Idle] /\ within = [e \in Published |-> {}] /\ heard = [s \in Subscribers |-> <<>>] /\ missed = {}
    /\ since = [s \in Subscribers |-> 0]

----------------------------------------------------------------------------
\* The events being handed out: in the process, each within the dispatch of the
\* one before it.
Handing == {e \in Published : dispatch[e].on}

Innermost(e) == e \in Handing /\ \A f \in Handing : f <= e

\* Nothing is being handed out: the event loop may run something else.
Calm == Handing = {}

\* The code outside the buses runs: some other task, or the handler of a subscribe.
Free == Calm \/ \E e \in Handing : /\ Innermost(e) /\ dispatch[e].by # 0
                                    /\ subscription[dispatch[e].by].kind = "subscribe"

On == {s \in Subscribers : subscription[s].on}

\* The order of the subscriptions, which the array and the Map keep.
InOrder(S) ==
    CHOOSE q \in [1 .. Cardinality(S) -> S] : \A i, j \in DOMAIN q : i < j => q[i] < q[j]

\* Event e is handed to those who are subscribed.
HandOut(e) == dispatch' = [dispatch EXCEPT ![e] = [on |-> TRUE, by |-> 0, to |-> InOrder(On)]]

\* subscribe and once; the loop on Redis comes to the new handler too.
SubscribeTo(s, kind) ==
    /\ Free /\ \A t \in Subscribers : t < s <=> subscription[t].kind # "none"
    /\ subscription' = [subscription EXCEPT ![s] =
          [kind |-> kind, on |-> TRUE, promise |-> IF kind = "once" THEN "open" ELSE "none"]]
    /\ dispatch' = [e \in Published |-> IF bus = "redis" /\ dispatch[e].on
                                         THEN [dispatch[e] EXCEPT !.to = Append(@, s)] ELSE dispatch[e]]
    /\ since' = [since EXCEPT ![s] = published]
    /\ UNCHANGED <<bus, published, channel, connection, drops, heard, within, missed>>

\* unsubscribe, from a handler too; of once only its own code does it.
UnsubscribeFrom(s) ==
    /\ Free /\ subscription[s].kind = "subscribe" /\ subscription[s].on
    /\ subscription' = [subscription EXCEPT ![s].on = FALSE]
    /\ UNCHANGED <<bus, published, channel, connection, drops, dispatch, heard, within, since, missed>>

\* publish; publishBatch does the same for one event after the other.  After
\* shutdown the closed connection throws.
PublishOn ==
    /\ Free /\ published < MaxPublished /\ connection # "closed" /\ published' = published + 1
    /\ IF bus = "memory"
       THEN /\ HandOut(published') /\ within' = [within EXCEPT ![published'] = Handing]
            /\ UNCHANGED <<channel, missed>>
       ELSE /\ UNCHANGED <<dispatch, within>>
            /\ IF connection = "up" THEN channel' = Append(channel, published') /\ UNCHANGED missed
               ELSE UNCHANGED channel /\ missed' = missed \cup {published'}
    /\ UNCHANGED <<bus, subscription, connection, drops, heard, since>>

\* The pmessage handler of the subscriber connection.
MessageComes ==
    /\ Calm /\ channel # <<>>
    /\ HandOut(Head(channel)) /\ channel' = Tail(channel)
    /\ UNCHANGED <<bus, subscription, published, connection, drops, heard, within, since, missed>>

\* Mutant: the loop on Redis is over a copy of the map.
SkipsNobody(s) == FALSE

\* On Redis the loop is over the map, which an unsubscribe has changed.
Skips(s) == bus = "redis" /\ ~subscription[s].on

\* The handler of once: clearTimeout, unsubscribe and resolve, which does
\* nothing to a promise that is settled.
CalledOnce(s) ==
    [subscription EXCEPT ![s].on = FALSE, ![s].promise = IF @ = "open" THEN "resolved" ELSE @]

\* The next handler is called, up to its first await.
HandlerCalled ==
    \E e \in Handing :
       /\ Innermost(e) /\ dispatch[e].to # <<>>
       /\ LET s == Head(dispatch[e].to)
              rest == [dispatch[e] EXCEPT !.to = Tail(@), !.by = IF Skips(s) THEN 0 ELSE s]
          IN  /\ dispatch' = [dispatch EXCEPT ![e] = rest]
              /\ IF Skips(s) THEN UNCHANGED <<subscription, heard>>
                 ELSE /\ heard' = [heard EXCEPT ![s] = Append(@, e)]
                      /\ subscription' = IF subscription[s].kind = "once" THEN CalledOnce(s) ELSE subscription
       /\ UNCHANGED <<bus, published, channel, connection, drops, within, since, missed>>

\* The last handler has returned, to the handler that published if there is one.
HandedOut ==
    \E e \in Handing :
       /\ Innermost(e) /\ dispatch[e].to = <<>>
       /\ dispatch' = [dispatch EXCEPT ![e] = Idle]
       /\ UNCHANGED <<bus, subscription, published, channel, connection, drops, heard, within, since, missed>>

\* The timer of once.
OnceTimer(s) ==
    /\ Calm /\ subscription[s].promise = "open"
    /\ subscription' = [subscription EXCEPT ![s].promise = "rejected", ![s].on = FALSE]
    /\ UNCHANGED <<bus, published, channel, connection, drops, dispatch, heard, within, since, missed>>

\* shutdown: the subscribers are dropped, timers stay; Redis, after an await,
\* disconnects.
ShutdownBus ==
    /\ (IF bus = "memory" THEN Free ELSE Calm) /\ connection = "up"
    /\ subscription' = [s \in Subscribers |-> [subscription[s] EXCEPT !.on = FALSE]]
    /\ channel' = <<>> /\ missed' = missed \cup Range(channel)
    /\ connection' = IF bus = "memory" THEN "up" ELSE "closed"
    /\ UNCHANGED <<bus, published, drops, dispatch, heard, within, since>>

\* External: the connection is lost with what was on its way; ioredis connects
\* and subscribes again.
ConnectionLost ==
    /\ bus = "redis" /\ connection = "up" /\ drops < MaxDrops /\ drops' = drops + 1
    /\ connection' = "lost" /\ channel' = <<>> /\ missed' = missed \cup Range(channel)
    /\ UNCHANGED <<bus, subscription, published, dispatch, heard, within, since>>

Reconnects ==
    /\ connection = "lost" /\ connection' = "up"
    /\ UNCHANGED <<bus, subscription, published, channel, drops, dispatch, heard, within, since, missed>>

BusNext ==
    \/ \E s \in Subscribers :
          \/ \E kind \in {"subscribe", "once"} : SubscribeTo(s, kind)
          \/ UnsubscribeFrom(s) \/ OnceTimer(s)
    \/ PublishOn \/ MessageComes \/ HandlerCalled \/ HandedOut \/ ShutdownBus \/ ConnectionLost \/ Reconnects

BusSpec == BusInit /\ [][BusNext]_busvars

\* Handlers are called and return, and timers fire.
BusFairness ==
    /\ WF_busvars(HandlerCalled) /\ WF_busvars(HandedOut)
    /\ \A s \in Subscribers : WF_busvars(OnceTimer(s))

----------------------------------------------------------------------------
\* A handler hears no event twice, and events in the order of publication, whatever
\* is lost in between; in the process an event overtakes only those in whose
\* dispatch it was published.
HeardInOrder ==
    \A s \in Subscribers : \A i, j \in 1 .. Len(heard[s]) : i < j =>
        /\ heard[s][i] # heard[s][j]
        /\ heard[s][i] < heard[s][j] \/ heard[s][j] \in within[heard[s][i]]

\* The event and the timer of once race: the promise is resolved, with the first
\* event, if and only if its handler was called in time, and the subscription is
\* gone with either.  The handler is called again only by dispatches within which
\* that first event was published.
OnceSettlesOnce ==
    \A s \in Subscribers : subscription[s].kind = "once" =>
        /\ subscription[s].promise = "resolved" <=> heard[s] # <<>>
        /\ subscription[s].promise # "open" => ~subscription[s].on
        /\ \A i \in 2 .. Len(heard[s]) : heard[s][i] \in within[heard[s][1]]

\* A handler is not called after its unsubscribe, except in the process by an
\* event that was being handed out when an earlier handler unsubscribed it.
QuietAfterUnsubscribe ==
    [][\A s \in Subscribers : heard'[s] # heard[s] /\ ~subscription[s].on => bus = "memory"]_busvars

\* What is published while a handler is subscribed reaches it, and the others as
\* well, unless it goes or the connection is lost before the event has come.
ReachesWhileOn ==
    \A s \in Subscribers : \A e \in since[s] + 1 .. published :
        subscription[s].on =>
            \/ e \in Range(heard[s]) \/ e \in Range(channel) \/ e \in missed
            \/ e \in Handing /\ s \in Range(dispatch[e].to)

\* once is settled whatever is lost and even after shutdown, by its timer.
OnceEnds == \A s \in Subscribers : []<>(subscription[s].promise # "open")

\* What a subscription hears, and what once promises.
BusDelivers ==
    /\ []HeardInOrder /\ []OnceSettlesOnce /\ []ReachesWhileOn
    /\ QuietAfterUnsubscribe
=============================================================================
