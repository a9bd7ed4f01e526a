---------------------------- MODULE MemoryQueue ----------------------------
(***************************************************************************)
(* MemoryQueueBackend (src/kernel-impl/memory/queue.ts): one named queue,   *)
(* its pull consumers (dequeue / ack / nack), its push subscriptions        *)
(* (subscribe and the poll that feeds the first active one), and the        *)
(* operator's purge and dead-letter replay.                                 *)
(*                                                                          *)
(* The async methods contain no await before their last write, so each runs *)
(* to completion on the event loop and is one action; the interleaving is   *)
(* between the steps of several deliveries.  Queues are independent entries *)
(* of a Map, so one queue is modelled.  A message is identified by its      *)
(* position of arrival: the array order, the createdAt order and the id     *)
(* order coincide (the wall clock is taken not to run backwards).           *)
(*                                                                          *)
(* Time is abstracted to what the guards tell apart: ripe[m] says that      *)
(* visibleAfter has been reached.  scheduledAt and processingDeadline are   *)
(* stored and no method reads them: they are left out.                      *)
(***************************************************************************)
EXTENDS Naturals

CONSTANTS
    MaxMsgs,        \* bound: messages ever enqueued
    MaxSubs,        \* bound: subscriptions ever made
    MaxReplays,     \* bound: dead-letter replays of one message
    Consumers,      \* pull consumers
    Priorities,     \* the PRIORITY_ORDER numbers callers use: 0 high .. 2 low
    Keys,           \* idempotency keys callers use
    NoKey,          \* enqueue without an idempotencyKey
    MaxAttempts     \* the maxAttempts values callers use

ASSUME QueueAssumption ==
    /\ MaxMsgs \in Nat /\ MaxSubs \in Nat /\ MaxReplays \in Nat
    /\ Priorities \subseteq 0 .. 2
    /\ NoKey \notin Keys
    /\ MaxAttempts \subseteq Nat

VARIABLES
    nmsgs,      \* messages enqueued so far
    state,      \* InternalMessage.state; "gone" once out of the array
    info,       \* priority, idempotencyKey and maxAttempts, fixed at enqueue
    attempts,   \* InternalMessage.attempts
    ripe,       \* visibleAfter <= now
    inflight,   \* deliveries handed to a consumer or handler and not settled
    nsubs,      \* subscriptions made so far
    active,     \* subscriptions in the array whose entry.active is true
    replays     \* auxiliary: how often the message was replayed

vars == <<nmsgs, state, info, attempts, ripe, inflight, nsubs, active, replays>>

Ids  == 1 .. MaxMsgs
Subs == 1 .. MaxSubs

States == {"absent", "pending", "processing", "completed", "dead_letter", "gone"}

\* The attributes enqueue copies into the message and nothing changes later.
Info == [prio : 0 .. 2, key : Keys \cup {NoKey}, max : Nat]

\* Who a delivery was handed to: a pull consumer, or a subscription's handler.
Holders == [kind : {"pull"}, who : Consumers] \cup [kind : {"push"}, who : Subs]

\* A delivery: the public copy of the message names its id and attempt.
Deliveries == [id : Ids, attempt : Nat, by : Holders]

TypeOK ==
    /\ nmsgs \in 0 .. MaxMsgs
    /\ state \in [Ids -> States]
    /\ info \in [Ids -> Info]
    /\ attempts \in [Ids -> Nat]
    /\ ripe \in [Ids -> BOOLEAN]
    /\ inflight \subseteq Deliveries
    /\ nsubs \in 0 .. MaxSubs
    /\ active \subseteq 1 .. nsubs
    /\ replays \in [Ids -> 0 .. MaxReplays]

Init ==
    /\ nmsgs = 0
    /\ state = [m \in Ids |-> "absent"]
    /\ info = [m \in Ids |-> [prio |-> 1, key |-> NoKey, max |-> 0]]
    /\ attempts = [m \in Ids |-> 0]
    /\ ripe = [m \in Ids |-> FALSE]
    /\ inflight = {}
    /\ nsubs = 0
    /\ active = {}
    /\ replays = [m \in Ids |-> 0]

----------------------------------------------------------------------------
\* A message that still counts for deduplication.
Live(m) == state[m] \in {"pending", "processing"}

\* Mutant: deduplicate against waiting messages only.
IsDuplicateOfPending(key) ==
    key # NoKey /\ \E m \in Ids : state[m] = "pending" /\ info[m].key = key

IsDuplicate(key) == key # NoKey /\ \E m \in Ids : Live(m) /\ info[m].key = key

\* enqueue: a key that a live message already has returns that message's id
\* and changes nothing; otherwise a pending message is pushed.
Enqueue(prio, key, max, delayed) ==
    /\ nmsgs < MaxMsgs
    /\ ~ IsDuplicate(key)
    /\ LET m == nmsgs + 1
       IN  /\ nmsgs' = m
           /\ state' = [state EXCEPT ![m] = "pending"]
           /\ info' = [info EXCEPT ![m] = [prio |-> prio, key |-> key, max |-> max]]
           /\ attempts' = [attempts EXCEPT ![m] = 0]
           /\ ripe' = [ripe EXCEPT ![m] = ~delayed]
    /\ UNCHANGED <<inflight, nsubs, active, replays>>

\* Mutant: the filter lets messages in processing through.
VisibleProcessing(m) == Live(m) /\ ripe[m]

\* What dequeue's filter lets through, and the order of its sort.
Visible(m) == state[m] = "pending" /\ ripe[m]

Before(m, n) ==
    \/ info[m].prio < info[n].prio
    \/ info[m].prio = info[n].prio /\ m < n

First(m) == Visible(m) /\ \A n \in Ids \ {m} : Visible(n) => Before(m, n)

\* dequeue, on behalf of holder h.  (processingDeadline is also set; nothing
\* in the class reads it.)
Take(m, h) ==
    /\ First(m)
    /\ state' = [state EXCEPT ![m] = "processing"]
    /\ attempts' = [attempts EXCEPT ![m] = @ + 1]
    /\ inflight' = inflight \cup {[id |-> m, attempt |-> attempts[m] + 1, by |-> h]}
    /\ UNCHANGED <<nmsgs, info, ripe, nsubs, active, replays>>

\* Mutant: ack writes a state no other method knows.
AckStateUnknown(m) ==
    state' = IF state[m] = "gone" THEN state ELSE [state EXCEPT ![m] = "done"]

\* The effect of ack on the array: no look at the message's state.
AckState(m) ==
    state' = IF state[m] = "gone" THEN state ELSE [state EXCEPT ![m] = "completed"]

\* The effect of nack on the array, delayed by redeliveryDelay.
Exhausted(m) == attempts[m] >= info[m].max

NackState(m, delayed) ==
    IF state[m] = "gone" THEN UNCHANGED <<state, ripe>>
    ELSE IF Exhausted(m)
         THEN /\ state' = [state EXCEPT ![m] = "dead_letter"]
              /\ ripe' = ripe
         ELSE /\ state' = [state EXCEPT ![m] = "pending"]
              /\ ripe' = [ripe EXCEPT ![m] = ~delayed]

----------------------------------------------------------------------------
\* A pull consumer works on one message at a time and settles it once.
Dequeue(c) ==
    /\ \A d \in inflight : d.by # [kind |-> "pull", who |-> c]
    /\ \E m \in Ids : Take(m, [kind |-> "pull", who |-> c])

Ack(d) ==
    /\ d.by.kind = "pull"
    /\ AckState(d.id)
    /\ inflight' = inflight \ {d}
    /\ UNCHANGED <<nmsgs, info, attempts, ripe, nsubs, active, replays>>

Nack(d, delayed) ==
    /\ d.by.kind = "pull"
    /\ NackState(d.id, delayed)
    /\ inflight' = inflight \ {d}
    /\ UNCHANGED <<nmsgs, info, attempts, nsubs, active, replays>>

\* The consumer stops without settling: no method runs, the message stays.
Abandon(d) ==
    /\ d.by.kind = "pull"
    /\ inflight' = inflight \ {d}
    /\ UNCHANGED <<nmsgs, state, info, attempts, ripe, nsubs, active, replays>>

\* subscribe pushes an active entry (and starts the interval that polls).
Subscribe ==
    /\ nsubs < MaxSubs
    /\ nsubs' = nsubs + 1
    /\ active' = active \cup {nsubs + 1}
    /\ UNCHANGED <<nmsgs, state, info, attempts, ripe, inflight, replays>>

Unsubscribe(s) ==
    /\ s \in active
    /\ active' = active \ {s}
    /\ UNCHANGED <<nmsgs, state, info, attempts, ripe, inflight, nsubs, replays>>

\* Mutant: the first subscription ever made, active or not.
PollFirstMade ==
    /\ 1 \in active
    /\ \E m \in Ids : Take(m, [kind |-> "push", who |-> 1])

\* processPendingForSubscribers, run by the interval and by the timer enqueue
\* sets: one message, always to the first active subscription.
Poll ==
    /\ active # {}
    /\ \E m \in Ids, s \in active :
          /\ \A t \in active : s <= t
          /\ Take(m, [kind |-> "push", who |-> s])

\* Mutant: the wrapper acks and may still run its catch branch.
HandlerResolvesOnly(d) ==
    /\ d.by.kind = "push"
    /\ AckState(d.id)
    /\ UNCHANGED <<nmsgs, info, attempts, ripe, inflight, nsubs, active, replays>>

\* The handler resolves, or throws, and the wrapper acks or nacks.
HandlerResolves(d) ==
    /\ d.by.kind = "push"
    /\ AckState(d.id)
    /\ inflight' = inflight \ {d}
    /\ UNCHANGED <<nmsgs, info, attempts, ripe, nsubs, active, replays>>

HandlerThrows(d) ==
    /\ d.by.kind = "push"
    /\ NackState(d.id, TRUE)
    /\ inflight' = inflight \ {d}
    /\ UNCHANGED <<nmsgs, info, attempts, nsubs, active, replays>>

----------------------------------------------------------------------------
\* purge drops the pending messages.
Purge ==
    /\ \E m \in Ids : state[m] = "pending"
    /\ state' = [m \in Ids |-> IF state[m] = "pending" THEN "gone" ELSE state[m]]
    /\ UNCHANGED <<nmsgs, info, attempts, ripe, inflight, nsubs, active, replays>>

\* Mutant: replay whatever message has the id.
ReplayAnyState(m) ==
    /\ state[m] \notin {"absent", "gone"}
    /\ replays[m] < MaxReplays
    /\ state' = [state EXCEPT ![m] = "pending"]
    /\ attempts' = [attempts EXCEPT ![m] = 0]
    /\ ripe' = [ripe EXCEPT ![m] = TRUE]
    /\ replays' = [replays EXCEPT ![m] = @ + 1]
    /\ UNCHANGED <<nmsgs, info, inflight, nsubs, active>>

\* replayDeadLetter, also through DeadLetterManager.replay and the DLQ route.
ReplayDeadLetter(m) ==
    /\ state[m] = "dead_letter"
    /\ replays[m] < MaxReplays
    /\ state' = [state EXCEPT ![m] = "pending"]
    /\ attempts' = [attempts EXCEPT ![m] = 0]
    /\ ripe' = [ripe EXCEPT ![m] = TRUE]
    /\ replays' = [replays EXCEPT ![m] = @ + 1]
    /\ UNCHANGED <<nmsgs, info, inflight, nsubs, active>>

\* shutdown forgets queues and subscriptions; handlers that run go on.
Shutdown ==
    /\ state' = [m \in Ids |-> IF state[m] = "absent" THEN "absent" ELSE "gone"]
    /\ active' = {}
    /\ UNCHANGED <<nmsgs, info, attempts, ripe, inflight, nsubs, replays>>

\* The clock reaches visibleAfter.
Ripen(m) ==
    /\ state[m] = "pending" /\ ~ripe[m]
    /\ ripe' = [ripe EXCEPT ![m] = TRUE]
    /\ UNCHANGED <<nmsgs, state, info, attempts, inflight, nsubs, active, replays>>

----------------------------------------------------------------------------
Next ==
    \/ \E prio \in Priorities, key \in Keys \cup {NoKey}, max \in MaxAttempts,
          delayed \in BOOLEAN :
          Enqueue(prio, key, max, delayed)
    \/ \E c \in Consumers : Dequeue(c)
    \/ \E d \in inflight :
          \/ Ack(d) \/ Abandon(d) \/ HandlerResolves(d) \/ HandlerThrows(d)
          \/ \E delayed \in BOOLEAN : Nack(d, delayed)
    \/ Subscribe
    \/ \E s \in active : Unsubscribe(s)
    \/ Poll
    \/ Purge
    \/ Shutdown
    \/ \E m \in Ids : ReplayDeadLetter(m) \/ Ripen(m)

Spec == Init /\ [][Next]_vars

\* The interval keeps firing, the clock advances, and a handler returns.
Fairness ==
    /\ WF_vars(Poll)
    /\ \A m \in Ids : WF_vars(Ripen(m))
    /\ \A m \in Ids :
          WF_vars(\E d \in inflight :
                      d.id = m /\ (HandlerResolves(d) \/ HandlerThrows(d)))

LiveSpec == Spec /\ Fairness

----------------------------------------------------------------------------
\* A message handed out and not settled is held by exactly that consumer: no
\* second consumer holds it, it is not waiting, finished or dead behind the
\* holder's back, and the holder's attempt is the current one.  ack and nack
\* check none of this: it rests on every step that leaves "processing".
SingleDelivery ==
    \A d \in inflight :
        /\ state[d.id] \in {"processing", "gone"}
        /\ attempts[d.id] = d.attempt
        /\ \A e \in inflight : e.id = d.id => e = d

\* The retry -> dead-letter chain: a message is never tried more often than
\* maxAttempts (the first try is always made), it waits only while it has a
\* try left, and it is dead only when it has none.
AtLeastOne(n) == IF n = 0 THEN 1 ELSE n

RetryBudget ==
    \A m \in Ids :
        /\ attempts[m] <= AtLeastOne(info[m].max)
        /\ state[m] = "pending" => attempts[m] < AtLeastOne(info[m].max)
        /\ state[m] = "dead_letter" => attempts[m] = AtLeastOne(info[m].max)

\* Deduplication by idempotencyKey: two live messages share a key only when
\* one of them came back from the dead-letter queue.
DuplicateOnlyByReplay ==
    \A m, n \in Ids :
        /\ m # n /\ Live(m) /\ Live(n)
        /\ info[m].key = info[n].key /\ info[m].key # NoKey
        => replays[m] > 0 \/ replays[n] > 0

\* A completed message is never delivered, retried or buried again, whatever
\* late settlement arrives; it leaves only when shutdown forgets the queue.
CompletedIsFinal ==
    [][\A m \in Ids : state[m] = "completed" => state'[m] \in {"completed", "gone"}]_vars

\* Tries end with the budget, or with a completion that stands.
RetriesEnd == []RetryBudget /\ CompletedIsFinal

\* While some subscription stays active, a waiting message does not wait for
\* ever: every message ends completed, dead or dropped, whatever its priority
\* and however often its handler throws, unless a pull consumer takes it.
Settled(m) == state[m] \in {"completed", "dead_letter", "gone"}

Pulled(m) == state[m] = "processing" /\ \A d \in inflight : d.id = m => d.by.kind = "pull"

Drains ==
    \A m \in Ids :
        <>[](active # {}) => []<>(state[m] = "absent" \/ Settled(m) \/ Pulled(m))

\* queue.ts:46: a consumer that does not ack in time is nacked by the queue.
AutoNack == \A m \in Ids : state[m] = "processing" ~> state[m] # "processing"

----------------------------------------------------------------------------
\* The queue implements its contract.  A message is held by whoever has its
\* delivery, while the queue still knows the message.
HolderOf(m) ==
    IF state[m] = "processing" THEN {d.by : d \in {e \in inflight : e.id = m}}
                               ELSE {}

Contract == INSTANCE QueueContract
    WITH stage  <- state,
         holder <- [m \in Ids |-> HolderOf(m)]

ImplementsContract == Contract!Spec
=============================================================================
