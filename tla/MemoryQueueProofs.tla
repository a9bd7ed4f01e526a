------------------------- MODULE MemoryQueueProofs -------------------------
(***************************************************************************)
(* Proofs about MemoryQueue, for every bound, every set of consumers, keys  *)
(* and priorities, and every maxAttempts (0 included).                      *)
(***************************************************************************)
EXTENDS MemoryQueue, TLAPS

(***************************************************************************)
(* The inductive invariant.  SingleDelivery needs Unused (a new message's   *)
(* id is nobody's delivery); the exact attempt count of a dead message      *)
(* needs Tried (a message in processing has been tried).                    *)
(***************************************************************************)
Unused == \A m \in Ids : m > nmsgs => state[m] = "absent"
Tried  == \A m \in Ids : state[m] = "processing" => attempts[m] >= 1

IInv ==
    /\ TypeOK
    /\ SingleDelivery
    /\ RetryBudget
    /\ DuplicateOnlyByReplay
    /\ Unused
    /\ Tried

----------------------------------------------------------------------------
\* Init establishes the invariant.
LEMMA InitIInv == Init => IInv
  <1> SUFFICES ASSUME Init PROVE IInv
    OBVIOUS
  <1> USE QueueAssumption DEF Init
  <1>1. TypeOK
    BY DEF TypeOK, Ids, States, Info, Deliveries
  <1>2. SingleDelivery /\ Unused /\ Tried
    BY DEF SingleDelivery, Unused, Tried
  <1>3. RetryBudget
    BY DEF RetryBudget, AtLeastOne
  <1>4. DuplicateOnlyByReplay
    BY DEF DuplicateOnlyByReplay, Live
  <1> QED
    BY <1>1, <1>2, <1>3, <1>4 DEF IInv

\* A step that leaves the array, the attempts and the deliveries alone, or
\* only forgets deliveries, keeps the invariant.
LEMMA QuietStep ==
  ASSUME IInv, TypeOK',
         UNCHANGED <<nmsgs, state, info, attempts, replays>>,
         inflight' \subseteq inflight
  PROVE  IInv'
  <1>1. SingleDelivery'
    BY DEF IInv, TypeOK, SingleDelivery
  <1>2. RetryBudget' /\ Unused' /\ Tried'
    BY DEF IInv, RetryBudget, Unused, Tried
  <1>3. DuplicateOnlyByReplay'
    BY DEF IInv, DuplicateOnlyByReplay, Live
  <1> QED
    BY <1>1, <1>2, <1>3 DEF IInv

LEMMA EnqueueStep ==
  ASSUME IInv,
         NEW prio \in Priorities, NEW key \in Keys \cup {NoKey},
         NEW max \in MaxAttempts, NEW delayed \in BOOLEAN,
         Enqueue(prio, key, max, delayed)
  PROVE  IInv'
  <1> DEFINE m == nmsgs + 1
  <1> USE DEF Enqueue
  <1>1. m \in Ids /\ state[m] = "absent"
    BY QueueAssumption DEF IInv, TypeOK, Ids, Unused
  <1>2. [prio |-> prio, key |-> key, max |-> max] \in Info
    BY QueueAssumption DEF Info
  <1>3. TypeOK'
    BY <1>1, <1>2, QueueAssumption DEF IInv, TypeOK, Ids, States
  <1>4. SingleDelivery'
    BY <1>1 DEF IInv, TypeOK, SingleDelivery, Deliveries
  <1>5. RetryBudget'
    BY <1>1, <1>2, QueueAssumption DEF IInv, TypeOK, RetryBudget, AtLeastOne, Info
  <1>6. DuplicateOnlyByReplay'
    BY <1>1 DEF IInv, TypeOK, DuplicateOnlyByReplay, IsDuplicate, Live, Info
  <1>7. Unused' /\ Tried'
    BY <1>1 DEF IInv, TypeOK, Ids, Unused, Tried
  <1> QED
    BY <1>3, <1>4, <1>5, <1>6, <1>7 DEF IInv

LEMMA TakeStep ==
  ASSUME IInv, NEW m \in Ids, NEW h \in Holders, Take(m, h)
  PROVE  IInv'
  <1> DEFINE d == [id |-> m, attempt |-> attempts[m] + 1, by |-> h]
  <1> USE DEF Take
  <1>1. state[m] = "pending"
    BY DEF First, Visible
  <1>2. d \in Deliveries
    BY DEF Deliveries, IInv, TypeOK
  <1>3. TypeOK'
    BY <1>2 DEF IInv, TypeOK, States
  <1>4. \A e \in inflight : e.id \in Ids /\ e.id # m
    BY <1>1 DEF IInv, TypeOK, SingleDelivery, Deliveries
  <1>5. SingleDelivery'
    <2> SUFFICES ASSUME NEW e \in inflight'
                 PROVE  /\ state'[e.id] \in {"processing", "gone"}
                        /\ attempts'[e.id] = e.attempt
                        /\ \A f \in inflight' : f.id = e.id => f = e
      BY DEF SingleDelivery
    <2>1. CASE e \in inflight
      BY <2>1, <1>4 DEF IInv, TypeOK, SingleDelivery
    <2>2. CASE e = d
      BY <2>2, <1>4 DEF IInv, TypeOK
    <2> QED
      BY <2>1, <2>2
  <1>6. RetryBudget'
    BY <1>1 DEF IInv, TypeOK, RetryBudget, AtLeastOne, Info
  <1>7. DuplicateOnlyByReplay'
    BY <1>1 DEF IInv, TypeOK, DuplicateOnlyByReplay, Live
  <1>8. Unused' /\ Tried'
    BY <1>1 DEF IInv, TypeOK, Ids, Unused, Tried
  <1> QED
    BY <1>3, <1>5, <1>6, <1>7, <1>8 DEF IInv

----------------------------------------------------------------------------
\* Settling: the message is in processing or gone, and its other deliveries
\* do not exist.
LEMMA SettleAck ==
  ASSUME IInv, NEW d \in inflight, AckState(d.id), inflight' = inflight \ {d},
         UNCHANGED <<nmsgs, info, attempts, ripe, nsubs, active, replays>>
  PROVE  IInv'
  <1> USE DEF AckState
  <1>1. d.id \in Ids /\ state[d.id] \in {"processing", "gone"}
    BY DEF IInv, TypeOK, SingleDelivery, Deliveries
  <1>2. \A e \in inflight' : e \in inflight /\ e.id # d.id /\ e.id \in Ids
    BY DEF IInv, TypeOK, SingleDelivery, Deliveries
  <1>3. TypeOK'
    BY <1>1 DEF IInv, TypeOK, States
  <1>4. SingleDelivery'
    BY <1>1, <1>2 DEF IInv, TypeOK, SingleDelivery
  <1>5. RetryBudget'
    BY <1>1 DEF IInv, TypeOK, RetryBudget
  <1>6. DuplicateOnlyByReplay'
    BY <1>1 DEF IInv, TypeOK, DuplicateOnlyByReplay, Live
  <1>7. Unused' /\ Tried'
    BY <1>1 DEF IInv, TypeOK, Unused, Tried
  <1> QED
    BY <1>3, <1>4, <1>5, <1>6, <1>7 DEF IInv

LEMMA SettleNack ==
  ASSUME IInv, NEW d \in inflight, NEW delayed \in BOOLEAN,
         NackState(d.id, delayed), inflight' = inflight \ {d},
         UNCHANGED <<nmsgs, info, attempts, nsubs, active, replays>>
  PROVE  IInv'
  <1> DEFINE m == d.id
  <1>1. m \in Ids /\ state[m] \in {"processing", "gone"}
    BY DEF IInv, TypeOK, SingleDelivery, Deliveries
  <1>2. \A e \in inflight' : e \in inflight /\ e.id # m /\ e.id \in Ids
    BY DEF IInv, TypeOK, SingleDelivery, Deliveries
  <1>3. CASE state[m] = "gone"
    <2>1. UNCHANGED <<state, ripe>>
      BY <1>3 DEF NackState
    <2>2. TypeOK'
      BY <2>1 DEF IInv, TypeOK
    <2> QED
      BY <2>1, <2>2, QuietStep
  <1>4. CASE state[m] = "processing"
    <2>1. /\ state' = [state EXCEPT ![m] = IF Exhausted(m) THEN "dead_letter"
                                                          ELSE "pending"]
          /\ ripe' = ripe \/ ripe' = [ripe EXCEPT ![m] = ~delayed]
      BY <1>4 DEF NackState
    <2>2. TypeOK'
      BY <1>1, <2>1 DEF IInv, TypeOK, States
    <2>3. SingleDelivery'
      BY <1>1, <1>2, <2>1 DEF IInv, TypeOK, SingleDelivery
    <2>4. RetryBudget'
      <3> SUFFICES ASSUME NEW n \in Ids
                   PROVE  /\ attempts[n] <= AtLeastOne(info[n].max)
                          /\ state'[n] = "pending" =>
                                attempts[n] < AtLeastOne(info[n].max)
                          /\ state'[n] = "dead_letter" =>
                                attempts[n] = AtLeastOne(info[n].max)
        BY DEF RetryBudget
      <3>1. CASE n # m
        BY <3>1, <1>1, <2>1 DEF IInv, TypeOK, RetryBudget
      <3>2. CASE n = m
        <4>1. /\ attempts[m] \in Nat /\ attempts[m] >= 1 /\ info[m].max \in Nat
              /\ attempts[m] <= AtLeastOne(info[m].max)
          BY <1>1, <1>4 DEF IInv, TypeOK, Tried, RetryBudget, Info
        <4>2. state'[m] = IF Exhausted(m) THEN "dead_letter" ELSE "pending"
          BY <1>1, <2>1 DEF IInv, TypeOK
        <4> QED
          BY <3>2, <4>1, <4>2 DEF Exhausted, AtLeastOne
      <3> QED
        BY <3>1, <3>2
    <2>5. DuplicateOnlyByReplay'
      BY <1>1, <1>4, <2>1 DEF IInv, TypeOK, DuplicateOnlyByReplay, Live
    <2>6. Unused' /\ Tried'
      BY <1>1, <1>4, <2>1 DEF IInv, TypeOK, Unused, Tried
    <2> QED
      BY <2>2, <2>3, <2>4, <2>5, <2>6 DEF IInv
  <1> QED
    BY <1>1, <1>3, <1>4

----------------------------------------------------------------------------
\* The operator's actions.
LEMMA PurgeStep == ASSUME IInv, Purge PROVE IInv'
  <1> USE DEF Purge
  <1>1. TypeOK'
    BY DEF IInv, TypeOK, States
  <1>2. SingleDelivery'
    BY DEF IInv, TypeOK, SingleDelivery, Deliveries
  <1>3. RetryBudget' /\ Tried'
    BY DEF IInv, TypeOK, RetryBudget, Tried
  <1>4. DuplicateOnlyByReplay'
    BY DEF IInv, TypeOK, DuplicateOnlyByReplay, Live
  <1>5. Unused'
    BY DEF IInv, TypeOK, Unused
  <1> QED
    BY <1>1, <1>2, <1>3, <1>4, <1>5 DEF IInv

LEMMA ReplayStep ==
  ASSUME IInv, NEW m \in Ids, ReplayDeadLetter(m) PROVE IInv'
  <1> USE DEF ReplayDeadLetter
  <1>1. TypeOK'
    BY QueueAssumption DEF IInv, TypeOK, States
  <1>2. \A d \in inflight : d.id \in Ids /\ d.id # m
    BY DEF IInv, TypeOK, SingleDelivery, Deliveries
  <1>3. SingleDelivery'
    BY <1>2 DEF IInv, TypeOK, SingleDelivery
  <1>4. RetryBudget' /\ Tried'
    BY DEF IInv, TypeOK, RetryBudget, AtLeastOne, Info, Tried
  <1>5. replays'[m] > 0
    BY QueueAssumption DEF IInv, TypeOK
  <1>6. DuplicateOnlyByReplay'
    BY <1>5 DEF IInv, TypeOK, DuplicateOnlyByReplay, Live
  <1>7. Unused'
    BY DEF IInv, TypeOK, Unused
  <1> QED
    BY <1>1, <1>3, <1>4, <1>6, <1>7 DEF IInv

LEMMA ShutdownStep == ASSUME IInv, Shutdown PROVE IInv'
  <1> USE DEF Shutdown
  <1>1. TypeOK'
    BY DEF IInv, TypeOK, States
  <1>2. SingleDelivery'
    BY DEF IInv, TypeOK, SingleDelivery, Deliveries
  <1>3. RetryBudget' /\ Tried'
    BY DEF IInv, TypeOK, RetryBudget, Tried
  <1>4. DuplicateOnlyByReplay' /\ Unused'
    BY DEF IInv, TypeOK, DuplicateOnlyByReplay, Live, Unused
  <1> QED
    BY <1>1, <1>2, <1>3, <1>4 DEF IInv

----------------------------------------------------------------------------
\* Every step keeps the invariant.
LEMMA NextIInv == IInv /\ [Next]_vars => IInv'
  <1> SUFFICES ASSUME IInv, [Next]_vars PROVE IInv'
    OBVIOUS
  <1>1. ASSUME NEW prio \in Priorities, NEW key \in Keys \cup {NoKey},
               NEW max \in MaxAttempts, NEW delayed \in BOOLEAN,
               Enqueue(prio, key, max, delayed)
        PROVE  IInv'
    BY <1>1, EnqueueStep
  <1>2. ASSUME NEW c \in Consumers, Dequeue(c) PROVE IInv'
    <2>1. [kind |-> "pull", who |-> c] \in Holders
      BY DEF Holders
    <2> QED
      BY <1>2, <2>1, TakeStep DEF Dequeue
  <1>3. ASSUME NEW d \in inflight, Ack(d) \/ HandlerResolves(d) PROVE IInv'
    BY <1>3, SettleAck DEF Ack, HandlerResolves
  <1>4. ASSUME NEW d \in inflight, NEW delayed \in BOOLEAN, Nack(d, delayed)
        PROVE  IInv'
    BY <1>4, SettleNack DEF Nack
  <1>5. ASSUME NEW d \in inflight, HandlerThrows(d) PROVE IInv'
    BY <1>5, SettleNack DEF HandlerThrows
  <1>6. ASSUME NEW d \in inflight, Abandon(d) PROVE IInv'
    <2>1. TypeOK'
      BY <1>6 DEF Abandon, IInv, TypeOK
    <2> QED
      BY <1>6, <2>1, QuietStep DEF Abandon
  <1>7. CASE Subscribe
    <2>1. TypeOK'
      BY <1>7, QueueAssumption DEF Subscribe, IInv, TypeOK
    <2> QED
      BY <1>7, <2>1, QuietStep DEF Subscribe
  <1>8. ASSUME NEW s \in active, Unsubscribe(s) PROVE IInv'
    <2>1. TypeOK'
      BY <1>8 DEF Unsubscribe, IInv, TypeOK
    <2> QED
      BY <1>8, <2>1, QuietStep DEF Unsubscribe
  <1>9. CASE Poll
    <2>1. PICK m \in Ids, s \in active : Take(m, [kind |-> "push", who |-> s])
      BY <1>9 DEF Poll
    <2>2. [kind |-> "push", who |-> s] \in Holders
      BY QueueAssumption DEF Holders, IInv, TypeOK, Subs
    <2> QED
      BY <2>1, <2>2, TakeStep
  <1>10. CASE Purge
    BY <1>10, PurgeStep
  <1>11. CASE Shutdown
    BY <1>11, ShutdownStep
  <1>12. ASSUME NEW m \in Ids, ReplayDeadLetter(m) PROVE IInv'
    BY <1>12, ReplayStep
  <1>13. ASSUME NEW m \in Ids, Ripen(m) PROVE IInv'
    <2>1. TypeOK'
      BY <1>13 DEF Ripen, IInv, TypeOK
    <2> QED
      BY <1>13, <2>1, QuietStep DEF Ripen
  <1>14. CASE UNCHANGED vars
    <2>1. TypeOK'
      BY <1>14 DEF vars, IInv, TypeOK
    <2> QED
      BY <1>14, <2>1, QuietStep DEF vars
  <1> QED
    BY <1>1, <1>2, <1>3, <1>4, <1>5, <1>6, <1>7, <1>8, <1>9, <1>10, <1>11,
       <1>12, <1>13, <1>14 DEF Next

----------------------------------------------------------------------------
\* The invariant holds of every reachable state.
THEOREM Invariance == Spec => []IInv
  BY InitIInv, NextIInv, PTL DEF Spec

\* Every variable of the queue keeps its type.
THEOREM TypeCorrect == Spec => []TypeOK
  <1>1. IInv => TypeOK
    BY DEF IInv
  <1> QED
    BY <1>1, Invariance, PTL

\* No message is in the hands of two consumers, and none is settled behind
\* its holder's back (ack and nack check neither).
THEOREM SingleDeliveryHolds == Spec => []SingleDelivery
  <1>1. IInv => SingleDelivery
    BY DEF IInv
  <1> QED
    BY <1>1, Invariance, PTL

\* The retry -> dead-letter chain spends exactly the tries it was given.
THEOREM RetryBudgetHolds == Spec => []RetryBudget
  <1>1. IInv => RetryBudget
    BY DEF IInv
  <1> QED
    BY <1>1, Invariance, PTL

\* A duplicate idempotency key can only come from a dead-letter replay.
THEOREM DeduplicationHolds == Spec => []DuplicateOnlyByReplay
  <1>1. IInv => DuplicateOnlyByReplay
    BY DEF IInv
  <1> QED
    BY <1>1, Invariance, PTL

----------------------------------------------------------------------------
\* No step takes a message out of "completed" except shutdown.
LEMMA CompletedStep ==
  IInv /\ [Next]_vars =>
    [\A m \in Ids : state[m] = "completed" => state'[m] \in {"completed", "gone"}]_vars
  <1> SUFFICES ASSUME IInv, Next, NEW m \in Ids, state[m] = "completed"
               PROVE  state'[m] \in {"completed", "gone"}
    OBVIOUS
  <1>0. state \in [Ids -> States]
    BY DEF IInv, TypeOK
  <1>1. ASSUME NEW n \in Ids, NEW h, Take(n, h)
        PROVE  state'[m] = "completed"
    BY <1>0, <1>1 DEF Take, First, Visible
  <1>2. ASSUME NEW d \in inflight, AckState(d.id)
        PROVE  state'[m] = "completed"
    BY <1>0, <1>2 DEF AckState
  <1>3. ASSUME NEW d \in inflight, NEW delayed \in BOOLEAN, NackState(d.id, delayed)
        PROVE  state'[m] = "completed"
    <2>1. d.id # m
      BY DEF IInv, SingleDelivery
    <2> QED
      BY <1>0, <1>3, <2>1 DEF NackState
  <1>4. ASSUME NEW prio, NEW key, NEW max, NEW delayed,
               Enqueue(prio, key, max, delayed)
        PROVE  state'[m] = "completed"
    <2>1. m # nmsgs + 1
      BY DEF IInv, TypeOK, Unused, Ids
    <2> QED
      BY <1>0, <1>4, <2>1 DEF Enqueue
  <1>5. CASE Purge
    BY <1>5 DEF Purge
  <1>6. CASE Shutdown
    BY <1>6 DEF Shutdown
  <1>7. ASSUME NEW n \in Ids, ReplayDeadLetter(n) \/ Ripen(n)
        PROVE  state'[m] = "completed"
    BY <1>0, <1>7 DEF ReplayDeadLetter, Ripen
  <1>8. ASSUME NEW d \in inflight, Abandon(d) PROVE state'[m] = "completed"
    BY <1>8 DEF Abandon
  <1>9. ASSUME Subscribe \/ \E s \in active : Unsubscribe(s)
        PROVE  state'[m] = "completed"
    BY <1>9 DEF Subscribe, Unsubscribe
  <1> QED
    BY <1>1, <1>2, <1>3, <1>4, <1>5, <1>6, <1>7, <1>8, <1>9
       DEF Next, Dequeue, Poll, Ack, Nack, HandlerResolves, HandlerThrows

\* A completed message is never delivered, retried or buried again.
THEOREM CompletedIsFinalHolds == Spec => CompletedIsFinal
  <1>1. [][Next]_vars /\ []IInv =>
          [][\A m \in Ids : state[m] = "completed" =>
                            state'[m] \in {"completed", "gone"}]_vars
    BY CompletedStep, PTL
  <1> QED
    BY <1>1, Invariance, PTL DEF Spec, CompletedIsFinal

(***************************************************************************)
(* The queue implements QueueContract: each step, seen through HolderOf, is *)
(* a contract step or leaves the contract's state alone.                    *)
(***************************************************************************)
holderF == [m \in Ids |-> HolderOf(m)]

\* When only message m changes, the mapped holder changes at m only.
LEMMA OneMessage ==
  ASSUME NEW m \in Ids,
         \A n \in Ids \ {m} : state'[n] = state[n],
         \A n \in Ids \ {m} : {d \in inflight' : d.id = n} = {d \in inflight : d.id = n}
  PROVE  holderF' = [holderF EXCEPT ![m] = HolderOf(m)']
  <1>1. \A n \in Ids \ {m} : HolderOf(n)' = HolderOf(n)
    BY DEF HolderOf
  <1> QED
    BY <1>1 DEF holderF

LEMMA TakeRefines ==
  ASSUME IInv, NEW m \in Ids, NEW h \in Holders, Take(m, h)
  PROVE  Contract!Deliver(m, h)
  <1> DEFINE d == [id |-> m, attempt |-> attempts[m] + 1, by |-> h]
  <1>1. /\ state[m] = "pending" /\ state \in [Ids -> States]
        /\ state' = [state EXCEPT ![m] = "processing"]
        /\ inflight' = inflight \cup {d}
    BY DEF Take, First, Visible, IInv, TypeOK
  <1>2. \A e \in inflight : e.id # m
    BY <1>1 DEF IInv, SingleDelivery
  <1>3. HolderOf(m)' = {h}
    <2>1. d.id = m /\ d.by = h
      OBVIOUS
    <2> HIDE DEF d
    <2>2. {e \in inflight' : e.id = m} = {d}
      BY <1>1, <1>2, <2>1
    <2>3. HolderOf(m)' = {e.by : e \in {d}}
      BY <1>1, <2>2 DEF HolderOf
    <2> QED
      BY <2>1, <2>3
  <1>4. \A n \in Ids \ {m} : {e \in inflight' : e.id = n} = {e \in inflight : e.id = n}
    BY <1>1
  <1> QED
    BY <1>1, <1>3, <1>4, OneMessage DEF Contract!Deliver, Contract!Move, holderF

\* Settling d moves its message out of "processing" to the stage the code
\* chose; when the queue has already forgotten the message, nothing changes.
LEMMA SettleRefines ==
  ASSUME IInv, NEW d \in inflight, inflight' = inflight \ {d},
         NEW st \in {"completed", "pending", "dead_letter", "processing"},
         state' = IF state[d.id] = "gone" THEN state ELSE [state EXCEPT ![d.id] = st]
  PROVE  Contract!Settle(d.id, st) \/ UNCHANGED <<state, holderF>>
  <1> DEFINE m == d.id
  <1>1. /\ m \in Ids /\ state[m] \in {"processing", "gone"}
        /\ state \in [Ids -> States]
        /\ \A e \in inflight' : e \in inflight /\ e.id # m
    BY DEF IInv, TypeOK, SingleDelivery, Deliveries
  <1>2. \A n \in Ids \ {m} : {e \in inflight' : e.id = n} = {e \in inflight : e.id = n}
    BY <1>1
  <1>3. holderF' = [holderF EXCEPT ![m] = HolderOf(m)']
    <2>1. \A n \in Ids \ {m} : state'[n] = state[n]
      BY <1>1
    <2> QED
      BY <1>1, <1>2, <2>1, OneMessage
  <1>4. CASE state[m] = "gone"
    <2>1. HolderOf(m)' = HolderOf(m) /\ state' = state
      BY <1>4 DEF HolderOf
    <2> QED
      BY <1>1, <1>3, <2>1 DEF holderF
  <1>5. CASE state[m] = "processing"
    <2>1. HolderOf(m) # {}
      BY <1>5 DEF HolderOf
    <2>2. HolderOf(m)' = {}
      <3>1. {e \in inflight' : e.id = m} = {}
        BY <1>1
      <3> QED
        BY <3>1 DEF HolderOf
    <2> QED
      BY <1>1, <1>3, <1>5, <2>1, <2>2 DEF Contract!Settle, Contract!Move, holderF
  <1> QED
    BY <1>1, <1>4, <1>5

LEMMA DropRefines ==
  ASSUME IInv, Purge \/ Shutdown
  PROVE  Contract!Drop
  <1> DEFINE S == {m \in Ids : state'[m] = "gone"}
  <1>1. /\ inflight' = inflight
        /\ \A m \in Ids : m \in S \/ state'[m] = state[m]
        /\ \A m \in S : state[m] # "absent"
        /\ state' = [m \in Ids |-> IF m \in S THEN "gone" ELSE state[m]]
    BY DEF Purge, Shutdown, IInv, TypeOK
  <1>2. \A m \in Ids : HolderOf(m)' = IF m \in S THEN {} ELSE HolderOf(m)
    BY <1>1 DEF HolderOf
  <1>3. S \in SUBSET Ids
    OBVIOUS
  <1> HIDE DEF S
  <1>4. holderF' = [m \in Ids |-> IF m \in S THEN {} ELSE holderF[m]]
    BY <1>2 DEF holderF
  <1> QED
    BY <1>1, <1>3, <1>4 DEF Contract!Drop, holderF

LEMMA StepRefines == IInv /\ [Next]_vars => [Contract!Next]_<<state, holderF>>
  <1> SUFFICES ASSUME IInv, [Next]_vars
               PROVE  Contract!Next \/ UNCHANGED <<state, holderF>>
    OBVIOUS
  <1>1. ASSUME NEW prio \in Priorities, NEW key \in Keys \cup {NoKey},
               NEW max \in MaxAttempts, NEW delayed \in BOOLEAN,
               Enqueue(prio, key, max, delayed)
        PROVE  Contract!Next
    <2>0. nmsgs + 1 \in Ids /\ nmsgs + 1 > nmsgs
      BY <1>1, QueueAssumption DEF Enqueue, IInv, TypeOK, Ids
    <2>1. PICK m \in Ids :
             /\ state[m] = "absent" /\ state \in [Ids -> States]
             /\ state' = [state EXCEPT ![m] = "pending"]
             /\ inflight' = inflight
      BY <1>1, <2>0 DEF Enqueue, IInv, TypeOK, Unused
    <2>2. HolderOf(m)' = {}
      BY <2>1 DEF HolderOf
    <2>3. holderF' = [holderF EXCEPT ![m] = {}]
      BY <2>1, <2>2, OneMessage
    <2> QED
      BY <2>1, <2>3 DEF Contract!Next, Contract!Send, Contract!Move, holderF
  <1>2. ASSUME NEW m \in Ids, NEW h \in Holders, Take(m, h) PROVE Contract!Next
    BY <1>2, TakeRefines DEF Contract!Next
  <1>3. ASSUME NEW c \in Consumers, Dequeue(c) PROVE Contract!Next
    <2>1. [kind |-> "pull", who |-> c] \in Holders
      BY DEF Holders
    <2> QED
      BY <1>2, <1>3, <2>1 DEF Dequeue
  <1>4. CASE Poll
    <2>1. PICK m \in Ids, s \in active : Take(m, [kind |-> "push", who |-> s])
      BY <1>4 DEF Poll
    <2>2. [kind |-> "push", who |-> s] \in Holders
      BY QueueAssumption DEF Holders, IInv, TypeOK, Subs
    <2> QED
      BY <1>2, <2>1, <2>2
  <1>5. ASSUME NEW d \in inflight, NEW delayed \in BOOLEAN,
               \/ Ack(d) \/ HandlerResolves(d)
               \/ Nack(d, delayed) \/ HandlerThrows(d) \/ Abandon(d)
        PROVE  Contract!Next \/ UNCHANGED <<state, holderF>>
    <2>1. d.id \in Ids /\ state \in [Ids -> States]
          /\ state[d.id] \in {"processing", "gone"}
      BY DEF IInv, TypeOK, Deliveries, SingleDelivery
    <2>2. inflight' = inflight \ {d}
      BY <1>5 DEF Ack, HandlerResolves, Nack, HandlerThrows, Abandon
    <2>3. PICK st \in {"completed", "pending", "dead_letter", "processing"} :
             state' = IF state[d.id] = "gone" THEN state ELSE [state EXCEPT ![d.id] = st]
      <3>1. CASE Ack(d) \/ HandlerResolves(d)
        BY <3>1 DEF Ack, HandlerResolves, AckState
      <3>2. CASE Nack(d, delayed) \/ HandlerThrows(d)
        BY <3>2 DEF Nack, HandlerThrows, NackState
      <3>3. CASE Abandon(d)
        BY <2>1, <3>3 DEF Abandon
      <3> QED
        BY <1>5, <3>1, <3>2, <3>3
    <2> QED
      BY <2>1, <2>2, <2>3, SettleRefines DEF Contract!Next, Contract!Forsake
  <1>6. CASE Purge \/ Shutdown
    BY <1>6, DropRefines DEF Contract!Next
  <1>7. ASSUME NEW m \in Ids, ReplayDeadLetter(m) PROVE Contract!Next
    <2>1. /\ state[m] = "dead_letter" /\ inflight' = inflight
          /\ state' = [state EXCEPT ![m] = "pending"] /\ state \in [Ids -> States]
      BY <1>7 DEF ReplayDeadLetter, IInv, TypeOK
    <2>2. HolderOf(m)' = {}
      BY <2>1 DEF HolderOf
    <2>3. holderF' = [holderF EXCEPT ![m] = {}]
      BY <2>1, <2>2, OneMessage
    <2> QED
      BY <2>1, <2>3 DEF Contract!Next, Contract!Revive, Contract!Move, holderF
  <1>8. ASSUME UNCHANGED <<state, inflight>> PROVE UNCHANGED <<state, holderF>>
    BY <1>8 DEF holderF, HolderOf
  <1>9. ASSUME \/ Subscribe \/ (\E s \in active : Unsubscribe(s))
               \/ (\E m \in Ids : Ripen(m)) \/ UNCHANGED vars
        PROVE  UNCHANGED <<state, inflight>>
    BY <1>9 DEF Subscribe, Unsubscribe, Ripen, vars
  <1> QED
    BY <1>1, <1>3, <1>4, <1>5, <1>6, <1>7, <1>8, <1>9 DEF Next

\* The in-memory queue keeps the promise of QueueBackend: one holder at a
\* time, and only the holder decides how a delivery ends.
THEOREM Refinement == Spec => ImplementsContract
  <1>1. Init => Contract!Init
    BY DEF Init, Contract!Init, HolderOf
  <1>2. IInv /\ [Next]_vars => [Contract!Next]_(Contract!cvars)
    BY StepRefines DEF Contract!cvars, holderF
  <1> QED
    BY <1>1, <1>2, Invariance, PTL DEF Spec, ImplementsContract, Contract!Spec

\* Retries are bounded and a completion stands, for all bounds and parameters.
THEOREM RetriesEndHolds == Spec => RetriesEnd
  BY RetryBudgetHolds, CompletedIsFinalHolds, PTL DEF RetriesEnd
=============================================================================
