----------------------------- MODULE LocksProofs -----------------------------
(***************************************************************************)
(* Proofs about LeaderElection and MemoryLock, the Redis and the in-memory  *)
(* lock, for any candidates, clients, tokens and bounds.                    *)
(*                                                                          *)
(* LeaderHoldsLock is not inductive: it needs that tokens are never shared  *)
(* by two candidates (Separate), that a running candidate leads exactly     *)
(* while it has a lock (Flagged), and that, while renewals are on time, an  *)
(* acquisition on its way back to a running candidate is still in Redis     *)
(* (Timely).                                                                *)
(*                                                                          *)
(* In memory a leader without a timer is one whose resign is under way      *)
(* (Renews), a handle is what an election leads and holds the lock by       *)
(* (ByHandle), and a resign finds its election, unless it came early,       *)
(* without one or takes it back (Resigning).                                *)
(***************************************************************************)
EXTENDS MCLocks, TLAPS

Knows(c) == {currentLock[c]} \cup {task[c][i].token : i \in AllSlots}

Separate == \A c, d \in Candidates : c # d => Knows(c) \cap Knows(d) \subseteq {Free}

\* Before election and after its end an object has no flag, lock or task.
Quiet ==
    \A c \in Candidates : status[c] \in {"idle", "stopped"}
        => c \notin leaders /\ currentLock[c] = Free /\ \A i \in AllSlots : task[c][i] = None

\* Only resign releases, and it uses task 0.
ReleaseSlot ==
    \A c \in Candidates :
        /\ task[c][0].kind = "release" => status[c] = "resigned"
        /\ \A i \in Slots(c) : task[c][i].kind # "release"

Flagged ==
    \A c \in Candidates : status[c] = "running" /\ c \in leaders => currentLock[c] # Free

Won(c, i) == task[c][i].kind = "acquire" /\ task[c][i].at = "ok"

\* An acquisition on its way back carries a token.
Tokened == \A c \in Candidates, i \in AllSlots : Won(c, i) => task[c][i].token # Free

Timely ==
    ~late => \A c \in Candidates : status[c] = "running"
        => /\ currentLock[c] # Free => key = currentLock[c]
           /\ \A i \in Slots(c) : Won(c, i) => key = task[c][i].token

IInv == TypeOK /\ Separate /\ Quiet /\ ReleaseSlot /\ Flagged /\ Tokened /\ Timely

\* 0 is a slot of nobody's interval.
LEMMA SlotFacts ==
  /\ 0 \in AllSlots
  /\ \A c \in Candidates : Slots(c) \subseteq AllSlots /\ 0 \notin Slots(c) /\ 1 \in Slots(c)
  BY ElectionAssumption DEF AllSlots, Slots

\* What Put does to the tasks.
LEMMA PutEffect ==
  ASSUME TypeOK, NEW c \in Candidates, NEW i \in AllSlots, NEW t \in Task, Put(c, i, t)
  PROVE  /\ task' \in [Candidates -> [AllSlots -> Task]]
         /\ task'[c][i] = t
         /\ \A d \in Candidates, j \in AllSlots : d # c \/ j # i => task'[d][j] = task[d][j]
  BY DEF Put, TypeOK

\* The constant tasks.
LEMMA TaskFacts ==
  /\ None \in Task
  /\ Sent("acquire", Free) \in Task
  /\ \A t \in Tokens : /\ Sent("extend", t) \in Task
                       /\ Sent("release", t) \in Task
                       /\ [kind |-> "acquire", at |-> "ok", token |-> t] \in Task
  BY DEF None, Sent, Task, TaskKinds, MaybeToken

LEMMA InitInv == Init => IInv
  <1> SUFFICES ASSUME Init PROVE IInv  OBVIOUS
  <1> USE DEF Init
  <1>1. TypeOK
    BY TaskFacts DEF TypeOK, MaybeToken, Statuses
  <1>2. Separate
    BY DEF Separate, Knows, None
  <1>3. Quiet /\ Flagged
    BY DEF Quiet, Flagged
  <1>4. ReleaseSlot /\ Tokened
    BY SlotFacts DEF ReleaseSlot, Tokened, Won, None
  <1>5. Timely
    BY DEF Timely
  <1> QED  BY <1>1, <1>2, <1>3, <1>4, <1>5 DEF IInv

----------------------------------------------------------------------------
\* Tokens stay apart when nobody learns one that another candidate may know.
LEMMA SeparateKept ==
  ASSUME Separate, \A d \in Candidates : Knows(d)' \subseteq Knows(d) \cup {Free}
  PROVE  Separate'
  BY DEF Separate

\* A step of one task teaches its candidate nothing new.
LEMMA KnowsAfterPut ==
  ASSUME TypeOK, NEW c \in Candidates, NEW i \in AllSlots, NEW t \in Task, Put(c, i, t),
         t.token \in Knows(c) \cup {Free},
         \A d \in Candidates : currentLock'[d] \in Knows(d) \cup {Free}
  PROVE  \A d \in Candidates : Knows(d)' \subseteq Knows(d) \cup {Free}
  <1> SUFFICES ASSUME NEW d \in Candidates, NEW x \in Knows(d)'
               PROVE  x \in Knows(d) \cup {Free}
    OBVIOUS
  <1>1. CASE x = currentLock'[d]
    BY <1>1
  <1>2. ASSUME NEW j \in AllSlots, x = task'[d][j].token
        PROVE  x \in Knows(d) \cup {Free}
    <2>1. CASE d = c /\ j = i
      BY <1>2, <2>1, PutEffect
    <2>2. CASE d # c \/ j # i
      BY <1>2, <2>2, PutEffect DEF Knows
    <2> QED  BY <2>1, <2>2
  <1> QED  BY <1>1, <1>2 DEF Knows

\* After a task is put that carries no won lock, every won lock was there before.
LEMMA WonAfterPut ==
  ASSUME TypeOK, NEW c \in Candidates, NEW i \in AllSlots, NEW t \in Task, Put(c, i, t),
         ~(t.kind = "acquire" /\ t.at = "ok")
  PROVE  \A d \in Candidates, j \in AllSlots :
            Won(d, j)' => Won(d, j) /\ task'[d][j] = task[d][j]
  BY PutEffect DEF Won

\* Releases stay in task 0 of candidates that resigned.
LEMMA ReleaseSlotKept ==
  ASSUME TypeOK, ReleaseSlot, NEW c \in Candidates, NEW i \in AllSlots, NEW t \in Task,
         Put(c, i, t),
         t.kind = "release" => i = 0 /\ status'[c] = "resigned",
         \A d \in Candidates : status[d] = "resigned" => status'[d] = "resigned"
  PROVE  ReleaseSlot'
  <1>1. \A d \in Candidates : task'[d][0].kind = "release" => status'[d] = "resigned"
    BY PutEffect, SlotFacts DEF ReleaseSlot
  <1>2. \A d \in Candidates : \A j \in Slots(d) : task'[d][j].kind # "release"
    <2> SUFFICES ASSUME NEW d \in Candidates, NEW j \in Slots(d)
                 PROVE  task'[d][j].kind # "release"
      OBVIOUS
    <2> j \in AllSlots /\ j # 0
      BY SlotFacts
    <2> QED  BY PutEffect DEF ReleaseSlot
  <1> QED  BY <1>1, <1>2 DEF ReleaseSlot, Slots

\* A candidate with a task is between election and its end.
LEMMA Active ==
  ASSUME TypeOK, Quiet, NEW c \in Candidates, NEW i \in AllSlots, task[c][i] # None
  PROVE  status[c] \in {"running", "resigned"}
  BY DEF TypeOK, Quiet, Statuses

\* Quiet candidates are left alone by a task of an active one.
LEMMA QuietKept ==
  ASSUME TypeOK, Quiet, NEW c \in Candidates, NEW i \in AllSlots, NEW t \in Task, Put(c, i, t),
         status'[c] \in {"running", "resigned"},
         \A d \in Candidates : d # c =>
            /\ status'[d] = status[d]
            /\ currentLock'[d] = currentLock[d]
            /\ d \in leaders' <=> d \in leaders
  PROVE  Quiet'
  <1> SUFFICES ASSUME NEW d \in Candidates, status'[d] \in {"idle", "stopped"}
               PROVE  /\ d \notin leaders' /\ currentLock'[d] = Free
                      /\ \A j \in AllSlots : task'[d][j] = None
    BY DEF Quiet, None
  <1>1. d # c
    OBVIOUS
  <1> QED  BY <1>1, PutEffect DEF Quiet

----------------------------------------------------------------------------
\* The candidate keeps its lock and its flag, or gives both up.
KeepsOrDrops(c) ==
    \/ leaders' = leaders /\ currentLock' = currentLock
    \/ leaders' = leaders \ {c} /\ currentLock' = [currentLock EXCEPT ![c] = Free]

\* A step that sends, refuses or ends a request of a candidate, the key unchanged.
LEMMA RequestStep ==
  ASSUME IInv, NEW c \in Candidates, NEW i \in AllSlots, NEW t \in Task, Put(c, i, t),
         status[c] \in {"running", "resigned"}, KeepsOrDrops(c),
         t.token \in Knows(c) \cup {Free}, t.kind # "release",
         ~(t.kind = "acquire" /\ t.at = "ok"),
         UNCHANGED <<key, status, late>>
  PROVE  IInv'
  <1> USE DEF IInv
  <1>1. TypeOK'
    BY PutEffect DEF TypeOK, KeepsOrDrops, MaybeToken
  <1>2. \A d \in Candidates : currentLock'[d] \in {currentLock[d], Free}
    BY DEF TypeOK, KeepsOrDrops
  <1>3. Separate'
    BY <1>2, KnowsAfterPut, SeparateKept DEF Knows
  <1>4. Quiet'
    BY QuietKept DEF KeepsOrDrops, TypeOK
  <1>5. ReleaseSlot'
    BY ReleaseSlotKept
  <1>6. Flagged'
    BY DEF Flagged, KeepsOrDrops, TypeOK
  <1>7. Tokened'
    BY WonAfterPut DEF Tokened
  <1>8. Timely'
    <2> SUFFICES ASSUME ~late, NEW d \in Candidates, status[d] = "running"
                 PROVE  /\ currentLock'[d] # Free => key = currentLock'[d]
                        /\ \A j \in Slots(d) : Won(d, j)' => key = task'[d][j].token
      BY DEF Timely, Won, Slots
    <2>1. currentLock'[d] # Free => key = currentLock'[d]
      BY <1>2 DEF Timely
    <2>2. \A j \in Slots(d) : Won(d, j)' => key = task'[d][j].token
      BY WonAfterPut, SlotFacts DEF Timely
    <2> QED  BY <2>1, <2>2
  <1> QED  BY <1>1, <1>3, <1>4, <1>5, <1>6, <1>7, <1>8

LEMMA TickStep ==
  ASSUME IInv, NEW c \in Candidates, NEW i \in Slots(c), Tick(c, i)
  PROVE  IInv'
  <1> USE DEF Tick, IInv
  <1>1. i \in AllSlots /\ currentLock[c] \in MaybeToken
    BY SlotFacts DEF TypeOK
  <1>2. CASE currentLock[c] # Free
    <2>1. Sent("extend", currentLock[c]) \in Task
      BY <1>1, <1>2, TaskFacts DEF MaybeToken
    <2> QED  BY <1>1, <1>2, <2>1, RequestStep DEF KeepsOrDrops, Knows, Sent
  <1>3. CASE currentLock[c] = Free
    BY <1>1, <1>3, TaskFacts, RequestStep DEF KeepsOrDrops, Sent
  <1> QED  BY <1>2, <1>3

LEMMA RefusedStep ==
  ASSUME IInv, NEW c \in Candidates, NEW i \in Slots(c), Refused(c, i) \/ Extended(c, i)
  PROVE  IInv'
  <1>1. i \in AllSlots /\ task[c][i] # None
    BY SlotFacts DEF Refused, Extended, Sent, None
  <1>2. status[c] \in {"running", "resigned"}
    BY <1>1, Active DEF IInv
  <1> QED  BY <1>1, <1>2, TaskFacts, RequestStep
           DEF Refused, Extended, KeepsOrDrops, None

LEMMA ExtendFailedStep ==
  ASSUME IInv, NEW c \in Candidates, NEW i \in Slots(c), ExtendFailed(c, i)
  PROVE  IInv'
  <1> DEFINE t == [task[c][i] EXCEPT !.at = "no"]
  <1>1. i \in AllSlots /\ task[c][i] # None /\ task[c][i] \in Task
    BY SlotFacts DEF ExtendFailed, None, IInv, TypeOK
  <1>2. status[c] \in {"running", "resigned"}
    BY <1>1, Active DEF IInv
  <1>3. t \in Task /\ t.kind = "extend" /\ t.token = task[c][i].token
    BY <1>1 DEF Task, ExtendFailed
  <1>4. t.token \in Knows(c)
    BY <1>1, <1>3 DEF Knows
  <1>5. Put(c, i, t) /\ KeepsOrDrops(c) /\ UNCHANGED <<key, status, late>>
    BY DEF ExtendFailed, Answer, KeepsOrDrops
  <1> HIDE DEF t
  <1> QED  BY <1>1, <1>2, <1>3, <1>4, <1>5, RequestStep

LEMMA DeposeStep ==
  ASSUME IInv, NEW c \in Candidates, NEW i \in Slots(c), Depose(c, i)
  PROVE  IInv'
  <1>1. i \in AllSlots /\ task[c][i] # None
    BY SlotFacts DEF Depose, None
  <1>2. status[c] \in {"running", "resigned"}
    BY <1>1, Active DEF IInv
  <1> QED  BY <1>1, <1>2, TaskFacts, RequestStep DEF Depose, KeepsOrDrops, Sent

LEMMA ResignDoneStep ==
  ASSUME IInv, NEW c \in Candidates, ResignDone(c)
  PROVE  IInv'
  <1>1. 0 \in AllSlots /\ task[c][0] # None
    BY SlotFacts DEF ResignDone, None
  <1>2. status[c] \in {"running", "resigned"}
    BY <1>1, Active DEF IInv
  <1> QED  BY <1>1, <1>2, TaskFacts, RequestStep DEF ResignDone, KeepsOrDrops, None

----------------------------------------------------------------------------
\* A fresh token is nobody's, and no running candidate has one when it is given.
LEMMA AcquiredStep ==
  ASSUME IInv, NEW c \in Candidates, NEW i \in Slots(c), Acquired(c, i)
  PROVE  IInv'
  <1> USE DEF IInv
  <1>1. PICK u \in Tokens :
           /\ u \notin InUse /\ key' = u
           /\ Put(c, i, [kind |-> "acquire", at |-> "ok", token |-> u])
    <2> DEFINE u == CHOOSE t \in Tokens : t \notin InUse
    <2>1. u \in Tokens /\ u \notin InUse
      BY DEF Acquired
    <2> QED  BY <2>1 DEF Acquired
  <1> DEFINE t == [kind |-> "acquire", at |-> "ok", token |-> u]
  <1>2. i \in AllSlots /\ i # 0 /\ task[c][i] # None
    BY SlotFacts DEF Acquired, Sent, None
  <1>3. status[c] \in {"running", "resigned"}
    BY <1>2, Active
  <1>4. t \in Task /\ t.kind = "acquire" /\ t.token = u /\ Put(c, i, t)
    BY <1>1, TaskFacts
  <1>5. UNCHANGED <<status, leaders, currentLock, late>> /\ key = Free
    BY DEF Acquired
  <1>6. \A d \in Candidates : u \notin Knows(d)
    BY <1>1 DEF InUse, Knows
  <1> HIDE DEF t
  <1>7. \A d \in Candidates, j \in AllSlots :
            task'[d][j] = task[d][j] \/ (d = c /\ j = i /\ task'[d][j] = t)
    BY <1>2, <1>4, PutEffect
  <1>8. TypeOK'
    BY <1>1, <1>2, <1>4, <1>5, PutEffect DEF TypeOK, MaybeToken
  <1>9. Separate'
    <2>1. \A d \in Candidates : Knows(d)' \subseteq Knows(d) \cup (IF d = c THEN {u} ELSE {})
      BY <1>4, <1>5, <1>7 DEF Knows
    <2> QED  BY <1>6, <2>1 DEF Separate
  <1>10. Quiet'
    BY <1>2, <1>3, <1>4, <1>5, QuietKept
  <1>11. ReleaseSlot'
    BY <1>2, <1>4, <1>5, ReleaseSlotKept
  <1>12. Flagged'
    BY <1>5 DEF Flagged
  <1>13. u # Free
    BY ElectionAssumption
  <1>14. Tokened'
    BY <1>4, <1>7, <1>13 DEF Tokened, Won
  <1>15. Timely'
    <2> SUFFICES ASSUME ~late, NEW d \in Candidates, status[d] = "running"
                 PROVE  /\ currentLock[d] = Free
                        /\ \A j \in Slots(d) : Won(d, j)' => key' = task'[d][j].token
      BY <1>5 DEF Timely, Won, Slots
    <2>1. currentLock[d] = Free
      BY <1>5 DEF Timely
    <2>2. ASSUME NEW j \in Slots(d), Won(d, j)'
          PROVE  key' = task'[d][j].token
      <3> j \in AllSlots
        BY SlotFacts
      <3>1. ~Won(d, j)
        BY <1>5 DEF Timely, Tokened
      <3> QED  BY <1>1, <1>4, <1>7, <2>2, <3>1 DEF Won
    <2> QED  BY <2>1, <2>2
  <1> QED  BY <1>8, <1>9, <1>10, <1>11, <1>12, <1>14, <1>15

\* A released token was known to the resigned candidate only.
LEMMA ReleasedStep ==
  ASSUME IInv, NEW c \in Candidates, Released(c)
  PROVE  IInv'
  <1> USE DEF IInv
  <1>1. PICK answer \in {"ok", "no"} : Put(c, 0, [task[c][0] EXCEPT !.at = answer])
    BY DEF Released, Answer
  <1> DEFINE t == [task[c][0] EXCEPT !.at = answer]
  <1>2. 0 \in AllSlots /\ task[c][0] # None /\ task[c][0] \in Task
    BY SlotFacts DEF Released, None, TypeOK
  <1>3. t \in Task /\ t.kind = "release" /\ t.token = task[c][0].token /\ Put(c, 0, t)
    BY <1>1, <1>2 DEF Task, Released
  <1>4. status[c] = "resigned" /\ t.token \in Knows(c)
    BY <1>2, <1>3 DEF ReleaseSlot, Released, Knows
  <1>5. UNCHANGED <<status, leaders, currentLock, late>>
    BY DEF Released
  <1>6. key' = key \/ (key' = Free /\ key \in Knows(c))
    BY <1>3, <1>4 DEF Released
  <1> HIDE DEF t
  <1>7. TypeOK'
    BY <1>2, <1>3, <1>5, <1>6, PutEffect DEF TypeOK, MaybeToken
  <1>8. Separate'
    <2>1. \A d \in Candidates : currentLock'[d] \in Knows(d) \cup {Free}
      BY <1>5 DEF Knows
    <2> QED  BY <1>2, <1>3, <1>4, <2>1, KnowsAfterPut, SeparateKept
  <1>9. Quiet'
    BY <1>2, <1>3, <1>4, <1>5, QuietKept
  <1>10. ReleaseSlot'
    BY <1>2, <1>3, <1>4, <1>5, ReleaseSlotKept
  <1>11. Flagged'
    BY <1>5 DEF Flagged
  <1>12. Tokened'
    BY <1>2, <1>3, WonAfterPut DEF Tokened
  <1>13. Timely'
    <2> SUFFICES ASSUME ~late, NEW d \in Candidates, status[d] = "running"
                 PROVE  /\ currentLock[d] # Free => key' = currentLock[d]
                        /\ \A j \in Slots(d) : Won(d, j)' => key' = task'[d][j].token
      BY <1>5 DEF Timely, Won, Slots
    <2>1. d # c
      BY <1>4
    <2>2. key \in Knows(d) /\ key # Free => key' = key
      BY <1>6, <2>1 DEF Separate
    <2>3. currentLock[d] # Free => key' = currentLock[d]
      BY <2>2 DEF Timely, Knows
    <2>4. ASSUME NEW j \in Slots(d), Won(d, j)'
          PROVE  key' = task'[d][j].token
      <3> j \in AllSlots
        BY SlotFacts
      <3>1. Won(d, j) /\ task'[d][j] = task[d][j]
        BY <1>2, <1>3, <2>4, WonAfterPut
      <3>2. key = task[d][j].token /\ key # Free /\ key \in Knows(d)
        BY <3>1 DEF Timely, Tokened, Knows
      <3> QED  BY <2>2, <3>1, <3>2
    <2> QED  BY <2>3, <2>4
  <1> QED  BY <1>7, <1>8, <1>9, <1>10, <1>11, <1>12, <1>13

\* A key whose owner renews it on time does not run out.
LEMMA ExpireStep ==
  ASSUME IInv, Expire
  PROVE  IInv'
  <1> USE DEF IInv
  <1>1. UNCHANGED <<status, leaders, currentLock, task>> /\ key # Free /\ key' = Free
    BY DEF Expire
  <1>2. TypeOK'
    BY <1>1 DEF TypeOK, MaybeToken, Expire
  <1>3. Separate' /\ ReleaseSlot' /\ Flagged' /\ Tokened'
    <2>1. Separate'
      BY <1>1 DEF Separate, Knows
    <2>2. ReleaseSlot'
      BY <1>1 DEF ReleaseSlot, Slots
    <2>3. Flagged' /\ Tokened'
      BY <1>1 DEF Flagged, Tokened, Won
    <2> QED  BY <2>1, <2>2, <2>3
  <1>5. Quiet'
    BY <1>1 DEF Quiet, None
  <1>4. Timely'
    <2> SUFFICES ASSUME ~late', NEW d \in Candidates, status[d] = "running"
                 PROVE  currentLock[d] = Free /\ \A j \in Slots(d) : ~Won(d, j)
      BY <1>1 DEF Timely, Won, Slots
    <2>1. ~late /\ ~Renewing(d)
      BY DEF Expire
    <2>2. currentLock[d] = Free
      BY <2>1 DEF Renewing, Timely
    <2>3. ASSUME NEW j \in Slots(d), Won(d, j)  PROVE FALSE
      <3>1. task[d][j] \in Task
        BY SlotFacts DEF TypeOK
      <3>2. key = task[d][j].token
        BY <2>1, <2>3 DEF Timely
      <3>3. task[d][j] = [kind |-> "acquire", at |-> "ok", token |-> key]
        BY <2>3, <3>1, <3>2 DEF Task, Won
      <3> QED  BY <2>1, <3>3 DEF Renewing
    <2> QED  BY <2>2, <2>3
  <1> QED  BY <1>2, <1>3, <1>4, <1>5

----------------------------------------------------------------------------
\* Winning moves a token from a task of the candidate to its lock, whether or not
\* the callback of onElected throws.
LEMMA WinStep ==
  ASSUME IInv, NEW c \in Candidates, NEW i \in Slots(c), Win(c, i) \/ ElectedThrows(c, i)
  PROVE  IInv'
  <1> USE DEF IInv
  <1> DEFINE u == task[c][i].token
  <1>1. i \in AllSlots /\ task[c][i] # None /\ Won(c, i) /\ task[c][i] \in Task
    BY SlotFacts DEF Win, ElectedThrows, Won, None, TypeOK
  <1>2. status[c] \in {"running", "resigned"}
    BY <1>1, Active
  <1>3. u \in MaybeToken /\ u # Free /\ u \in Knows(c)
    BY <1>1 DEF Task, Tokened, Knows
  <1>4. /\ Put(c, i, None) /\ UNCHANGED <<key, status, late>>
        /\ leaders' = leaders \cup {c} \/ leaders' = leaders
        /\ currentLock' = [currentLock EXCEPT ![c] = u]
    BY DEF Win, ElectedThrows
  <1>5. None \in Task /\ None.kind = "none" /\ None.token = Free
    BY TaskFacts DEF None
  <1> HIDE DEF u
  <1>6. TypeOK'
    BY <1>1, <1>3, <1>4, <1>5, PutEffect DEF TypeOK
  <1>7. Separate'
    <2>1. \A d \in Candidates : currentLock'[d] \in Knows(d) \cup {Free}
      BY <1>3, <1>4 DEF Knows, TypeOK
    <2> QED  BY <1>1, <1>4, <1>5, <2>1, KnowsAfterPut, SeparateKept
  <1>8. Quiet'
    BY <1>1, <1>2, <1>4, <1>5, QuietKept DEF TypeOK
  <1>9. ReleaseSlot'
    BY <1>1, <1>4, <1>5, ReleaseSlotKept
  <1>10. Flagged'
    BY <1>3, <1>4 DEF Flagged, TypeOK
  <1>11. Tokened'
    BY <1>1, <1>4, <1>5, WonAfterPut DEF Tokened
  <1>12. Timely'
    <2> SUFFICES ASSUME ~late, NEW d \in Candidates, status[d] = "running"
                 PROVE  /\ currentLock'[d] # Free => key = currentLock'[d]
                        /\ \A j \in Slots(d) : Won(d, j)' => key = task'[d][j].token
      BY <1>4 DEF Timely, Won, Slots
    <2>1. currentLock'[d] # Free => key = currentLock'[d]
      <3>1. CASE d = c
        BY <1>1, <1>4, <3>1 DEF Timely, TypeOK, u
      <3>2. CASE d # c
        BY <1>4, <3>2 DEF Timely, TypeOK
      <3> QED  BY <3>1, <3>2
    <2>2. \A j \in Slots(d) : Won(d, j)' => key = task'[d][j].token
      BY <1>1, <1>4, <1>5, WonAfterPut, SlotFacts DEF Timely
    <2> QED  BY <2>1, <2>2
  <1> QED  BY <1>6, <1>7, <1>8, <1>9, <1>10, <1>11, <1>12

\* An election starts with nothing held.
LEMMA ElectStep ==
  ASSUME IInv, NEW c \in Candidates, Elect(c)
  PROVE  IInv'
  <1> USE DEF IInv
  <1> DEFINE t == Sent("acquire", Free)
  <1>1. 1 \in AllSlots /\ t \in Task /\ t.kind = "acquire" /\ t.at = "sent" /\ t.token = Free
    BY SlotFacts, TaskFacts DEF Sent
  <1>2. /\ Put(c, 1, t) /\ UNCHANGED <<key, leaders, currentLock, late>>
        /\ status' = [status EXCEPT ![c] = "running"]
    BY DEF Elect
  <1>3. c \notin leaders /\ currentLock[c] = Free /\ \A i \in AllSlots : task[c][i] = None
    BY DEF Quiet, Elect
  <1> HIDE DEF t
  <1>4. \A d \in Candidates : d # c => status'[d] = status[d]
    BY <1>2 DEF TypeOK
  <1>5. status[c] = "idle" /\ status'[c] = "running"
    BY <1>2 DEF TypeOK, Elect
  <1>6. TypeOK'
    BY <1>1, <1>2, PutEffect DEF TypeOK, Statuses
  <1>7. Separate'
    BY <1>1, <1>2, KnowsAfterPut, SeparateKept DEF Knows
  <1>8. Quiet'
    BY <1>1, <1>2, <1>4, <1>5, QuietKept
  <1>9. ReleaseSlot'
    BY <1>1, <1>2, <1>4, <1>5, ReleaseSlotKept
  <1>10. Flagged'
    BY <1>2, <1>3, <1>4 DEF Flagged
  <1>11. Tokened'
    BY <1>1, <1>2, WonAfterPut DEF Tokened
  <1>12. Timely'
    <2> SUFFICES ASSUME ~late, NEW d \in Candidates, status'[d] = "running"
                 PROVE  /\ currentLock[d] # Free => key = currentLock[d]
                        /\ \A j \in Slots(d) : Won(d, j)' => key = task'[d][j].token
      BY <1>2 DEF Timely, Won, Slots
    <2>1. ASSUME NEW j \in Slots(d), Won(d, j)'
          PROVE  Won(d, j) /\ task'[d][j] = task[d][j] /\ d # c
      <3>1. j \in AllSlots
        BY SlotFacts
      <3>2. Won(d, j) /\ task'[d][j] = task[d][j]
        BY <1>1, <1>2, <2>1, <3>1, WonAfterPut
      <3> QED  BY <1>3, <3>1, <3>2 DEF Won, None
    <2> QED  BY <1>3, <1>4, <2>1 DEF Timely
  <1> QED  BY <1>6, <1>7, <1>8, <1>9, <1>10, <1>11, <1>12

\* resign sends the release of the lock the candidate holds, if any.
LEMMA ResignStep ==
  ASSUME IInv, NEW c \in Candidates, Resign(c)
  PROVE  IInv'
  <1> USE DEF IInv
  <1>1. PICK t \in Task : /\ Put(c, 0, t) /\ t.token \in Knows(c)
                          /\ ~(t.kind = "acquire" /\ t.at = "ok")
                          \/ task' = task
    <2>1. CASE currentLock[c] # Free
      <3>1. Sent("release", currentLock[c]) \in Task
        BY <2>1, TaskFacts DEF TypeOK, MaybeToken
      <3> QED  BY <2>1, <3>1 DEF Resign, Sent, Knows
    <2>2. CASE currentLock[c] = Free
      BY <2>2, TaskFacts DEF Resign
    <2> QED  BY <2>1, <2>2
  <1>2. /\ UNCHANGED <<key, leaders, currentLock, late>> /\ status[c] = "running"
        /\ status' = [status EXCEPT ![c] = "resigned"]
    BY DEF Resign
  <1>3. /\ \A d \in Candidates : d # c => status'[d] = status[d]
        /\ status'[c] = "resigned"
    BY <1>2 DEF TypeOK
  <1>4. 0 \in AllSlots
    BY SlotFacts
  <1>5. TypeOK'
    BY <1>1, <1>2, <1>4, PutEffect DEF TypeOK, Statuses
  <1>6. Separate'
    <2>1. \A d \in Candidates : Knows(d)' \subseteq Knows(d) \cup {Free}
      BY <1>1, <1>2, <1>4, KnowsAfterPut DEF Knows
    <2> QED  BY <2>1, SeparateKept
  <1>7. \A d \in Candidates, j \in AllSlots :
           Won(d, j)' => Won(d, j) /\ task'[d][j] = task[d][j]
    BY <1>1, <1>4, WonAfterPut DEF Won
  <1>8. Quiet'
    <2>1. CASE task' = task
      BY <1>2, <1>3, <2>1 DEF Quiet, None
    <2> QED  BY <1>1, <1>2, <1>3, <1>4, <2>1, QuietKept
  <1>9. ReleaseSlot'
    <2>1. CASE task' = task
      BY <1>2, <1>3, <2>1 DEF ReleaseSlot, Slots
    <2> QED  BY <1>1, <1>2, <1>3, <1>4, <2>1, ReleaseSlotKept
  <1>10. Flagged'
    BY <1>2, <1>3 DEF Flagged
  <1>11. Tokened'
    BY <1>7 DEF Tokened
  <1>12. Timely'
    <2> SUFFICES ASSUME ~late, NEW d \in Candidates, status[d] = "running"
                 PROVE  /\ currentLock[d] # Free => key = currentLock[d]
                        /\ \A j \in Slots(d) : Won(d, j)' => key = task'[d][j].token
      BY <1>2, <1>3 DEF Timely, Won, Slots
    <2> QED  BY <1>7, SlotFacts DEF Timely
  <1> QED  BY <1>5, <1>6, <1>8, <1>9, <1>10, <1>11, <1>12

\* A stopped process keeps nothing.
LEMMA StopStep ==
  ASSUME IInv, NEW c \in Candidates, Stop(c)
  PROVE  IInv'
  <1> USE DEF IInv
  <1>1. /\ UNCHANGED <<key, late>> /\ leaders' = leaders \ {c}
        /\ status' = [status EXCEPT ![c] = "stopped"]
        /\ currentLock' = [currentLock EXCEPT ![c] = Free]
        /\ task' = [task EXCEPT ![c] = [i \in AllSlots |-> None]]
    BY DEF Stop
  <1>2. /\ status'[c] = "stopped" /\ currentLock'[c] = Free /\ c \notin leaders'
        /\ \A i \in AllSlots : task'[c][i] = None
    BY <1>1 DEF TypeOK
  <1>3. \A d \in Candidates : d # c =>
            /\ status'[d] = status[d] /\ currentLock'[d] = currentLock[d]
            /\ task'[d] = task[d] /\ (d \in leaders' <=> d \in leaders)
    BY <1>1 DEF TypeOK
  <1>4. TypeOK'
    <2>1. task' \in [Candidates -> [AllSlots -> Task]]
      BY <1>1, TaskFacts DEF TypeOK
    <2> QED  BY <1>1, <2>1 DEF TypeOK, Statuses, MaybeToken
  <1>5. Separate'
    <2>1. \A d \in Candidates : Knows(d)' \subseteq Knows(d) \cup {Free}
      BY <1>2, <1>3 DEF Knows, None
    <2> QED  BY <2>1, SeparateKept
  <1>6. Quiet'
    BY <1>2, <1>3 DEF Quiet, None
  <1>7. ReleaseSlot'
    <2> SUFFICES ASSUME NEW d \in Candidates
                 PROVE  /\ task'[d][0].kind = "release" => status'[d] = "resigned"
                        /\ \A j \in Slots(d) : task'[d][j].kind # "release"
      BY DEF ReleaseSlot, Slots
    <2>1. CASE d = c
      BY <1>2, <2>1, SlotFacts DEF None
    <2>2. CASE d # c
      BY <1>3, <2>2 DEF ReleaseSlot
    <2> QED  BY <2>1, <2>2
  <1>8. Flagged'
    BY <1>2, <1>3 DEF Flagged
  <1>9. Tokened'
    BY <1>2, <1>3 DEF Tokened, Won, None
  <1>10. Timely'
    BY <1>1, <1>2, <1>3 DEF Timely, Won, Slots
  <1> QED  BY <1>4, <1>5, <1>6, <1>7, <1>8, <1>9, <1>10

----------------------------------------------------------------------------
\* Every step keeps the invariant.
LEMMA StepInv == IInv /\ [Next]_vars => IInv'
  <1> SUFFICES ASSUME IInv, [Next]_vars PROVE IInv'  OBVIOUS
  <1>1. CASE UNCHANGED vars
    <2> USE <1>1 DEF IInv, vars
    <2>0. TypeOK'
      BY DEF TypeOK
    <2>1. Separate'
      BY DEF Separate, Knows
    <2>2. Quiet'
      BY DEF Quiet, None
    <2>3. ReleaseSlot' /\ Flagged'
      BY DEF ReleaseSlot, Slots, Flagged
    <2>4. Tokened' /\ Timely'
      BY DEF Tokened, Timely, Won, Slots
    <2> QED  BY <2>0, <2>1, <2>2, <2>3, <2>4
  <1>2. CASE Expire
    BY <1>2, ExpireStep
  <1>3. ASSUME NEW c \in Candidates,
               Elect(c) \/ Resign(c) \/ Released(c) \/ ResignDone(c) \/ Stop(c)
        PROVE  IInv'
    BY <1>3, ElectStep, ResignStep, ReleasedStep, ResignDoneStep, StopStep
  <1>4. ASSUME NEW c \in Candidates, NEW i \in Slots(c), Tick(c, i)
        PROVE  IInv'
    BY <1>4, TickStep
  <1>5. ASSUME NEW c \in Candidates, NEW i \in Slots(c), Redis(c, i)
        PROVE  IInv'
    BY <1>5, AcquiredStep, RefusedStep, ExtendFailedStep DEF Redis
  <1>6. ASSUME NEW c \in Candidates, NEW i \in Slots(c), Resume(c, i)
        PROVE  IInv'
    BY <1>6, WinStep, DeposeStep DEF Resume
  <1> QED  BY <1>1, <1>2, <1>3, <1>4, <1>5, <1>6 DEF Next

LEMMA Invariance == Spec => []IInv
  BY InitInv, StepInv, PTL DEF Spec

\* Every variable of the election keeps its type: redlock's answers, lost locks
\* and overlapping activations never leave an object in an unknown state.
THEOREM TypeCorrect == Spec => []TypeOK
  <1>1. IInv => TypeOK
    BY DEF IInv
  <1> QED  BY <1>1, Invariance, PTL

\* While renewals are on time, the lock of a running leader is the one in Redis.
THEOREM LeaderHoldsLockHolds == Spec => []LeaderHoldsLock
  <1>1. IInv => LeaderHoldsLock
    BY DEF IInv, LeaderHoldsLock, Flagged, Timely, TypeOK
  <1> QED  BY <1>1, Invariance, PTL

\* While renewals are on time, two candidates answer isLeader() with true only
\* after one of them has called resign.
THEOREM OneLeaderHolds == Spec => []OneLeader
  <1>1. ASSUME IInv PROVE OneLeader
    <2> SUFFICES ASSUME ~late, NEW c \in leaders, NEW d \in leaders, c # d,
                        status[c] # "resigned", status[d] # "resigned"
                 PROVE  FALSE
      BY <1>1 DEF OneLeader, IInv, TypeOK
    <2>1. c \in Candidates /\ d \in Candidates
      BY <1>1 DEF IInv, TypeOK
    <2>2. status[c] = "running" /\ status[d] = "running"
      BY <1>1, <2>1 DEF IInv, TypeOK, Statuses, Quiet
    <2>3. key = currentLock[c] /\ key = currentLock[d] /\ key # Free
      BY <1>1, <2>1, <2>2 DEF IInv, Flagged, Timely
    <2> QED  BY <1>1, <2>1, <2>3 DEF IInv, Separate, Knows
  <1> QED  BY <1>1, Invariance, PTL

\* While renewals are on time there is one leader, and it has the lock.
THEOREM LeaderSafeHolds == Spec => []LeaderSafe
  BY OneLeaderHolds, LeaderHoldsLockHolds, PTL DEF LeaderSafe

----------------------------------------------------------------------------
(* The in-memory lock.                                                      *)

Renews ==
    \A c \in LockCandidates : election[c].leader =>
        election[c].armed \/ election[c].resign = "released"

\* Only a handle makes a leader, and the lock is a candidate's while its acquire
\* has answered or it has the handle.
ByHandle ==
    \A c \in LockCandidates :
        /\ election[c].leader \/ election[c].armed => election[c].handle
        /\ election[c].tried # "done" => ~election[c].handle
        /\ holder = c => election[c].tried = "got" \/ election[c].handle

Resigning ==
    \A c \in LockCandidates :
        /\ election[c].resign # "none" => election[c].tried # "no"
        /\ election[c].resign # "none" /\ election[c].tried = "got" => c \in early
        /\ election[c].resign = "released" =>
              election[c].handle /\ ~election[c].armed /\ holder # c

LockInv == LockTypeOK /\ Renews /\ ByHandle /\ Resigning /\ ResignedLeadsIfEarly

LEMMA LockInitInv == LockInit => LockInv
  <1> SUFFICES ASSUME LockInit PROVE LockInv
    OBVIOUS
  <1> USE DEF LockInit
  <1>1. LockTypeOK
    BY DEF LockTypeOK
  <1>2. Renews /\ ByHandle /\ Resigning /\ ResignedLeadsIfEarly
    BY MemoryLockAssumption DEF Renews, ByHandle, Resigning, ResignedLeadsIfEarly
  <1> QED  BY <1>1, <1>2 DEF LockInv

\* A client's step leaves the elections alone, and takes the lock of a candidate
\* only when it is overdue.
LEMMA ClientStepInv ==
  ASSUME LockInv, NEW u \in Clients,
         AcquireLock(u) \/ RetryAcquire(u) \/ ReleaseLock(u) \/ ExtendLock(u)
  PROVE  LockInv'
  <1>1. UNCHANGED <<election, early>> /\ holder' \in {holder, u, Nobody}
    BY DEF AcquireLock, RetryAcquire, ReleaseLock, ExtendLock, GrantedTo, Drop, Gone
  <1>2. \A c \in LockCandidates : holder' = c => holder = c
    BY <1>1, MemoryLockAssumption
  <1>3. LockTypeOK'
    BY DEF LockInv, LockTypeOK, AcquireLock, RetryAcquire, ReleaseLock, ExtendLock,
           GrantedTo, Drop, Gone
  <1>4. Renews' /\ ByHandle' /\ Resigning' /\ ResignedLeadsIfEarly'
    BY <1>1, <1>2 DEF LockInv, Renews, ByHandle, Resigning, ResignedLeadsIfEarly
  <1> QED  BY <1>3, <1>4 DEF LockInv

Election == [tried  : {"no", "got", "not", "done"}, handle : BOOLEAN, leader : BOOLEAN,
             armed  : BOOLEAN, renew  : {"none", "lost"},
             resign : {"none", "released", "done"}]

\* What Elects does to the elections.
LEMMA ElectsEffect ==
  ASSUME LockTypeOK, NEW c \in LockCandidates, NEW e \in Election, Elects(c, e)
  PROVE  /\ election' \in [LockCandidates -> Election]
         /\ election'[c] = e
         /\ \A d \in LockCandidates : d # c => election'[d] = election[d]
  BY DEF Elects, LockTypeOK, Election

\* A step of one election that keeps the rules for its own candidate, and gives
\* the lock to nobody else, keeps them for all.
LEMMA OneElection ==
  ASSUME LockInv, NEW c \in LockCandidates, NEW e \in Election, Elects(c, e),
         holder' \in {holder, c, Nobody}, holder' = Nobody => ~overdue', overdue' \in BOOLEAN,
         early' \in {early, early \cup {c}}, UNCHANGED <<client, swept>>,
         e.leader => e.armed \/ e.resign = "released",
         e.leader \/ e.armed => e.handle,
         e.tried # "done" => ~e.handle,
         holder' = c => e.tried = "got" \/ e.handle,
         e.resign # "none" => e.tried # "no",
         e.resign # "none" /\ e.tried = "got" => c \in early',
         e.resign = "released" => e.handle /\ ~e.armed /\ holder' # c,
         e.resign = "done" /\ (e.leader \/ e.armed \/ holder' = c) => c \in early'
  PROVE  LockInv'
  <1>1. LockTypeOK
    BY DEF LockInv
  <1>2. /\ election' \in [LockCandidates -> Election]
        /\ election'[c] = e
        /\ \A d \in LockCandidates : d # c => election'[d] = election[d]
    BY <1>1, ElectsEffect
  <1>3. \A d \in LockCandidates : d # c => (holder' = d => holder = d) /\ (d \in early' <=> d \in early)
    BY MemoryLockAssumption
  <1>4. LockTypeOK'
    <2>1. \A d \in LockCandidates :
             election'[d].tried \in {"no", "got", "not"} => ~election'[d].handle
      BY <1>1, <1>2 DEF LockTypeOK
    <2> QED  BY <1>1, <1>2, <2>1 DEF LockTypeOK, Election
  <1>5. Renews' /\ ByHandle'
    BY <1>2, <1>3 DEF LockInv, Renews, ByHandle
  <1>6. Resigning' /\ ResignedLeadsIfEarly'
    BY <1>2, <1>3 DEF LockInv, Resigning, ResignedLeadsIfEarly
  <1> QED  BY <1>4, <1>5, <1>6 DEF LockInv

LEMMA ElectionStepInv ==
  ASSUME LockInv, NEW c \in LockCandidates,
         ElectLeader(c) \/ TryAcquireGoesOn(c) \/ Renew(c) \/ Deposed(c)
         \/ ResignLead(c) \/ ResignGoesOn(c)
  PROVE  LockInv'
  <1>0. /\ LockTypeOK /\ election[c] \in Election /\ c # Nobody
        /\ election[c].tried # "done" => ~election[c].handle
        /\ (holder = Nobody => ~overdue) /\ overdue \in BOOLEAN
    BY MemoryLockAssumption DEF LockInv, LockTypeOK, Election
  <1>1. /\ election[c].leader => election[c].armed \/ election[c].resign = "released"
        /\ election[c].leader \/ election[c].armed => election[c].handle
        /\ holder = c => election[c].tried = "got" \/ election[c].handle
        /\ election[c].resign # "none" => election[c].tried # "no"
        /\ election[c].resign # "none" /\ election[c].tried = "got" => c \in early
        /\ election[c].resign = "released" =>
              election[c].handle /\ ~election[c].armed /\ holder # c
        /\ election[c].resign = "done"
              /\ (election[c].leader \/ election[c].armed \/ holder = c) => c \in early
    BY DEF LockInv, Renews, ByHandle, Resigning, ResignedLeadsIfEarly
  <1>2. CASE ElectLeader(c)
    <2>1. ASSUME NEW at \in {"got", "not"},
                 Elects(c, [election[c] EXCEPT !.tried = at]),
                 at = "got" => GrantedTo(c),
                 at = "not" => UNCHANGED <<holder, overdue>>
          PROVE  LockInv'
      <3> DEFINE f == [election[c] EXCEPT !.tried = at]
      <3>1. /\ f \in Election /\ f.tried = at /\ f.handle = election[c].handle
            /\ f.leader = election[c].leader /\ f.armed = election[c].armed
            /\ f.resign = election[c].resign
        BY <1>0 DEF Election
      <3>2. election[c].tried = "no" /\ UNCHANGED <<client, swept, early>> /\ Elects(c, f)
        BY <1>2, <2>1 DEF ElectLeader
      <3>3. /\ holder' \in {holder, c} /\ (holder' = Nobody => ~overdue') /\ overdue' \in BOOLEAN
            /\ at = "not" => holder' = holder
        <4>1. CASE at = "got"
          BY <1>0, <2>1, <4>1 DEF GrantedTo
        <4>2. CASE at = "not"
          BY <1>0, <2>1, <4>2
        <4> QED  BY <4>1, <4>2
      <3> HIDE DEF f
      <3> QED  BY <1>0, <1>1, <2>1, <3>1, <3>2, <3>3, OneElection
    <2> QED  BY <1>2, <2>1 DEF ElectLeader
  <1>3. CASE TryAcquireGoesOn(c)
    <2> DEFINE got == election[c].tried = "got"
               f == [election[c] EXCEPT !.tried = "done", !.handle = got,
                                        !.leader = got, !.armed = got]
    <2>1. /\ f \in Election /\ f.tried = "done" /\ f.resign = election[c].resign
          /\ f.handle = got /\ f.leader = got /\ f.armed = got
      BY <1>0 DEF Election
    <2>2. /\ Elects(c, f) /\ election[c].tried \in {"got", "not"}
          /\ UNCHANGED <<holder, overdue, client, swept, early>>
      BY <1>3 DEF TryAcquireGoesOn
    <2>3. (holder' = Nobody => ~overdue') /\ overdue' \in BOOLEAN
      BY <1>0, <2>2
    <2> HIDE DEF f
    <2> QED  BY <1>0, <1>1, <2>1, <2>2, <2>3, OneElection
  <1>4. CASE Renew(c)
    <2> DEFINE f == IF holder = c THEN election[c] ELSE [election[c] EXCEPT !.renew = "lost"]
    <2>1. /\ f \in Election /\ f.tried = election[c].tried /\ f.resign = election[c].resign
          /\ f.handle = election[c].handle /\ f.leader = election[c].leader
          /\ f.armed = election[c].armed
      BY <1>0 DEF Election
    <2>2. Elects(c, f) /\ UNCHANGED <<holder, client, swept, early>>
      BY <1>0, <1>4 DEF Renew, Elects, LockTypeOK
    <2>3. (holder' = Nobody => ~overdue') /\ overdue' \in BOOLEAN
      BY <1>0, <1>4 DEF Renew
    <2> HIDE DEF f
    <2> QED  BY <1>0, <1>1, <2>1, <2>2, <2>3, OneElection
  <1>5. CASE Deposed(c)
    <2> DEFINE f == [election[c] EXCEPT !.renew = "none", !.leader = FALSE, !.armed = FALSE]
    <2>1. /\ f \in Election /\ f.tried = election[c].tried /\ f.resign = election[c].resign
          /\ f.handle = election[c].handle /\ ~f.leader /\ ~f.armed
      BY <1>0 DEF Election
    <2>2. Elects(c, f) /\ UNCHANGED <<holder, overdue, client, swept, early>>
      BY <1>5 DEF Deposed
    <2>3. (holder' = Nobody => ~overdue') /\ overdue' \in BOOLEAN
      BY <1>0, <2>2
    <2> HIDE DEF f
    <2> QED  BY <1>0, <1>1, <2>1, <2>2, <2>3, OneElection
  <1>6. CASE ResignLead(c)
    <2> DEFINE f == [election[c] EXCEPT !.armed = FALSE,
                        !.resign = IF election[c].handle THEN "released" ELSE "done"]
    <2>1. /\ f \in Election /\ f.tried = election[c].tried /\ f.handle = election[c].handle
          /\ f.leader = election[c].leader /\ ~f.armed
          /\ f.resign = IF election[c].handle THEN "released" ELSE "done"
      BY <1>0 DEF Election
    <2>2. Elects(c, f) /\ UNCHANGED <<client, swept>> /\ election[c].tried # "no"
      BY <1>6 DEF ResignLead, MayResign
    <2>3. /\ early' = IF election[c].tried = "got" THEN early \cup {c} ELSE early
          /\ holder' \in {holder, Nobody} /\ (holder' = Nobody => ~overdue')
          /\ overdue' \in BOOLEAN /\ (election[c].handle => holder' # c)
      BY <1>0, <1>6 DEF ResignLead, Drop, Gone
    <2> HIDE DEF f
    <2> QED  BY <1>0, <1>1, <2>1, <2>2, <2>3, OneElection
  <1>7. CASE ResignGoesOn(c)
    <2> DEFINE f == [election[c] EXCEPT !.leader = FALSE, !.resign = "done"]
    <2>1. /\ f \in Election /\ f.tried = election[c].tried /\ f.handle = election[c].handle
          /\ ~f.leader /\ f.armed = election[c].armed /\ f.resign = "done"
      BY <1>0 DEF Election
    <2>2. /\ Elects(c, f) /\ election[c].resign = "released"
          /\ UNCHANGED <<holder, overdue, client, swept, early>>
      BY <1>7 DEF ResignGoesOn
    <2>3. (holder' = Nobody => ~overdue') /\ overdue' \in BOOLEAN
      BY <1>0, <2>2
    <2> HIDE DEF f
    <2> QED  BY <1>0, <1>1, <2>1, <2>2, <2>3, OneElection
  <1> QED  BY <1>2, <1>3, <1>4, <1>5, <1>6, <1>7

LEMMA LockStepInv == LockInv /\ [LockNext]_lockvars => LockInv'
  <1> SUFFICES ASSUME LockInv, [LockNext]_lockvars PROVE LockInv'
    OBVIOUS
  <1>1. CASE UNCHANGED lockvars
    BY <1>1 DEF lockvars, LockInv, LockTypeOK, Renews, ByHandle, Resigning,
       ResignedLeadsIfEarly
  <1>2. CASE LockExpired \/ EvictExpired \/ ShutdownLock
    <2>1. UNCHANGED <<election, client, early>> /\ holder' \in {holder, Nobody}
      BY <1>2 DEF LockExpired, EvictExpired, ShutdownLock, Gone
    <2>2. LockTypeOK'
      BY <1>2, <2>1 DEF LockInv, LockTypeOK, LockExpired, EvictExpired, ShutdownLock, Gone
    <2> QED
      BY <2>1, <2>2, MemoryLockAssumption DEF LockInv, Renews, ByHandle, Resigning,
         ResignedLeadsIfEarly
  <1> QED
    BY <1>1, <1>2, ClientStepInv, ElectionStepInv DEF LockNext

LEMMA LockInvariance == LockSpec => []LockInv
  BY LockInitInv, LockStepInv, PTL DEF LockSpec

\* A candidate that has lost the lock and still shows isLeader has a timer, or the
\* rest of a resign, that will tell it, whatever expired or was taken meanwhile.
THEOREM StaleLeaderLearnsHolds == LockSpec => []StaleLeaderLearns
  <1>1. LockInv => StaleLeaderLearns
    BY DEF LockInv, Renews, StaleLeaderLearns
  <1> QED  BY <1>1, LockInvariance, PTL

\* A candidate that resigned leads, renews or holds the lock only if its resign
\* came before its election had its handle.
THEOREM ResignedLeadsIfEarlyHolds == LockSpec => []ResignedLeadsIfEarly
  <1>1. LockInv => ResignedLeadsIfEarly
    BY DEF LockInv
  <1> QED  BY <1>1, LockInvariance, PTL

\* A lock that has not expired is lost by its own release or resign, or by
\* shutdown, and to nobody else's call.
THEOREM LockStandsHolds == LockSpec => LockStands
  <1>1. ASSUME LockInv, LockNext, holder # Nobody, ~overdue, holder' # holder
        PROVE  \/ swept /\ ~swept'
               \/ holder \in Clients /\ client'[holder] = "released"
               \/ holder \in LockCandidates /\ election'[holder].resign = "released"
    <2>1. ASSUME NEW u \in Clients,
                 AcquireLock(u) \/ RetryAcquire(u) \/ ReleaseLock(u) \/ ExtendLock(u)
          PROVE  holder \in Clients /\ client'[holder] = "released"
      BY <1>1, <2>1 DEF LockInv, LockTypeOK, AcquireLock, RetryAcquire, ReleaseLock,
         ExtendLock, Available, Drop
    <2>2. ASSUME NEW c \in LockCandidates,
                 \/ ElectLeader(c) \/ TryAcquireGoesOn(c) \/ Renew(c) \/ Deposed(c)
                 \/ ResignLead(c) \/ ResignGoesOn(c)
          PROVE  holder \in LockCandidates /\ election'[holder].resign = "released"
      <3>1. ResignLead(c) /\ election[c].handle /\ holder = c
        BY <1>1, <2>2 DEF ElectLeader, TryAcquireGoesOn, Renew, Deposed, ResignLead,
           ResignGoesOn, Available, Drop
      <3> QED
        BY <1>1, <3>1 DEF LockInv, LockTypeOK, ResignLead, Elects
    <2>3. CASE LockExpired \/ EvictExpired \/ ShutdownLock
      BY <1>1, <2>3 DEF LockExpired, EvictExpired, ShutdownLock
    <2> QED  BY <1>1, <2>1, <2>2, <2>3 DEF LockNext
  <1>2. LockInv /\ [LockNext]_lockvars =>
          [holder # Nobody /\ ~overdue /\ holder' # holder =>
             \/ swept /\ ~swept'
             \/ holder \in Clients /\ client'[holder] = "released"
             \/ holder \in LockCandidates /\ election'[holder].resign = "released"]_lockvars
    BY <1>1
  <1> QED  BY <1>2, LockInvariance, PTL DEF LockSpec, LockStands

\* The lock and its leader agree, but for a resign that came early.
THEOREM LockKeepsHolds == LockSpec => LockKeeps
  BY StaleLeaderLearnsHolds, ResignedLeadsIfEarlyHolds, LockStandsHolds, PTL DEF LockKeeps

----------------------------------------------------------------------------
(* The two locks as MCLocks puts them side by side.                         *)

\* A behaviour of the suite is one of each lock: the one it is not about stutters.
LEMMA SuiteOfBoth == SuiteSpec => Spec /\ LockSpec
  <1>1. SuiteInit => Init /\ LockInit
    BY DEF SuiteInit
  <1>2. [SuiteNext]_suitevars => [Next]_vars /\ [LockNext]_lockvars
    BY DEF SuiteNext, suitevars, vars, lockvars
  <1> QED  BY <1>1, <1>2, PTL DEF SuiteSpec, Spec, LockSpec

\* On Redis and in memory every variable keeps its type, through expiries,
\* resigns that overlap renewals, and shutdown.
THEOREM SuiteTypeCorrect == SuiteSpec => []SuiteTypeOK
  <1>1. LockInv => LockTypeOK
    BY DEF LockInv
  <1> QED  BY <1>1, SuiteOfBoth, TypeCorrect, LockInvariance, PTL DEF SuiteTypeOK
=============================================================================
