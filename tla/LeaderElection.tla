--------------------------- MODULE LeaderElection ---------------------------
(***************************************************************************)
(* electLeader of RedisLockBackend (src/kernel-impl/redis/lock.ts): one     *)
(* group, its candidates, each in a process of its own, and the key         *)
(* leader:<group> in Redis.                                                 *)
(*                                                                          *)
(* A candidate runs tryAcquire once and renewOrAcquire at every tick of its *)
(* interval.  The interval does not wait for the previous run, so several   *)
(* activations of one candidate are suspended at their await at a time:     *)
(* task[c][i] is one of them, a request on its way to Redis ("sent") or its *)
(* answer on the way back ("ok", "no").  An answer that changes nothing in  *)
(* the process, a refused acquire or a granted extend, ends the activation  *)
(* at once.                                                                 *)
(*                                                                          *)
(* Redis and redlock are external: the key holds the token of the last      *)
(* acquisition until it is released or its ttl passes, acquire gives up     *)
(* while the key is held, extend and release fail unless the key still      *)
(* holds the token, and extend may fail although it does (connection).      *)
(***************************************************************************)
EXTENDS Naturals, FiniteSets

CONSTANTS
    Candidates,
    Throwing,   \* those whose callback of onElected may throw
    MaxTasks,   \* bound: the activations of a candidate suspended at a time
    Tasks,      \* bound: the same for each candidate
    Tokens,     \* the values of acquired locks; a new one is one not in use
    Free        \* no token: currentLock = null, or the key is not set

ASSUME ElectionAssumption ==
    /\ IsFiniteSet(Candidates) /\ IsFiniteSet(Tokens) /\ Throwing \subseteq Candidates
    /\ MaxTasks \in Nat
    /\ Tasks \in [Candidates -> 1 .. MaxTasks]
    /\ Free \notin Tokens

VARIABLES
    key,            \* Redis: the token the key holds
    status,         \* of the candidate's LeaderElection object
    leaders,        \* the candidates whose isLeaderFlag is true
    currentLock,
    task,
    late            \* auxiliary: a lock expired while its owner was renewing it

vars == <<key, status, leaders, currentLock, task, late>>

\* Task 0 is the release that resign awaits.
Slots(c) == 1 .. Tasks[c]
AllSlots == 0 .. MaxTasks

MaybeToken == Tokens \cup {Free}
Statuses   == {"idle", "running", "resigned", "stopped"}
TaskKinds  == {"none", "acquire", "extend", "release"}
Task       == [kind : TaskKinds, at : {"sent", "ok", "no"}, token : MaybeToken]

None        == [kind |-> "none", at |-> "sent", token |-> Free]
Sent(k, t)  == [kind |-> k, at |-> "sent", token |-> t]

TypeOK ==
    /\ key \in MaybeToken
    /\ status \in [Candidates -> Statuses]
    /\ leaders \subseteq Candidates
    /\ currentLock \in [Candidates -> MaybeToken]
    /\ task \in [Candidates -> [AllSlots -> Task]]
    /\ late \in BOOLEAN

Init ==
    /\ key = Free
    /\ status = [c \in Candidates |-> "idle"]
    /\ leaders = {}
    /\ currentLock = [c \in Candidates |-> Free]
    /\ task = [c \in Candidates |-> [i \in AllSlots |-> None]]
    /\ late = FALSE

----------------------------------------------------------------------------
\* The tokens somebody still knows.
InUse == {key} \cup {currentLock[c] : c \in Candidates}
               \cup {task[c][i].token : c \in Candidates, i \in AllSlots}

Put(c, i, t) == task' = [task EXCEPT ![c][i] = t]

Answer(c, i, at) == Put(c, i, [task[c][i] EXCEPT !.at = at])

\* electLeader: tryAcquire is called and the interval started.
Elect(c) ==
    /\ status[c] = "idle"
    /\ status' = [status EXCEPT ![c] = "running"]
    /\ Put(c, 1, Sent("acquire", Free))
    /\ UNCHANGED <<key, leaders, currentLock, late>>

\* Mutant: only a leader does anything when its interval fires.
TickRenewOnly(c, i) ==
    /\ status[c] = "running" /\ currentLock[c] # Free
    /\ task[c][i] = None /\ \A j \in 1 .. i - 1 : task[c][j] # None
    /\ Put(c, i, Sent("extend", currentLock[c]))
    /\ UNCHANGED <<key, status, leaders, currentLock, late>>

\* The interval fires: renewOrAcquire up to its first await.
Tick(c, i) ==
    /\ status[c] = "running"
    /\ task[c][i] = None /\ \A j \in 1 .. i - 1 : task[c][j] # None
    /\ Put(c, i, IF currentLock[c] # Free THEN Sent("extend", currentLock[c])
                                          ELSE Sent("acquire", Free))
    /\ UNCHANGED <<key, status, leaders, currentLock, late>>

----------------------------------------------------------------------------
\* Redis: SET NX of a fresh token, or redlock's retries end with the key held.
Acquired(c, i) ==
    /\ task[c][i] = Sent("acquire", Free) /\ key = Free
    /\ Tokens \ InUse # {}
    /\ LET t == CHOOSE t \in Tokens : t \notin InUse
       IN  /\ key' = t
           /\ Put(c, i, [kind |-> "acquire", at |-> "ok", token |-> t])
    /\ UNCHANGED <<status, leaders, currentLock, late>>

Refused(c, i) ==
    /\ task[c][i] = Sent("acquire", Free) /\ key # Free
    /\ Put(c, i, None)
    /\ UNCHANGED <<key, status, leaders, currentLock, late>>

\* Redis compares the token and renews the ttl.
Extended(c, i) ==
    /\ task[c][i].kind = "extend" /\ task[c][i].at = "sent"
    /\ key = task[c][i].token
    /\ Put(c, i, None)
    /\ UNCHANGED <<key, status, leaders, currentLock, late>>

ExtendFailed(c, i) ==
    /\ task[c][i].kind = "extend" /\ task[c][i].at = "sent"
    /\ Answer(c, i, "no")
    /\ UNCHANGED <<key, status, leaders, currentLock, late>>

\* Mutant: release deletes the key whatever token it holds.
ReleasedAnyToken(c) ==
    /\ task[c][0].kind = "release" /\ task[c][0].at = "sent"
    /\ key' = Free /\ Answer(c, 0, "ok")
    /\ UNCHANGED <<status, leaders, currentLock, late>>

Released(c) ==
    /\ task[c][0].kind = "release" /\ task[c][0].at = "sent"
    /\ IF key = task[c][0].token THEN key' = Free /\ Answer(c, 0, "ok")
                                 ELSE key' = key /\ Answer(c, 0, "no")
    /\ UNCHANGED <<status, leaders, currentLock, late>>

\* The owner of the key renews it, or is about to hear that it has it.
Renewing(c) ==
    /\ status[c] = "running"
    /\ \/ currentLock[c] = key
       \/ \E i \in Slots(c) : task[c][i] = [kind |-> "acquire", at |-> "ok", token |-> key]

\* The ttl of the key passes.
Expire ==
    /\ key # Free
    /\ key' = Free
    /\ late' = (late \/ \E c \in Candidates : Renewing(c))
    /\ UNCHANGED <<status, leaders, currentLock, task>>

----------------------------------------------------------------------------
\* tryAcquire after its await, with a lock.
Win(c, i) ==
    /\ task[c][i].kind = "acquire" /\ task[c][i].at = "ok"
    /\ currentLock' = [currentLock EXCEPT ![c] = task[c][i].token]
    /\ leaders' = leaders \cup {c}
    /\ Put(c, i, None)
    /\ UNCHANGED <<key, status, late>>

\* The same, when the callback of onElected throws: the catch gives up what was
\* just won, but not the lock.
ElectedThrows(c, i) ==
    /\ c \in Throwing /\ c \notin leaders
    /\ task[c][i].kind = "acquire" /\ task[c][i].at = "ok"
    /\ currentLock' = [currentLock EXCEPT ![c] = task[c][i].token]
    /\ Put(c, i, None)
    /\ UNCHANGED <<key, status, leaders, late>>

\* Mutant: a failed renewal is retried without stepping down.
KeepLeading(c, i) ==
    /\ task[c][i].kind = "extend" /\ task[c][i].at = "no"
    /\ Put(c, i, None)
    /\ UNCHANGED <<key, status, leaders, currentLock, late>>

\* renewOrAcquire after a failed extend: step down, then tryAcquire.
Depose(c, i) ==
    /\ task[c][i].kind = "extend" /\ task[c][i].at = "no"
    /\ leaders' = leaders \ {c}
    /\ currentLock' = [currentLock EXCEPT ![c] = Free]
    /\ Put(c, i, Sent("acquire", Free))
    /\ UNCHANGED <<key, status, late>>

\* resign up to its await; without a lock it does nothing more.
Resign(c) ==
    /\ status[c] = "running"
    /\ status' = [status EXCEPT ![c] = "resigned"]
    /\ IF currentLock[c] # Free THEN Put(c, 0, Sent("release", currentLock[c]))
                                ELSE task' = task
    /\ UNCHANGED <<key, leaders, currentLock, late>>

\* resign after it; a release that throws rejects resign and changes nothing.
ResignDone(c) ==
    /\ task[c][0].kind = "release" /\ task[c][0].at # "sent"
    /\ IF task[c][0].at = "ok"
       THEN /\ leaders' = leaders \ {c}
            /\ currentLock' = [currentLock EXCEPT ![c] = Free]
       ELSE UNCHANGED <<leaders, currentLock>>
    /\ Put(c, 0, None)
    /\ UNCHANGED <<key, status, late>>

\* Mutant: a status no other action knows.
StopUnknown(c) ==
    /\ status[c] \in {"running", "resigned"}
    /\ status' = [status EXCEPT ![c] = "crashed"]
    /\ UNCHANGED <<key, leaders, currentLock, task, late>>

\* The candidate's process ends (after the backend's shutdown, or a crash).
Stop(c) ==
    /\ status[c] \in {"running", "resigned"}
    /\ status' = [status EXCEPT ![c] = "stopped"]
    /\ leaders' = leaders \ {c}
    /\ currentLock' = [currentLock EXCEPT ![c] = Free]
    /\ task' = [task EXCEPT ![c] = [i \in AllSlots |-> None]]
    /\ UNCHANGED <<key, late>>

----------------------------------------------------------------------------
Redis(c, i) == Acquired(c, i) \/ Refused(c, i) \/ Extended(c, i) \/ ExtendFailed(c, i)

Resume(c, i) == Win(c, i) \/ ElectedThrows(c, i) \/ Depose(c, i)

Next ==
    \/ \E c \in Candidates :
          \/ Elect(c) \/ Resign(c) \/ Released(c) \/ ResignDone(c) \/ Stop(c)
          \/ \E i \in Slots(c) : Tick(c, i) \/ Redis(c, i) \/ Resume(c, i)
    \/ Expire

Spec == Init /\ [][Next]_vars

\* Intervals fire, Redis answers, answered activations go on, and a key that
\* nobody renews runs into its ttl.
Fairness ==
    /\ \A c \in Candidates :
          /\ WF_vars(\E i \in Slots(c) : Tick(c, i))
          /\ \A i \in Slots(c) : WF_vars(Redis(c, i) \/ Resume(c, i))
          /\ WF_vars(Released(c) \/ ResignDone(c))
    /\ WF_vars(Expire /\ late' = late)

LiveSpec == Spec /\ Fairness

----------------------------------------------------------------------------
\* The promise of the election: while renewals are on time, two candidates
\* never both answer isLeader() with true, unless one of them has called
\* resign (which clears the flag only after the lock is released).
OneLeader ==
    ~late => \A c, d \in Candidates :
                c # d /\ {c, d} \subseteq leaders
                    => status[c] = "resigned" \/ status[d] = "resigned"

\* While renewals are on time a running leader's lock is the one in Redis,
\* whatever its other activations, failed renewals included, do meanwhile.
LeaderHoldsLock ==
    ~late => \A c \in leaders : status[c] = "running" => key = currentLock[c]

\* One leader, and it has the lock.
LeaderSafe == OneLeader /\ LeaderHoldsLock

\* A running candidate whose lock is gone, on time or not, steps down.
LostLock(c) == c \in leaders /\ key # currentLock[c]

StepsDown ==
    \A c \in Candidates : []<>~(LostLock(c) /\ status[c] = "running")

\* Its callback of onElected threw: it renews the lock and does not lead.
Muted(c) == status[c] = "running" /\ c \notin leaders /\ currentLock[c] # Free

\* While some candidate keeps running there is a leader again and again, after
\* crashes, resignations, failed renewals and locks nobody owns any more, unless
\* one whose callback threw has the lock (tech-desigh.md:2111 would have it lead).
LeaderEmerges ==
    <>[](\E c \in Candidates : status[c] = "running")
        => []<>(leaders # {} \/ \E c \in Candidates : Muted(c))

\* tech-desigh.md:2111: whoever's lock has run out gives way.
LostLockStepsDown == \A c \in Candidates : LostLock(c) ~> ~LostLock(c)
=============================================================================
