----------------------------- MODULE MemoryLock -----------------------------
(***************************************************************************)
(* InProcessLockBackend (src/kernel-impl/memory/lock.ts): one key, the      *)
(* clients that acquire, extend and release its lock, and the candidates    *)
(* whose elections hold it as "leader:<group>".  A call runs to its first   *)
(* await, so it is one step, and what follows the await is another, before  *)
(* which other calls may run, but no timer.                                 *)
(*                                                                          *)
(* Every acquisition draws a token of its own and a client acquires once,   *)
(* so that the holder stands for the token.                                 *)
(***************************************************************************)
CONSTANTS
    LockCandidates, \* electLeader is called once for each
    Clients,        \* acquire is called once by each
    Nobody          \* the key has no lock

ASSUME MemoryLockAssumption ==
    LockCandidates \cap Clients = {} /\ Nobody \notin LockCandidates \cup Clients

VARIABLES
    holder,     \* whose token the lock has
    overdue,    \* its expiresAt has passed
    client,     \* the clients' calls
    election,   \* the elections' variables
    swept,      \* cleanupInterval is set
    early       \* auxiliary: candidates that resigned before tryAcquire went on

lockvars == <<holder, overdue, client, election, swept, early>>

LockTypeOK ==
    /\ holder \in LockCandidates \cup Clients \cup {Nobody}
    /\ overdue \in BOOLEAN /\ (holder = Nobody => ~overdue) /\ swept \in BOOLEAN
    /\ client \in [Clients -> {"new", "waiting", "holding", "refused", "released"}]
    /\ election \in [LockCandidates ->
          [tried  : {"no", "got", "not", "done"},   \* tryAcquire: its acquire has answered
           handle : BOOLEAN, leader : BOOLEAN, armed : BOOLEAN,
           renew  : {"none", "lost"},               \* extend has answered false
           resign : {"none", "released", "done"}]]
    /\ \A c \in LockCandidates : election[c].tried \in {"no", "got", "not"} => ~election[c].handle
    /\ early \subseteq LockCandidates

LockInit ==
    /\ holder = Nobody /\ overdue = FALSE /\ swept = TRUE /\ early = {}
    /\ client = [u \in Clients |-> "new"]
    /\ election = [c \in LockCandidates |-> [tried |-> "no", handle |-> FALSE, leader |-> FALSE,
                                         armed |-> FALSE, renew |-> "none", resign |-> "none"]]

----------------------------------------------------------------------------
\* Nothing is left of the current turn of the event loop: timers may fire.
TurnOver ==
    \A c \in LockCandidates : /\ election[c].tried \notin {"got", "not"}
                          /\ election[c].renew = "none" /\ election[c].resign # "released"

\* evictExpired has removed an expired lock before acquire looks for one.
Available == holder = Nobody \/ overdue

\* acquire: h has the lock.
GrantedTo(h) == holder' = h /\ overdue' = FALSE

\* The lock is deleted.
Gone == holder' = Nobody /\ overdue' = FALSE

\* acquire of a client, which waits when it gave waitMs.
AcquireLock(u) ==
    /\ client[u] = "new"
    /\ IF Available THEN GrantedTo(u) /\ client' = [client EXCEPT ![u] = "holding"]
       ELSE /\ \E next \in {"waiting", "refused"} : client' = [client EXCEPT ![u] = next]
            /\ UNCHANGED <<holder, overdue>>
    /\ UNCHANGED <<election, swept, early>>

\* acquireWithRetry wakes up, before its deadline or after it.
RetryAcquire(u) ==
    /\ client[u] = "waiting" /\ TurnOver
    /\ \/ Available /\ GrantedTo(u) /\ client' = [client EXCEPT ![u] = "holding"]
       \/ client' = [client EXCEPT ![u] = "refused"] /\ UNCHANGED <<holder, overdue>>
    /\ UNCHANGED <<election, swept, early>>

\* Mutant: release does not compare the tokens.
DropAnyToken(h) == Gone

\* release: the lock of another token stays.
Drop(h) == IF holder = h THEN Gone ELSE UNCHANGED <<holder, overdue>>

ReleaseLock(u) ==
    /\ client[u] = "holding"
    /\ Drop(u) /\ client' = [client EXCEPT ![u] = "released"]
    /\ UNCHANGED <<election, swept, early>>

\* extend of a lock that is there: also of one that has expired.
ExtendLock(u) ==
    /\ client[u] = "holding" /\ holder = u
    /\ overdue' = FALSE
    /\ UNCHANGED <<holder, client, election, swept, early>>

----------------------------------------------------------------------------
Elects(c, e) == election' = [election EXCEPT ![c] = e]

\* electLeader: tryAcquire up to its await.
ElectLeader(c) ==
    /\ election[c].tried = "no"
    /\ IF Available THEN GrantedTo(c) /\ Elects(c, [election[c] EXCEPT !.tried = "got"])
       ELSE UNCHANGED <<holder, overdue>> /\ Elects(c, [election[c] EXCEPT !.tried = "not"])
    /\ UNCHANGED <<client, swept, early>>

\* tryAcquire goes on: with a handle the candidate leads and renews.
TryAcquireGoesOn(c) ==
    /\ election[c].tried \in {"got", "not"}
    /\ LET got == election[c].tried = "got"
       IN  Elects(c, [election[c] EXCEPT !.tried = "done", !.handle = got,
                                         !.leader = got, !.armed = got])
    /\ UNCHANGED <<holder, overdue, client, swept, early>>

\* The timer renews: extend answers.
Renew(c) ==
    /\ TurnOver /\ election[c].armed
    /\ IF holder = c THEN overdue' = FALSE /\ UNCHANGED election
       ELSE UNCHANGED overdue /\ Elects(c, [election[c] EXCEPT !.renew = "lost"])
    /\ UNCHANGED <<holder, client, swept, early>>

Deposed(c) ==
    /\ election[c].renew = "lost"
    /\ Elects(c, [election[c] EXCEPT !.renew = "none", !.leader = FALSE, !.armed = FALSE])
    /\ UNCHANGED <<holder, overdue, client, swept, early>>

\* A second resign is left out where it would change nothing.
MayResign(c) ==
    /\ election[c].tried # "no"
    /\ \/ election[c].resign = "none"
       \/ election[c].resign = "done" /\ election[c].leader

\* resign, also a second time: it clears the timer and, with a handle,
\* releases, and only the step after that takes the flag back.
ResignLead(c) ==
    /\ MayResign(c)
    /\ IF election[c].handle
       THEN Drop(c) /\ Elects(c, [election[c] EXCEPT !.armed = FALSE, !.resign = "released"])
       ELSE UNCHANGED <<holder, overdue>>
            /\ Elects(c, [election[c] EXCEPT !.armed = FALSE, !.resign = "done"])
    /\ early' = IF election[c].tried = "got" THEN early \cup {c} ELSE early
    /\ UNCHANGED <<client, swept>>

ResignGoesOn(c) ==
    /\ election[c].resign = "released"
    /\ Elects(c, [election[c] EXCEPT !.leader = FALSE, !.resign = "done"])
    /\ UNCHANGED <<holder, overdue, client, swept, early>>

----------------------------------------------------------------------------
\* The clock: expiresAt is reached.
LockExpired ==
    /\ holder # Nobody /\ ~overdue /\ overdue' = TRUE
    /\ UNCHANGED <<holder, client, election, swept, early>>

\* evictExpired of the cleanup timer.
EvictExpired ==
    /\ swept /\ overdue /\ TurnOver /\ Gone
    /\ UNCHANGED <<client, election, swept, early>>

\* shutdown: the locks are cleared, elections and waiting clients go on.
ShutdownLock ==
    /\ swept /\ swept' = FALSE /\ Gone
    /\ UNCHANGED <<client, election, early>>

LockNext ==
    \/ \E u \in Clients : AcquireLock(u) \/ RetryAcquire(u) \/ ReleaseLock(u) \/ ExtendLock(u)
    \/ \E c \in LockCandidates :
          \/ ElectLeader(c) \/ TryAcquireGoesOn(c) \/ Renew(c) \/ Deposed(c)
          \/ ResignLead(c) \/ ResignGoesOn(c)
    \/ LockExpired \/ EvictExpired \/ ShutdownLock

LockSpec == LockInit /\ [][LockNext]_lockvars

\* The event loop runs what is pending, and the timers.
LockFairness ==
    /\ \A c \in LockCandidates :
          WF_lockvars(TryAcquireGoesOn(c)) /\ WF_lockvars(Renew(c) /\ holder # c)
          /\ WF_lockvars(Deposed(c)) /\ WF_lockvars(ResignGoesOn(c))
    /\ \A u \in Clients : WF_lockvars(RetryAcquire(u))

----------------------------------------------------------------------------
\* A candidate that has lost the lock and still shows isLeader has something
\* pending that will tell it: its renewal timer, or the end of a resign.
StaleLeaderLearns ==
    \A c \in LockCandidates : election[c].leader /\ holder # c =>
        election[c].armed \/ election[c].resign = "released"

\* Leaders are never two for good: one that has lost the lock is deposed.
StaleLeaderDeposed ==
    \A c \in LockCandidates : []<>~(election[c].leader /\ holder # c)

\* A candidate that has resigned leads, and renews its lock, only if it resigned
\* before its election had its handle.
ResignedLeadsIfEarly ==
    \A c \in LockCandidates :
        election[c].resign = "done" /\ (election[c].leader \/ election[c].armed \/ holder = c) => c \in early

\* Nobody loses a lock that has not expired, but by its own release or resign,
\* or by shutdown.
LockStands ==
    [][holder # Nobody /\ ~overdue /\ holder' # holder =>
          \/ swept /\ ~swept'
          \/ holder \in Clients /\ client'[holder] = "released"
          \/ holder \in LockCandidates /\ election'[holder].resign = "released"]_lockvars

\* The lock and its leader agree, but for a resign that came early.
LockKeeps == []StaleLeaderLearns /\ []ResignedLeadsIfEarly /\ LockStands
=============================================================================
