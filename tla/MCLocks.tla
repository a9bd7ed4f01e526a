------------------------------ MODULE MCLocks ------------------------------
(* The instances of LeaderElection and MemoryLock, the Redis and the        *)
(* in-memory lock.  A behaviour is one of a single one, the other keeps its *)
(* initial state.                                                           *)
EXTENDS MCLeaderElection, MemoryLock

VARIABLE part       \* the component this behaviour is about

suitevars == <<part, vars, lockvars>>

SuiteInit == part \in {"redis", "memory"} /\ Init /\ LockInit

SuiteNext ==
    /\ UNCHANGED part
    /\ \/ part = "redis" /\ Next /\ UNCHANGED lockvars
       \/ part = "memory" /\ LockNext /\ UNCHANGED vars

\* The fairness of the lock the behaviour is about.
SuiteSpec ==
    /\ SuiteInit /\ [][SuiteNext]_suitevars
    /\ \A c \in Candidates :
          /\ WF_vars(part = "redis" /\ \E i \in Slots(c) : Tick(c, i))
          /\ \A i \in Slots(c) : WF_vars(part = "redis" /\ (Redis(c, i) \/ Resume(c, i)))
          /\ WF_vars(part = "redis" /\ (Released(c) \/ ResignDone(c)))
    /\ WF_vars(part = "redis" /\ Expire /\ late' = late)
    /\ \A c \in LockCandidates :
          /\ WF_lockvars(part = "memory" /\ TryAcquireGoesOn(c))
          /\ WF_lockvars(part = "memory" /\ Renew(c) /\ holder # c)
          /\ WF_lockvars(part = "memory" /\ Deposed(c))
          /\ WF_lockvars(part = "memory" /\ ResignGoesOn(c))
    /\ \A u \in Clients : WF_lockvars(part = "memory" /\ RetryAcquire(u))

----------------------------------------------------------------------------
SuiteTypeOK == TypeOK /\ LockTypeOK

\* A leader that has lost the lock gives way, on Redis and in memory.
LosersStepDown == StepsDown /\ StaleLeaderDeposed
=============================================================================
