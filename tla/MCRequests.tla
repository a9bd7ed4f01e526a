----------------------------- MODULE MCRequests -----------------------------
(* The instances of what serves a request: TokenQuota, RequestPipeline,      *)
(* ApiKeys, RbacPolicies, MemoryStorage and Caches, all checked for safety.  *)
(* They share no state: a behaviour is one of a single component, the others *)
(* keep one of their initial states.                                         *)
EXTENDS TokenQuota, MCRequestPipeline, ApiKeys, RbacPolicies, MemoryStorage, Caches,
        FiniteSetsExt, TLC

CONSTANTS p1, p2, p3, a, b

VARIABLE part       \* the component this behaviour is about

suitevars == <<part, vars, pipelinevars, keyvars, policyvars, mvars, cachevars>>

SuiteInit ==
    /\ part \in {"quota", "pipeline", "keys", "policies", "storage", "cache"}
    /\ Init /\ PolicyInit
    /\ PipelineInit /\ MCAdmins /\ (part # "pipeline" => stack[1] = "audit" /\ req[q1].kind.role = "admin")
    /\ KeysInit /\ (part # "keys" => atomic /\ indexed = {})
    /\ MInit /\ (part # "storage" => row = [k \in Keys |-> Absent])
    /\ CacheInit /\ (part # "cache" => cacheBackend = "memory")

SuiteNext ==
    /\ UNCHANGED part
    /\ \/ /\ part = "quota" /\ Next
          /\ UNCHANGED <<pipelinevars, keyvars, policyvars, mvars, cachevars>>
       \/ /\ part = "pipeline" /\ PipelineNext
          /\ UNCHANGED <<vars, keyvars, policyvars, mvars, cachevars>>
       \/ /\ part = "keys" /\ KeysNext
          /\ UNCHANGED <<vars, pipelinevars, policyvars, mvars, cachevars>>
       \/ /\ part = "policies" /\ PolicyNext
          /\ UNCHANGED <<vars, pipelinevars, keyvars, mvars, cachevars>>
       \/ /\ part = "storage" /\ MNext
          /\ UNCHANGED <<vars, pipelinevars, keyvars, policyvars, cachevars>>
       \/ /\ part = "cache" /\ CacheNext
          /\ UNCHANGED <<vars, pipelinevars, keyvars, policyvars, mvars>>

SuiteSpec == SuiteInit /\ [][SuiteNext]_suitevars

----------------------------------------------------------------------------
\* A policy for everyone and one for each of the users.
MCAppliesTo == (p1 :> {a, b}) @@ (p2 :> {a}) @@ (p3 :> {b})

\* Unless updates raced, the usage of a window is the sum of its charges.
ChargesAddUp ==
    \A w \in Windows \ raced :
        used[w] = MapThenSumSet(LAMBDA c : call[c].amount, {c \in charged : call[c].win = w})

\* The books of the quota: the windows hold what was charged, the cache agrees.
BooksTrue == ChargesAddUp /\ CacheExact

\* Whom the keys and the policies let in: no key that has been revoked or
\* replaced, and no decision but those of the policies.
AccessHolds == RevocationHolds /\ DecisionsStand

SuiteTypeOK ==
    TypeOK /\ PipelineTypeOK /\ KeysTypeOK /\ PolicyTypeOK /\ MTypeOK
    /\ CacheTypeOK

\* The calls of every component and the requests but q1, which are named alike.
MCSymmetry == Permutations(Calls)
=============================================================================
