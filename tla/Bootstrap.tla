----------------------------- MODULE Bootstrap -----------------------------
(***************************************************************************)
(* bootstrapEnterprise and shutdownEnterprise (src/bootstrap.ts) over       *)
(* bootstrapKernel and shutdownKernel (src/src/kernel/bootstrap.ts): a      *)
(* start initializes the kernel's backends at once, then the modules'       *)
(* services at once, and publishes the instance in activeModules; a stop    *)
(* takes it from there and shuts down services and backends.  Nothing keeps *)
(* two calls apart.                                                         *)
(*                                                                          *)
(* A local part is initialized in the step that makes it; a remote one      *)
(* connects, reads storage, discovers or loads a file, and may fail.  The    *)
(* quota manager (token-quota.ts) initializes and shuts down the kernel's    *)
(* storage and cache a second time: the pool and the timer of the first time *)
(* are lost, and a Redis client that is connected refuses.                   *)
(***************************************************************************)
EXTENDS FiniteSets

CONSTANTS
    Boots,          \* the calls of bootstrapEnterprise, each once
    Stops,          \* the calls of shutdownEnterprise, each once
    Configs,        \* configurations: which backend each part gets
    NoInstance      \* activeModules = null

Kernel == {"storage", "queue", "cache", "secret", "eventBus", "lock"}

\* What resolveGovernance .. resolveReliability make, where config asks for it,
\* and shutdownEnterprise shuts down.
Governance    == {"identityProvider", "policyEngine", "quotaManager"}
Collaboration == {"workflowEngine", "handoffManager", "knowledgeStore"}
Embedding     == {"rateLimiter", "apiKeyManager"}
Isolation     == {"runtimeBackend"}
Reliability   == {"checkpointManager"}
Services      == Governance \cup Collaboration \cup Embedding \cup Isolation \cup Reliability

\* The backends that the resolvers know, the default one first named.
BackendsOf(part) ==
    CASE part = "storage"          -> {"memory", "postgres"}
      [] part \in {"queue", "cache", "eventBus", "lock"} -> {"memory", "redis"}
      [] part = "identityProvider" -> {"token", "oidc", "null"}
      [] part = "policyEngine"     -> {"scope", "rbac", "null"}
      [] part = "quotaManager"     -> {"storage", "null"}
      [] part = "runtimeBackend"   -> {"inprocess", "docker", "kubernetes"}
      [] OTHER                     -> {"only"}

ASSUME BootstrapAssumption ==
    /\ NoInstance \notin Boots
    /\ \A c \in Configs : DOMAIN c = Kernel \cup Services /\ \A p \in DOMAIN c : c[p] \in BackendsOf(p)

VARIABLES
    activeModules,  \* the instance that is published, named after its call
    boot,           \* the calls of bootstrapEnterprise
    alive,          \* the parts of each instance that are initialized
    stop,           \* the calls of shutdownEnterprise
    lost,           \* the backends whose first pool or timer nobody holds
    overtaken,      \* auxiliary: instances published over
    outage          \* auxiliary: calls in which something outside failed

bootvars == <<activeModules, boot, alive, stop, lost, overtaken, outage>>

Made(c) == {p \in DOMAIN c : c[p] # "null"}

\* The parts that use the storage of the kernel when they are initialized.
Reading(c) == {"workflowEngine", "quotaManager"} \cup
              (IF c["policyEngine"] = "rbac" THEN {"policyEngine"} ELSE {})

\* The initialization of the quota manager is refused by the cache.
Refused(c, p) == p = "quotaManager" /\ c["cache"] = "redis"

Remote(c, parts) ==
    {p \in parts \cap Made(c) :
        \/ c[p] \in {"postgres", "redis", "oidc", "kubernetes"} \/ Refused(c, p)
        \/ c["storage"] = "postgres" /\ p \in Reading(c)}

\* The backends whose second initialize makes a pool or a timer that takes the
\* place of the first.
Holding == [storage |-> "postgres", cache |-> "memory"]

Doubled(c, parts) ==
    {q \in DOMAIN Holding : "quotaManager" \in parts /\ c[q] = Holding[q]}

\* resolveGovernance and resolveCollaboration make their parts one after the
\* other: those that wait for p.
After(p) ==
    CASE p = "identityProvider" -> {"policyEngine", "quotaManager"}
      [] p = "policyEngine" -> {"quotaManager"}
      [] p = "workflowEngine" -> {"handoffManager", "knowledgeStore"}
      [] OTHER -> {}

\* The parts that are not initialized in the step that begins with them.
Awaited(c, parts) ==
    (Remote(c, parts) \cup UNION {After(p) : p \in Remote(c, parts)}) \cap Made(c)

Boot == [config : Configs, pending : SUBSET (Kernel \cup Services),
         at : {"idle", "kernel", "modules", "returned", "shared", "rejected"}]

BootTypeOK ==
    /\ activeModules \in Boots \cup {NoInstance}
    /\ \A b \in Boots : boot[b] \in Boot /\ alive[b] \subseteq Made(boot[b].config)
    /\ \A s \in Stops : stop[s].at \in {"idle", "services", "kernel", "done"}
                        /\ stop[s].of \in Boots \cup {NoInstance}
    /\ lost \in [Boots -> SUBSET {"storage", "cache"}]
    /\ overtaken \subseteq Boots /\ outage \subseteq Boots

BootInit ==
    /\ activeModules = NoInstance
    /\ boot \in [Boots -> [config : Configs, pending : {{}}, at : {"idle"}]]
    /\ alive = [b \in Boots |-> {}]
    /\ stop = [s \in Stops |-> [at |-> "idle", of |-> NoInstance]]
    /\ lost = [b \in Boots |-> {}]
    /\ overtaken = {} /\ outage = {}

----------------------------------------------------------------------------
\* Parts are made: the local ones are initialized, the remote ones begin to.
Makes(b, parts, at) ==
    /\ LET c == boot[b].config
           local == (parts \cap Made(c)) \ Awaited(c, parts)
       IN  /\ alive' = [alive EXCEPT ![b] = @ \cup local]
           /\ lost' = [lost EXCEPT ![b] = @ \cup Doubled(c, local)]
           /\ boot' = [boot EXCEPT ![b].at = at, ![b].pending = Awaited(c, parts)]

\* bootstrapEnterprise of an enabled configuration, up to its first await.
BootstrapEnterprise(b) ==
    /\ boot[b].at = "idle"
    /\ IF activeModules # NoInstance
       THEN boot' = [boot EXCEPT ![b].at = "shared"] /\ UNCHANGED <<alive, lost>>
       ELSE Makes(b, Kernel, "kernel")
    /\ UNCHANGED <<activeModules, stop, overtaken, outage>>

MayInitialize(b, p) == p \in boot[b].pending /\ \A q \in boot[b].pending : p \notin After(q)

\* One initialize of Promise.all resolves, also when another has rejected.
PartReady(b, p) ==
    /\ MayInitialize(b, p) /\ ~Refused(boot[b].config, p)
    /\ alive' = [alive EXCEPT ![b] = @ \cup {p}]
    /\ lost' = [lost EXCEPT ![b] = @ \cup Doubled(boot[b].config, {p})]
    /\ boot' = [boot EXCEPT ![b].pending = @ \ {p}]
    /\ UNCHANGED <<activeModules, stop, overtaken, outage>>

\* It rejects, and with it Promise.all: nobody shuts down what is initialized.
PartFails(b, p) ==
    /\ MayInitialize(b, p) /\ p \in Remote(boot[b].config, {p})
    /\ boot' = [boot EXCEPT ![b].at = "rejected", ![b].pending = @ \ ({p} \cup After(p))]
    /\ lost' = [lost EXCEPT ![b] = @ \cup (Doubled(boot[b].config, {p}) \ {"cache"})]
    /\ outage' = IF Refused(boot[b].config, p) THEN outage ELSE outage \cup {b}
    /\ UNCHANGED <<activeModules, alive, stop, overtaken>>

\* bootstrapKernel returns, and the modules are resolved.
KernelReady(b) ==
    /\ boot[b].at = "kernel" /\ boot[b].pending = {}
    /\ Makes(b, Services, "modules")
    /\ UNCHANGED <<activeModules, stop, overtaken, outage>>

\* The instance is published, whatever was published or stopped in between.
ModulesReady(b) ==
    /\ boot[b].at = "modules" /\ boot[b].pending = {}
    /\ boot' = [boot EXCEPT ![b].at = "returned"]
    /\ activeModules' = b
    /\ overtaken' = overtaken \cup ({activeModules} \ {NoInstance})
    /\ UNCHANGED <<alive, stop, lost, outage>>

----------------------------------------------------------------------------
\* shutdownEnterprise takes the instance, if one is published yet.
ShutdownEnterprise(s) ==
    /\ stop[s].at = "idle"
    /\ stop' = [stop EXCEPT ![s] = [at |-> IF activeModules = NoInstance THEN "done" ELSE "services",
                                    of |-> activeModules]]
    /\ activeModules' = NoInstance
    /\ UNCHANGED <<boot, alive, lost, overtaken, outage>>

\* Mutant: the quota manager is forgotten, and with it its backends.
ServicesDownButQuota(s) ==
    /\ stop[s].at = "services"
    /\ alive' = [alive EXCEPT ![stop[s].of] = @ \ (Services \ {"quotaManager"})]
    /\ stop' = [stop EXCEPT ![s].at = "kernel"]
    /\ UNCHANGED <<activeModules, boot, lost, overtaken, outage>>

\* allSettled of the services, and then of the backends: the quota manager shuts
\* down the storage and the cache already.
ServicesDown(s) ==
    /\ stop[s].at = "services"
    /\ alive' = [alive EXCEPT ![stop[s].of] = @ \
                     (Services \cup IF "quotaManager" \in @ THEN {"storage", "cache"} ELSE {})]
    /\ stop' = [stop EXCEPT ![s].at = "kernel"]
    /\ UNCHANGED <<activeModules, boot, lost, overtaken, outage>>

KernelDown(s) ==
    /\ stop[s].at = "kernel"
    /\ alive' = [alive EXCEPT ![stop[s].of] = @ \ Kernel]
    /\ stop' = [stop EXCEPT ![s].at = "done"]
    /\ UNCHANGED <<activeModules, boot, lost, overtaken, outage>>

BootStep(b) ==
    \/ KernelReady(b) \/ ModulesReady(b)
    \/ \E p \in Kernel \cup Services : PartReady(b, p) \/ PartFails(b, p)

StopStep(s) == ServicesDown(s) \/ KernelDown(s)

BootNext ==
    \/ \E b \in Boots : BootstrapEnterprise(b) \/ BootStep(b)
    \/ \E s \in Stops : ShutdownEnterprise(s) \/ StopStep(s)

BootSpec == BootInit /\ [][BootNext]_bootvars

\* Initializations and shutdowns settle, and the calls go on.
BootFairness ==
    /\ \A b \in Boots : WF_bootvars(BootStep(b))
    /\ \A s \in Stops : WF_bootvars(StopStep(s))

----------------------------------------------------------------------------
\* What getEnterpriseModules returns is whole: every part that the configuration
\* asks for is initialized and none has been shut down.
ActiveIsWhole ==
    activeModules # NoInstance =>
        alive[activeModules] = Made(boot[activeModules].config)

\* When no call is under way, what runs is the published instance, apart from
\* instances published over by an overlapping start and from the remains of
\* rejected starts; what is lost was lost to a quota manager.
NothingLeftBehind ==
    /\ \A b \in Boots : boot[b].at \notin {"kernel", "modules"} /\ boot[b].pending = {}
    /\ \A s \in Stops : stop[s].at \in {"idle", "done"}
    => \A b \in Boots :
           /\ alive[b] # {} => b = activeModules \/ b \in overtaken \/ boot[b].at = "rejected"
           /\ lost[b] # {} => "quotaManager" \in Made(boot[b].config)

\* An instance that a stop has taken is not published again.  A stop that comes
\* while a start is under way takes nothing, and the start publishes after it.
StopIsFinal ==
    \A s \in Stops, b \in Boots :
        stop[s].of = b /\ stop[s].of # NoInstance => activeModules # b

\* Instances through overlapping starts and stops, failures included.
InstancesKept == ActiveIsWhole /\ NothingLeftBehind /\ StopIsFinal

\* No start and no stop is under way for ever.
CallsEnd ==
    /\ \A b \in Boots : []<>(boot[b].at \notin {"kernel", "modules"})
    /\ \A s \in Stops : []<>(stop[s].at \notin {"services", "kernel"})

\* A configuration of the README starts, unless something outside fails.
StartsUnlessOutage == \A b \in Boots : boot[b].at = "rejected" => b \in outage
=============================================================================
