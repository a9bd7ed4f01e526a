----------------------------- MODULE MCPlatform -----------------------------
(* The instances of PostgresStorage, CircuitBreaker, CascadeKill, Bootstrap, *)
(* AuditPipeline, EventBuses and Migrations, which share no state.  A         *)
(* behaviour is one of a single component, the others keep one of their      *)
(* initial states.                                                           *)
EXTENDS PostgresStorage, CircuitBreaker, CascadeKill, MCBootstrap, AuditPipeline, EventBuses,
        Migrations

\* Besides the in-memory defaults, one of every other kind.
MCEnterprise == [MCSmall EXCEPT
    !["storage"] = "postgres", !["lock"] = "redis", !["identityProvider"] = "oidc",
    !["policyEngine"] = "rbac", !["quotaManager"] = "storage"]

MCConfigs == {MCSmall, MCEnterprise}

MCTenantOf == <<"t1", "t2", "t1", "t2">>

MCSinkSets == {{"storage", "log"}, {"bus"}, {"webhook"}}

VARIABLE part       \* the component this behaviour is about

suitevars == <<part, pvars, vars, cascadevars, bootvars, auditvars, busvars, migrationvars>>

SuiteInit ==
    /\ part \in {"storage", "breaker", "cascade", "bootstrap", "audit", "bus", "migrations"}
    /\ PInit /\ Init /\ CascadeInit
    /\ BootInit /\ (part # "bootstrap" => \A i \in Boots : boot[i].config = MCSmall)
    /\ AuditInit /\ (part # "audit" => sinks = {"bus"})
    /\ BusInit /\ (part # "bus" => bus = "memory")
    /\ MigrationInit /\ (part # "migrations" => \A p \in Servers : server[p].release = 1)

SuiteNext ==
    /\ UNCHANGED part
    /\ \/ /\ part = "storage" /\ PNext
          /\ UNCHANGED <<vars, cascadevars, bootvars, auditvars, busvars, migrationvars>>
       \/ /\ part = "breaker" /\ Next
          /\ UNCHANGED <<pvars, cascadevars, bootvars, auditvars, busvars, migrationvars>>
       \/ /\ part = "cascade" /\ CascadeNext
          /\ UNCHANGED <<pvars, vars, bootvars, auditvars, busvars, migrationvars>>
       \/ /\ part = "bootstrap" /\ BootNext
          /\ UNCHANGED <<pvars, vars, cascadevars, auditvars, busvars, migrationvars>>
       \/ /\ part = "audit" /\ AuditNext
          /\ UNCHANGED <<pvars, vars, cascadevars, bootvars, busvars, migrationvars>>
       \/ /\ part = "bus" /\ BusNext
          /\ UNCHANGED <<pvars, vars, cascadevars, bootvars, auditvars, migrationvars>>
       \/ /\ part = "migrations" /\ MigrationNext
          /\ UNCHANGED <<pvars, vars, cascadevars, bootvars, auditvars, busvars>>

\* The fairness of the component the behaviour is about.
SuiteSpec ==
    /\ SuiteInit /\ [][SuiteNext]_suitevars
    /\ \A c \in Callers :
          /\ WF_pvars(part = "storage" /\ Statement(c))
          /\ WF_pvars(part = "storage" /\ Deadlocked(c) /\ Abort(c))
    /\ \A c \in Calls :
          /\ WF_vars(part = "breaker" /\ (Succeed(c) \/ Fail(c)))
          /\ WF_vars(part = "breaker" /\ Enter(c))
    /\ WF_cascadevars(part = "cascade" /\ \E t \in pending : FireTimer(t))
    /\ WF_cascadevars(part = "cascade" /\ \E t \in calling :
                          StageEnds(t) \/ KillEnds(t) \/ CallbackThrows(t))
    /\ \A i \in Boots : WF_bootvars(part = "bootstrap" /\ BootStep(i))
    /\ \A s \in Stops : WF_bootvars(part = "bootstrap" /\ StopStep(s))
    /\ WF_auditvars(part = "audit" /\ TimerFlush)
    /\ WF_auditvars(part = "audit" /\ \E w \in writes : StoreBatch(w) \/ PublishNext(w) \/ Post(w))
    /\ WF_busvars(part = "bus" /\ HandlerCalled) /\ WF_busvars(part = "bus" /\ HandedOut)
    /\ \A s \in Subscribers : WF_busvars(part = "bus" /\ OnceTimer(s))

----------------------------------------------------------------------------
SuiteTypeOK ==
    /\ PTypeOK /\ TypeOK /\ CascadeTypeOK /\ BootTypeOK /\ AuditTypeOK /\ BusTypeOK
    /\ MigrationTypeOK

\* What starts and stops leave behind, in the process and in the database.
StartsKept == InstancesKept /\ MigrationsHold

\* What has begun ends: storage calls, half-open episodes, cascades, starts and
\* stops, the stay in the audit buffer and the promises of once.
EachEnds ==
    CallsSettle /\ HalfOpenEnds /\ CascadeEnds /\ CallsEnd /\ FlushedWhenStarted /\ OnceEnds
=============================================================================
