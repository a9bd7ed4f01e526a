SPECIFICATION SuiteSpec
CONSTANTS
    Keys = {k1, k2}
    Stable = {k1}
    Callers = {u1, u2, u3}
    Seed = seed
    Calls = {c1, c2, c3, c4, c5}
    FailureThreshold = 2
    SuccessThreshold = 2
    HalfOpenMaxCalls = 3
    MaxRegistrations = 2
    MaxTriggers = 2
    Boots = {o1, o2}
    Stops = {t1, t2}
    Configs <- MCConfigs
    NoInstance = NoInstance
    MaxEvents = 4
    TenantOf <- MCTenantOf
    SinkSets <- MCSinkSets
    BatchSize = 3
    MaxSendRetries = 1
    MaxSubscribers = 3
    MaxPublished = 2
    MaxDrops = 1
    Servers = {v1, v2, v3}
    LastVersion = 2
INVARIANT SuiteTypeOK
INVARIANT CascadeObeys
INVARIANT StartsKept
INVARIANT EventsKept
PROPERTY UpdatesAtomic
PROPERTY ImplementsContract
PROPERTY BreakerSound
PROPERTY BusDelivers
PROPERTY EachEnds
CHECK_DEADLOCK FALSE
