SPECIFICATION SuiteSpec
CONSTANTS
    i1 = i1
    i2 = i2
    s1 = s1
    s2 = s2
    s3 = s3
    Instances = {i1, i2}
    Definition <- MCDefinition
    Signals = {s1, s2, s3}
    Target <- MCTarget
    None = None
    r1 = r1
    r2 = r2
    r3 = r3
    a1 = a1
    a2 = a2
    RuntimeIds = {r1, r2, r3}
    Agents = {a1, a2}
    AgentOf <- MCAgentOf
    Modes = {"none", "allowlist"}
    Handoffs = {h1}
    HandoffCalls = {e1, e2, e3}
    AtomicUpdates = {TRUE, FALSE}
    Transitions <- TaskTransitions
    InitialState = "pending"
    TerminalStates = {"completed", "killed"}
    Guarded <- MCGuarded
    Acting <- MCActing
    Senders = {p1, p2}
    MaxHistory = 6
    TaskIds = {x1}
    Cancels = {n1, n2}
    EntryKeys = {1, 2}
    Setters = {w1, w2}
    Finders = {g1}
    PageSize = 1
    Stored = 2
    MaxEntries = 3
    MaxMillis = 1
INVARIANT SuiteTypeOK
INVARIANT CompletedInFull
PROPERTY ProgressStands
PROPERTY Settles
PROPERTY PodsConfined
PROPERTY HandoffsEndOnce
PROPERTY MachineTrue
PROPERTY TasksKept
PROPERTY ScansTrue
CHECK_DEADLOCK FALSE
