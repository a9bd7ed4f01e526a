SPECIFICATION SuiteSpec
CONSTANTS
    Calls = {c1, c2, c3}
    Amounts = {0, 1}
    Limits = {0, 2}
    LastWindow = 1
    Miss = Miss
    q1 = q1
    Requests = {q1, c1, c2, c3}
    KindsOf <- MCKindsOf
    Stacks <- MCStacks
    Limit = 2
    Window = 2
    MaxNow = 2
    KeyIds = {k1, k2}
    KeyCalls = {c1, c2, c3}
    NoKeyId = NoKeyId
    Keys = {r1, r2}
    Callers = {c1, c2, c3}
    Seed = seed
    CacheCalls = {c1, c2, c3}
    MaxLives = 2
    p1 = p1
    p2 = p2
    p3 = p3
    a = a
    b = b
    PolicyIds = {p1, p2, p3}
    Users = {a, b}
    AppliesTo <- MCAppliesTo
    Loaders = {l1}
    PageLimit = 2
    MaxStarts = 2
SYMMETRY MCSymmetry
INVARIANT SuiteTypeOK
INVARIANT WithinLimit
INVARIANT DenialGenuine
INVARIANT BooksTrue
INVARIANT RequestsGuarded
INVARIANT CountersHold
PROPERTY LossOnlyUnderOverlap
PROPERTY AccessHolds
CHECK_DEADLOCK FALSE
