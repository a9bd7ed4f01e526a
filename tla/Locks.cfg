SPECIFICATION SuiteSpec
CONSTANTS
    a = a
    b = b
    Candidates = {a, b}
    Throwing = {b}
    MaxTasks = 2
    Tasks <- MCTasks
    Tokens = {t1, t2, t3}
    Free = Free
    LockCandidates = {a, b}
    Clients = {u1, u2}
    Nobody = Nobody
INVARIANT SuiteTypeOK
INVARIANT LeaderSafe
PROPERTY LosersStepDown
PROPERTY LeaderEmerges
PROPERTY LockKeeps
CHECK_DEADLOCK FALSE
