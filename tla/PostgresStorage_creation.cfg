SPECIFICATION UpdatesSpec
CONSTANTS
    Keys = {k1}
    Stable = {}
    Callers = {u1, u2}
    Seed = seed
PROPERTY UpdateAppliesToLatest
CHECK_DEADLOCK FALSE
