SPECIFICATION LiveSpec
CONSTANTS
    Calls = {c1, c2, c3}
    FailureThreshold = 2
    SuccessThreshold = 2
    HalfOpenMaxCalls = 1
PROPERTY HalfOpenEnds
