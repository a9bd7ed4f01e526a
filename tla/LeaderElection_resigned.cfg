SPECIFICATION LiveSpec
CONSTANTS
    a = a
    b = b
    Candidates = {a, b}
    Throwing = {b}
    MaxTasks = 2
    Tasks <- MCTasks
    Tokens = {t1, t2, t3}
    Free = Free
PROPERTY LostLockStepsDown
CHECK_DEADLOCK FALSE
