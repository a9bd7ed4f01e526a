SPECIFICATION BootSpec
CONSTANTS
    Boots = {o1}
    Stops = {t1}
    Configs <- MCFullOnly
    NoInstance = NoInstance
INVARIANT StartsUnlessOutage
CHECK_DEADLOCK FALSE
