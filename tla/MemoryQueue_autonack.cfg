SPECIFICATION LiveSpec
CONSTANTS
    MaxMsgs = 1
    MaxSubs = 1
    MaxReplays = 1
    Consumers = {c1}
    Priorities <- MCPriorities
    Keys = {}
    NoKey = NoKey
    MaxAttempts <- MCOneRetry
PROPERTY AutoNack
