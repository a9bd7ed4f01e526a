SPECIFICATION LiveSpec
CONSTANTS
    MaxMsgs = 2
    MaxSubs = 2
    MaxReplays = 1
    Consumers = {c1, c2}
    Priorities <- MCPriorities
    Keys = {k1}
    NoKey = NoKey
    MaxAttempts <- MCMaxAttempts
INVARIANT TypeOK
INVARIANT SingleDelivery
INVARIANT DuplicateOnlyByReplay
PROPERTY RetriesEnd
PROPERTY ImplementsContract
PROPERTY Drains
