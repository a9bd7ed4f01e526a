SPECIFICATION RedisLiveSpec
CONSTANTS
    Offers <- MCOffers
    JobKeys <- MCJobKeys
    NoJobKey = "none"
    MaxWorkers = 2
    Concurrency = 1
    Kept = 1
    MaxRetries <- MCRetries
    MaxStalled = 1
INVARIANT RedisTypeOK
PROPERTY RunsAccounted
PROPERTY JobsSettle
CHECK_DEADLOCK FALSE
