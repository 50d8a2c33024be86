CONSTANTS
    ThrottleDecisions = {0, 2, 3}
    Producers = {p1}
    Batches <- MCBatches
    MaxUnprocessedBatches = 1
    StoreValues <- MCStoreValues
    DefaultConfig <- MCDefaultConfig
    IterationSleepMin = 1
    UninitHintTimes = {0, 5}
    UninitStats <- MCUninitStats
    WallJumps = {}
    MaxTime = 2
    MaxJumps = 0
    MaxHints = 2
    MaxReports = 3

SPECIFICATION Spec
INVARIANT ReloadRequestNotLost
CHECK_DEADLOCK FALSE
