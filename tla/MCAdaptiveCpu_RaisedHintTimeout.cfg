CONSTANTS
    ThrottleDecisions = {0, 2}
    Producers = {p1}
    Batches <- MCBatches
    MaxUnprocessedBatches = 1
    StoreValues <- MCStoreValuesRaised
    DefaultConfig <- MCDefaultConfig
    IterationSleepMin = 1
    UninitHintTimes = {0}
    UninitStats <- MCUninitStats
    WallJumps = {}
    MaxTime = 3
    MaxJumps = 0
    MaxHints = 2
    MaxReports = 2

SPECIFICATION Spec
PROPERTY ThrottleInForce
CHECK_DEADLOCK FALSE
