CONSTANTS
    ThrottleDecisions = {0, 2, 3}
    Producers = {p1}
    Batches <- MCBatches
    MaxUnprocessedBatches = 1
    StoreValues <- MCStoreValuesGood
    DefaultConfig <- MCDefaultConfig
    IterationSleepMin = 1
    UninitHintTimes = {0, 5}
    UninitStats <- MCUninitStats
    WallJumps <- MCWallJumpsBack
    MaxTime = 5
    MaxJumps = 1
    MaxHints = 1
    MaxReports = 3

SPECIFICATION Spec
PROPERTY ThrottleInForce
CHECK_DEADLOCK FALSE
