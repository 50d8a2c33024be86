CONSTANTS
    ThrottleDecisions = {0, 2, 3}
    Producers = {p1}
    Batches <- MCBatches
    MaxUnprocessedBatches = 1
    StoreValues <- MCStoreValuesGood
    DefaultConfig <- MCDefaultConfig
    IterationSleepMin = 1
    UninitHintTimes = {0, 5}
    UninitStats <- MCUninitStats
    WallJumps = {}
    MaxTime = 5
    MaxJumps = 0
    MaxHints = 2
    MaxReports = 3

SPECIFICATION Spec
INVARIANT StatsAttribution
CHECK_DEADLOCK FALSE
