CONSTANTS
    ThrottleDecisions = {0, 2, 3}
    Producers = {p1}
    Batches <- MCBatches
    MaxUnprocessedBatches = 1
    StoreValues <- MCStoreValuesLongSleep
    DefaultConfig <- MCDefaultConfig
    IterationSleepMin = 1
    UninitHintTimes = {0, 5}
    UninitStats <- MCUninitStats
    WallJumps = {2}
    MaxTime = 5
    MaxJumps = 1
    MaxHints = 2
    MaxReports = 3

SPECIFICATION Spec
INVARIANT ClampHeldWhileSleeping
CHECK_DEADLOCK FALSE
VIEW ControlView
