CONSTANTS
    ThrottleDecisions = {0, 2, 3}
    Works <- MCWorks
    HintTimeout = 2
    UninitStats <- MCZeroStats
    WallStart = 1
    WallJumps = {2}
    MaxTime = 5
    MaxJumps = 1
    MaxRuns = 4

SPECIFICATION Spec
INVARIANT TypeOK
INVARIANT WorkCreditedAfterFirstRun
INVARIANT HoldingTimeCapped
INVARIANT RunningFractionInRange
\* The loop's bounds run out: time stops at MaxTime and starts at MaxRuns.
CHECK_DEADLOCK FALSE
