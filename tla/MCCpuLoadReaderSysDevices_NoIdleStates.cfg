CONSTANTS
    Cores = {0, 1}
    States = {"state0", "state1"}
    Listing <- MCListingNoTime
    HasTime = {}
    UninitIdle = {0}
    WallJumps = {}
    MaxJumps = 0
    MaxTime = 3
SPECIFICATION Spec
INVARIANT FoundIdleStates
CHECK_DEADLOCK FALSE
