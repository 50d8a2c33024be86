CONSTANTS
    Cores = {0, 1}
    States = {"state0", "state1"}
    Listing <- MCListing
    HasTime = {"state0", "state1"}
    UninitIdle = {0}
    WallJumps <- MCWallJumps
    MaxJumps = 1
    MaxTime = 3
SPECIFICATION Spec
INVARIANT TypeOK
PROPERTY SteadyLoadsAsSpecified
CHECK_DEADLOCK FALSE
