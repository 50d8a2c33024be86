CONSTANTS
    Cores = {0, 1}
    States = {"state0", "state1"}
    Listing <- MCListing
    HasTime = {"state0", "state1"}
    UninitIdle = {0, 3}
    WallJumps = {}
    MaxJumps = 0
    MaxTime = 3
SPECIFICATION Spec
PROPERTY LoadsAsSpecified
CHECK_DEADLOCK FALSE
