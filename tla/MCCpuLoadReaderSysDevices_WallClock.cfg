CONSTANTS
    Cores = {0, 1}
    States = {"state0", "state1"}
    Listing <- MCListing
    HasTime = {"state0", "state1"}
    UninitIdle = {0}
    WallJumps <- MCWallJumpsBack
    MaxJumps = 1
    MaxTime = 3
SPECIFICATION Spec
PROPERTY LoadsAsSpecified
CHECK_DEADLOCK FALSE
