CONSTANTS
    Cores = {0, 1}
    PolicyIndices = {0}
    FreqRates = {1, 2}
    CounterModulus = 64
    MaxTime = 3
    MaxResets = 1
SPECIFICATION Spec
INVARIANT TypeOK
INVARIANT DeltasFaithful
CHECK_DEADLOCK FALSE
