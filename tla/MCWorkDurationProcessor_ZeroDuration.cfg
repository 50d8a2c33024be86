CONSTANTS
    Durations <- MCDurationsWithZero
    Targets = {3, 6}
    MaxBatchLen = 2
    NormalTarget = 3
    MaxUnprocessedBatches = 2
    DivByZeroResults = {0}
SPECIFICATION Spec
PROPERTY FeaturesAsSpecified
