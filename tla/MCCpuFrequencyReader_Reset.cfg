CONSTANTS
    Listing <- MCListing
    PolicyIdOf <- MCPolicyIdOf
    FreqTable <- MCFreqTable
    MaxFrequencies = 500
    NumCpuPolicies = 3
    U64Modulus = 4096
    MaxTime = 3
    MaxResets = 1
SPECIFICATION Spec
INVARIANT AverageInRange
