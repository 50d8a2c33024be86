CONSTANTS
    Absent = Absent
    SleepValues = {10}
    HintTimeoutValues = {500}
    PercentValues = {101}
    OptionValues <- MCOptionValues
    EnabledValues = {1000}
SPECIFICATION Spec
INVARIANT TypeOK
PROPERTY LoadAsSpecified
