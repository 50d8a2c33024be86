CONSTANTS
    Absent = Absent
    SleepValues = {10}
    HintTimeoutValues = {500}
    PercentValues = {101}
    OptionValues <- MCOptionValuesLoose
    EnabledValues = {1000}
SPECIFICATION Spec
PROPERTY LoadAsSpecified
