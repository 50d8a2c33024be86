\* Only the percent and the option list matter to Model::Run; the other
\* properties stay unset.  A percent of 50 lets both branches of Run
\* happen (unset, it is 0: the tree only).  The tree returns NO_THROTTLE,
\* so the previous decision changes only by a random override.
CONSTANTS
    Absent = Absent
    SleepValues = {}
    HintTimeoutValues = {}
    PercentValues = {50}
    OptionValues <- MCOptionValues
    EnabledValues = {}
    Works = {1}
    TreeDecisions = {0}
    MaxSteps = 4
SPECIFICATION Spec
INVARIANT TypeOK
INVARIANT HistoryAsSpecified
PROPERTY RandomFromLoadedOptions
