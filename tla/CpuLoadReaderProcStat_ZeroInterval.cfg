CONSTANTS
    Cpus = {0, 1}
    BootCpu = 0
    ClkTck = 100
    CounterModulus = 4096
    MaxTime = 3
    MaxHotplugs = 2
    MaxIowaitDips = 1
SPECIFICATION Spec

INVARIANT LoadsAreFractions
CHECK_DEADLOCK FALSE
