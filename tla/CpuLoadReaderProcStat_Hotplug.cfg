CONSTANTS
    Cpus = {0, 1}
    BootCpu = 0
    ClkTck = 100
    CounterModulus = 4096
    MaxTime = 3
    MaxHotplugs = 2
    MaxIowaitDips = 0
SPECIFICATION Spec

PROPERTY ReaderRecovers
CHECK_DEADLOCK FALSE
