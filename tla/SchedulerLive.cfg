SPECIFICATION LiveSpec
CONSTANTS
    Targets = {t1, t2}
    Workers = 1
    RetryBase = 1
    RetryMax = 1
    Adders = {a1}
    Callers = {}
    Goroutines = {g1, g2}
    MaxFailures = 1
    MaxChanges = 1
CHECK_DEADLOCK FALSE
PROPERTIES
    EveryTargetScanned
    StopEnds
