SPECIFICATION Spec
CONSTANTS
    Targets = {t1, t2}
    Workers = 1
    RetryBase = 1
    RetryMax = 2
    Adders = {a1}
    Callers = {c1}
    Goroutines = {g1, g2}
    MaxFailures = 2
    MaxChanges = 2
SYMMETRY Symmetry
CHECK_DEADLOCK FALSE
INVARIANTS
    TypeOK
    SlotsConserved
    SweepsEndWithStop
    FirstValueNow
    BackoffFits
