SPECIFICATION LiveSpec
CONSTANTS
    n1 = n1
    n2 = n2
    n3 = n3
    n4 = n4
    quiet = quiet
    k1 = k1
    k2 = k2
    k3 = k3
    m1 = m1
    m2 = m2
    Notices = {n1, n2, n3, n4, quiet}
    Keys = {k1, k2, k3}
    KeyOf <- MCKeyOf
    Modules = {m1, m2}
    ModuleOf <- MCModuleOf
    Quiet = {quiet}
    Channels = {c1}
    MaxBatch = 2
    Retries = 2
CHECK_DEADLOCK FALSE
INVARIANTS
    TypeOK
    NothingStranded
    DeliveryBounded
    ClosedIsComplete
PROPERTIES
    EveryNoticeSettled
    CloseEnds
    KeepsPromise
