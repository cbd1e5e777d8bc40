SPECIFICATION ProcessLiveSpec
CONSTANTS
    pot = pot
    name = name
    poll = poll
    k1 = k1
    k2 = k2
    m1 = m1
    Notices <- MCNotices
    Keys = {k1, k2}
    KeyOf <- MCKeyOf
    Modules = {m1}
    ModuleOf <- MCModuleOf
    Quiet = {}
    Channels = {c1}
    MaxBatch = 2
    Retries = 2
    SourceOf <- MCSourceOf
    Honeypots = {h1, h2}
    Restored = {h1}
CHECK_DEADLOCK FALSE
PROPERTY ShutdownEnds
