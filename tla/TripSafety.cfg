SPECIFICATION Spec
CONSTANTS
    Keys = {k1}
    ArmedKey = armed
    LastWindow = 1
    Recorders = {r1, r2}
    Scanners = {s1}
    ResolveAfter = 1
    Asked = {"suppressed"}
    MaxContacts = 2
    MaxUserActs = 1
    MaxFaults = 0
SYMMETRY Symmetry
CHECK_DEADLOCK FALSE
INVARIANTS
    TypeOK
    EvidenceFirst
    NoSilentFinding
    CountAtMostDouble
    AnnouncementsBounded
PROPERTIES
    SuppressionOutlivesScans
