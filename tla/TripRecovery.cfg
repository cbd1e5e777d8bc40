SPECIFICATION LiveSpec
CONSTANTS
    Keys = {k1}
    ArmedKey = armed
    LastWindow = 1
    Recorders = {r1}
    Scanners = {s1}
    ResolveAfter = 1
    Asked = {"suppressed"}
    MaxContacts = 2
    MaxUserActs = 0
    MaxFaults = 1
CHECK_DEADLOCK FALSE
PROPERTIES
    
    BurstsForgotten
    TripAnnounced
