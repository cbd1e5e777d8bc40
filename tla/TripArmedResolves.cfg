SPECIFICATION LiveSpec
CONSTANTS
    Keys = {k1}
    ArmedKey = armed
    LastWindow = 1
    Recorders = {r1}
    Scanners = {s1}
    ResolveAfter = 1
    Asked = {}
    MaxContacts = 1
    MaxUserActs = 1
    MaxFaults = 0
CHECK_DEADLOCK FALSE
PROPERTY
    ArmedResolvesAfterDelete
