CONSTANTS
    Requests = {r1}
    MaxTexts = 1
    MaxRanges = 2
    MaxMx = 1
    MaxRecords = 3
    MaxClock = 1
    MaxFaults = 0

SPECIFICATION Spec
PROPERTY RefreshFollowsProviders
CHECK_DEADLOCK FALSE
