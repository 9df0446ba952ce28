CONSTANTS
    Requests = {r1, r2}
    MaxTexts = 2
    MaxRanges = 2
    MaxMx = 2
    MaxRecords = 4
    MaxClock = 2
    MaxFaults = 1

CONSTRAINT OneFeature
SPECIFICATION Spec
SYMMETRY RequestSymmetry
INVARIANT TypeOK
INVARIANT OriginalKept
INVARIANT RecordsAccounted
INVARIANT SendersCurrent
CHECK_DEADLOCK FALSE
