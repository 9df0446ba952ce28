CONSTANTS
    holder = holder
    claimant = claimant
    apex = apex
    sub = sub
    Workspaces = {holder, claimant}
    Names = {apex, sub}
    Parents <- MCParents
    Requests = {r1, r2}
    Legacy <- MCLegacy
    MaxClaims = 1
    MaxRows = 3
    MaxRecords = 2
    MaxFaults = 1

SPECIFICATION Spec
CONSTRAINT OneConcern
SYMMETRY RequestSymmetry
INVARIANT TypeOK
INVARIANT NoStrayChild
INVARIANT OthersLost
INVARIANT RecordsAccounted
PROPERTY OnlyUnprovenLose
CHECK_DEADLOCK FALSE
