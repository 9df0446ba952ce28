CONSTANTS
    Users = {ann, bob, eve}
    Others = {w1}
    Default = w0
    Invites = {i1, i2}
    Handlers = {r1, r2}

SPECIFICATION TeamSpec
SYMMETRY TeamSymmetry
CONSTRAINT NotRacedBefore
INVARIANT TeamTypeOK
INVARIANT OneOwner
INVARIANT OwnedUnlessRaced
PROPERTY OnlyOrphansGo
CHECK_DEADLOCK FALSE
