CONSTANTS
    Handlers = {h1, h2}
    Keys = {k1, k2}
    Size = 2
    Window = 2
    RawDays = 1
    Batch = 1
    RecordBatch = 2
    Statements = 4
    MaxDeliveries = 3
    MaxOthers = 1
    MaxFaults = 1

CONSTRAINT TwoAtATime
SPECIFICATION FairSpec
INVARIANT TypeOK
INVARIANT RecordsComplete
INVARIANT FirstMailOnce
PROPERTY SweepHonest
PROPERTY Drained
CHECK_DEADLOCK FALSE
