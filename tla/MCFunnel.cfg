CONSTANTS
    Addresses = {x, y}
    Runs = {r1, r2}
    Steps = 2
    NeedsUrl = {1}
    Limits = {1}
    Gap = 1
    Late = 3
    MaxLeads = 2
    MaxFaults = 1

SPECIFICATION Spec
SYMMETRY Symmetry
INVARIANT EachStepOnce
INVARIANT NotStarved
PROPERTY StopHolds
CHECK_DEADLOCK FALSE
