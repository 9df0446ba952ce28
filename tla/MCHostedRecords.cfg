CONSTANTS
    Requests = {r1, r2}
    Domains = {d1, d2, d3}
    MaxIds = 3
    Cap = 1
    Limit = 5

SPECIFICATION Spec
CONSTRAINT FewDisturbances
SYMMETRY HostedSymmetry
INVARIANT NothingLeftBehind
INVARIANT PublishedIsAccepted
INVARIANT CountExact
INVARIANT CapBounded
CHECK_DEADLOCK FALSE
