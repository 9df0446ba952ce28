CONSTANTS
    Requests = {r1, r2}
    Flows = {f1}
    MaxGrants = 2
    MaxCalls = 3
    Ttl = 2
    Slack = 1
    MaxClock = 3
    MaxAge = 2
    Limit = 1
    MaxTombs = 2
    MaxFaults = 1

CONSTRAINT TwoAtATime
SPECIFICATION FairSpec
INVARIANT TypeOK
INVARIANT StateSpentOnce
INVARIANT NothingForgotten
PROPERTY GivenUpLate
PROPERTY TombstonesEnd
CHECK_DEADLOCK FALSE
