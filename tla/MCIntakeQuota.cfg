CONSTANTS
    Mails = {m1, m2}
    Known = {k1}
    Unknown = {u1, u2}
    Claimed = {c1, c2, c3}
    Overflow = Overflow
    Nobody = Nobody
    Sizes = {1, 3}
    MaxSent = 4
    MaxMessages = 4
    MaxReports = 2
    MaxBytes = 4
    MaxSlots = 1
    ClaimedReports = 1
    ClaimedBytes = 3
    ClaimedSlots = 1
    TotalReports = 3
    TotalBytes = 3

SPECIFICATION Spec
SYMMETRY QuotaSymmetry
CONSTRAINT FewMessages
INVARIANT UnknownWithinTotal
INVARIANT OwnAllowance
INVARIANT NoSharedAllowance
INVARIANT ClaimedSlotsBounded
CHECK_DEADLOCK FALSE
