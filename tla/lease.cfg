SPECIFICATION FairSpec
CONSTANTS
    o1 = o1
    o2 = o2
    o3 = o3
    Owners = {o1, o2, o3}
    None = None
    LeaseTime = 2
    Tenure = 3
    MaxRenewals = 2
    MaxReclaims = 1
    MaxAttempts = 2
    MaxClock = 6
    MaxEpoch = 2
    MaxCursor = 1
    MaxSetBacks = 1
CHECK_DEADLOCK FALSE
INVARIANTS
    DecisionsAreReadable
PROPERTIES
    PublishedInTime
    IsWorkTenure
