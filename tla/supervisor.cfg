SPECIFICATION FairSpec
CONSTANTS
    o1 = o1
    o2 = o2
    o3 = o3
    Owners = {o1, o2, o3}
    None = None
    MaxTenures = 2
    MaxAttempts = 2
    MaxRunning = 2
    MaxFaults = 2
CHECK_DEADLOCK FALSE
INVARIANTS
    ResultsAnswerTheirWork
PROPERTIES
    WorkIsSettled
    LostClaimsEnd
