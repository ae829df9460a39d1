SPECIFICATION FairSpec
CONSTANTS
    None = None
    MaxRequests = 2
    Pages = {c1}
    MaxProcs = 2
    MaxFailures = 1
INVARIANTS
    HistoryIsKept
    LockFencesOthers
    PendingIsAttended
PROPERTIES
    RepliesSettle
    PagesFollow
CHECK_DEADLOCK FALSE
