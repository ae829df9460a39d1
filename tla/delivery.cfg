SPECIFICATION FairSpec
CONSTANTS
    th1 = th1
    th2 = th2
    Threads = {th1, th2}
    None = None
    Retention = 1
    QueueLimit = 1
    MaxEvents = 2
    MaxFaults = 1
CHECK_DEADLOCK FALSE
INVARIANTS
    NothingIsForgotten
    SubscriptionIsGapless
    SleeperWillBeTold
PROPERTIES
    IsFeed
