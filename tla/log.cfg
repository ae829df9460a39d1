SPECIFICATION FairSpec
CONSTANTS
    c1 = c1  c2 = c2  quiesce = quiesce  d1 = d1  d2 = d2  t1 = t1  t2 = t2
    Commands = {c1, c2, quiesce}
    Digests = {d1, d2}
    Stamps = {t1, t2}
    Requests <- MCRequests
    Size <- MCSize
    Closing = {quiesce}
    Repairs = {TRUE, FALSE}
    MaxSequence = 4
    MaxFaults = 2
INVARIANTS CommittedIsIntact CrashIsRecoverable
PROPERTIES RetriesAreAnswered NothingIsDestroyed KeepsPromise
