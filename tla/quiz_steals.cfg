CONSTANTS
    pa = pa
    pb = pb
    pc = pc
    Procs = {pa, pb, pc}
    Slow = {}
    Nobody = Nobody
    Unnamed = Unnamed
    Bank <- MCBank
    MaxTries = 2
    Requests <- MCRequests
    Histories <- MCHistories
    AttemptIds = {1, 2}
    FeedbackIds = {1}
    MaxEvents = 3
    MaxLessons = 1
    MaxChanges = 0
    MaxDeaths = 1

SPECIFICATION Spec

SYMMETRY Symmetry

INVARIANTS
    SessionStaysReadable
