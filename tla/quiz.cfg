CONSTANTS
    pa = pa
    pb = pb
    pc = pc
    Procs = {pa, pb}
    Slow = {"write"}
    Nobody = Nobody
    Unnamed = Unnamed
    Bank <- MCBank
    MaxTries = 2
    Requests <- MCRequests
    Histories <- MCHistories
    AttemptIds = {1, 2}
    FeedbackIds = {1}
    MaxEvents = 4
    MaxLessons = 1
    MaxChanges = 2
    MaxDeaths = 1

SPECIFICATION Spec

SYMMETRY Symmetry

CONSTRAINT HeldUpEarly

INVARIANTS
    ReadableUntilRobbed
    WritesAreLegal
    StaleIsNotScored
    PassedQuestionsWereSettled
    PaperIsAskable

PROPERTIES
    MasteryOnlyGrows
