SPECIFICATION FairSpec
CONSTANTS
    s1 = s1
    s2 = s2
    s3 = s3
    Sessions = {s1, s2, s3}
    None = None
    MaxSequence = 3
INVARIANTS
    RegistryIsCoherent
    ReplayAcceptsWhatIsDecided
    RecoveryRefusesOnlyTornLogs
    OneSessionHasWork
PROPERTIES
    IsOneConversation
    HandoffCompletes
