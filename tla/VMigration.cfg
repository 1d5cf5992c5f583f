SPECIFICATION Spec
CONSTANTS
    ann = ann
    bob = bob
    None = None
    Unknown = Unknown
    Subjects <- MCSubjects
    Legacy <- MCShared
    MaxInteractions = 0
    MaxFailures = 2
CHECK_DEADLOCK FALSE
INVARIANTS
    OwnersRecovered
