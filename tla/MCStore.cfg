SPECIFICATION Spec
CONSTANTS
    ann = ann
    bob = bob
    None = None
    Unknown = Unknown
    Subjects <- MCSubjects
    Legacy <- MCLegacy
    MaxInteractions = 2
    MaxFailures = 2
CHECK_DEADLOCK FALSE
INVARIANTS
    MigrationPreservesRows
    OwnersRecovered
    StoreReadable
