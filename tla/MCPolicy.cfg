SPECIFICATION FairSpec
CONSTANTS
    Unit = 8
    LearningRate = 4
    Keys = {k1, k2}
    Texts = {t1}
    Stances = {"affirms"}
    EvidenceKinds <- StrongAndWeak
    BearingKinds = {"contradicts"}
    CommitOutcomes = {"strengthen", "weaken", "contradict"}
    HasResolver = FALSE
    Established = 5
    Revise = 4
    Dismiss = 2
    Predicting = 5
    Inquiring = 3
    NoKey = NoKey
    MaxInteractions = 2
    MaxHypotheses = 2
    MaxBatch = 2
    MaxProposals = 1
    MaxBearings = 1
INVARIANTS
    EvidenceIdsGapless
    ReferencesResolve
PROPERTIES
    UnderstandingMovesWithModel
    InteractionsClose
