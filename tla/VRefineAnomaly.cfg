SPECIFICATION Spec
CONSTANTS
    Unit = 8
    LearningRate = 4
    Keys = {k1}
    Texts = {t1, t2}
    Stances = {"affirms"}
    EvidenceKinds <- StrongAndWeak
    BearingKinds = {"contradicts"}
    CommitOutcomes = {"hypothesize", "strengthen", "weaken", "contradict"}
    HasResolver = TRUE
    Established = 5
    Revise = 4
    Dismiss = 2
    Predicting = 5
    Inquiring = 3
    NoKey = NoKey
    MaxInteractions = 3
    MaxHypotheses = 2
    MaxBatch = 1
    MaxProposals = 1
    MaxBearings = 1
INVARIANTS
    AnomalyNeverSupports
