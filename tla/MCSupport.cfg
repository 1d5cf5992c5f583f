SPECIFICATION Spec
CONSTANTS
    Unit = 8
    LearningRate = 4
    Keys = {k1}
    Texts = {t1, t2}
    Stances = {"affirms"}
    EvidenceKinds <- MixedRoles
    BearingKinds = {"supports", "weakens", "contradicts"}
    CommitOutcomes = {"hypothesize", "strengthen", "weaken", "contradict"}
    HasResolver = TRUE
    Established = 5
    Revise = 4
    Dismiss = 2
    Predicting = 5
    Inquiring = 3
    NoKey = NoKey
    MaxInteractions = 2
    MaxHypotheses = 2
    MaxBatch = 2
    MaxProposals = 1
    MaxBearings = 1
INVARIANTS
    EvidenceDisjoint
    GroundedInEvidence
    OneEffectPerObservation
    LedgerExplainsRecords
    ModelRereadsStore
    AnomaliesDecide
