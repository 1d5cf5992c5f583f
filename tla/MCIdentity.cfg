SPECIFICATION Spec
CONSTANTS
    Unit = 8
    LearningRate = 8
    Keys = {k1}
    Texts = {t1}
    Stances = {"affirms", "open", "negates"}
    EvidenceKinds <- WeakOnly
    BearingKinds = {"contradicts"}
    CommitOutcomes = {"hypothesize", "strengthen", "weaken", "contradict"}
    HasResolver = TRUE
    Established = 3
    Revise = 4
    Dismiss = 2
    Predicting = 3
    Inquiring = 3
    NoKey = NoKey
    MaxInteractions = 3
    MaxHypotheses = 2
    MaxBatch = 1
    MaxProposals = 2
    MaxBearings = 1
INVARIANTS
    TypeOK
    NoInversionBetweenInteractions
    DuplicatesConfinedToOnePlan
PROPERTIES
    OppositionIsContradicted
    ImplementsUnderstanding
