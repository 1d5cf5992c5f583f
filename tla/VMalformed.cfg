SPECIFICATION Spec
CONSTANTS
    Procs = {first}
    Nobody = Nobody
    NumTurns = 3
    HoldTurns = {2}
    Speaker <- MCSpeaker
    Rosters <- MCRosters
    ExtractionReply <- MCExtraction
    AppraisalReply <- MCAppraisal
    IdentityReply <- MCIdentity
    BaselineReply <- MCBaseline
    MaxPlausible = 1
CHECK_DEADLOCK FALSE
INVARIANTS
    MalformedIsRecorded
