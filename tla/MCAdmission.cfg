SPECIFICATION Spec
CONSTANTS
    Scopes = {shared, private}
    SharedScopes = {shared}
    Refs = {r1, r2}
    Participants = {p1, p2}
    Roles = {"account", "response"}
    NoParticipant = NoParticipant
    Dyad = Dyad
    MaxCandidates = 1
    MaxBatch = 2
    MaxEvidence = 3
INVARIANTS
    TypeOK
    DivergencesJoinSharedAccounts
PROPERTIES
    RefsReusedOnlyInOneBatch
