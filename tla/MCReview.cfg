SPECIFICATION Spec
CONSTANTS
    None = None
    Clients = {ann, bob}
    Nobody = Nobody
    Configs <- MCConfigs
    Saved <- MCSaved
    Evidence <- MCEvidence
    Sample <- MCSample
    Imported <- MCImported
    Interaction <- MCInteraction
    MaxRequests = 3
    MaxCrashes = 1
    MaxFaults = 1
CHECK_DEADLOCK FALSE
INVARIANTS
    HistoryIsReplay
    PanelsAgree
    OwnReply
PROPERTIES
    FilesKeepTheirCase
    RowsAreFinal
    RequestsAnswered
