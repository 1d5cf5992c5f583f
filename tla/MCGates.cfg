SPECIFICATION Spec
CONSTANTS
    c1 = c1
    c2 = c2
    qwen = qwen
    other = other
    None = None
    Commands <- MCCommands
    Dirs = {"d", "e"}
    Paths <- MCPaths
    Contents <- MCContents
    Servers <- MCServers
    Machines <- MCMachines
    Records <- MCRecords
    Configs <- MCConfigs
    Arguments <- MCArguments
    MaxChanges = 1
SYMMETRY Alike
CHECK_DEADLOCK FALSE
INVARIANTS
    ReadinessVouches
    PreflightVouches
PROPERTIES
    EvidenceStands
