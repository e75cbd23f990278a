SPECIFICATION FairSpec
CONSTANTS
    Room = 1
    Outcomes = {"pass", "optimize"}
    Scenarios = {"lifecycle", "beforeInitialize", "malformedBase64", "fixture"}
    MaxFrames = 2
    Programs = {"rust", "go", "python", "typescript", "context", "any"}
    Hosts = {"workbench", "other"}
    HostMayDie = TRUE
INVARIANTS
    SessionIInv
    NothingLeftBehind
    OkMeansCleanExit
    SdkPluginConforms
PROPERTIES
    NoOrphanPlugin
    RunsReturnUnlessHeld
