SPECIFICATION FairSpec
CONSTANTS
    Room = 1
    Outcomes = {"pass", "optimize"}
    Scenarios = {"lifecycle", "beforeInitialize", "malformedBase64", "fixture"}
    MaxFrames = 2
    Programs = {"any"}
    Hosts = {"workbench"}
    HostMayDie = FALSE
PROPERTIES
    EveryRunReturns
