SPECIFICATION ToolchainSpec
CONSTANTS
    p2 = p2
    v1 = v1
    v2 = v2
    Versions = {v1, v2}
    Release = v1
    Packagers = {k1}
    Cataloger = c
    Platforms = {p1, p2}
    Platform = p1
    Scenarios = 3
    Starts <- Cases
    MaxEdits = 1
    MaxFaults = 1
INVARIANTS
    UndisturbedCallPackages
