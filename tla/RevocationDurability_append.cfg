SPECIFICATION DSpec
CONSTANTS
    Verifiers = {v1, v2}
    Issuers = {i1}
    MaxSequence = 1
    MaxMarkers = 2
    Patience = 0
    Stalled = {}
    NoOne = NoOne
    DirectorySync = TRUE
INVARIANTS
    AppendedAcceptanceSurvives
