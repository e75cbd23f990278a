SPECIFICATION FairSpec
CONSTANTS
    Verifiers = {v1, v2}
    Issuers = {i1}
    MaxSequence = 2
    MaxMarkers = 2
    Patience = 1
    Stalled = {v2}
    NoOne = NoOne
INVARIANTS
    IInv
    NoStaleAcceptance
    ReadsAreCurrent
    AcceptedIsRecorded
    WithinMarkerLimit
PROPERTIES
    AppendOnly
    ImplementsRegister
    EveryCallDecided
