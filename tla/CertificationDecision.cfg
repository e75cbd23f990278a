SPECIFICATION DecisionSpec
CONSTANTS
    i1 = i1
    r1 = r1
    r2 = r2
    Verifiers = {v1, v2}
    Issuers = {i1}
    Releases = {r1, r2}
    AuthorityOf <- BothOfOne
    TrustStore <- Keys
    MaxSequence = 1
    MaxLifetime = 1
    MaxWindow = 1
    FetchBudget = 1
    MaxTime = 2
    MaxEnvelopes = 1
    NoDocument = NoDocument
SYMMETRY HostSymmetry
INVARIANTS
    DecisionIInv
    KnownRevocationHolds
    RevocationTakesEffect
