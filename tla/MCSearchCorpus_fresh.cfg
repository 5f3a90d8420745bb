SPECIFICATION SearchSpec
CONSTANTS
    w1 = w1
    p1 = p1
    h1 = h1
    j1 = j1
    d1 = d1
    d2 = d2
    NoJob = NoJob
    NoIdentity = NoIdentity
    Writers = {w1, p1}
    Procs = {p1}
    Docs = {d1}
    Holders = {h1}
    Jobs = {j1}
    JobOf <- JobOfHolder
    MaxDepth = 1
    MaxScopes = 2
    MaxWrites = 2
    MaxDeaths = 1
    MaxErrors = 0
    MaxContent = 2
    MaxRequests = 2
    MaxOutside = 1
    MaxRestarts = 1
INVARIANTS HiddenIsNeverShown CachedForEpochIsExact RefusedForACause
PROPERTY CheckedEvidenceIsCurrent
CHECK_DEADLOCK FALSE
