SPECIFICATION FairSpec
CONSTANTS
    w1 = w1
    w2 = w2
    h1 = h1
    h2 = h2
    h3 = h3
    j1 = j1
    j2 = j2
    NoJob = NoJob
    Writers = {w1, w2}
    Holders = {h1, h2, h3}
    Jobs = {j1, j2}
    JobOf <- JobOfHolder
    MaxDepth = 2
    MaxScopes = 3
    MaxWrites = 2
    MaxDeaths = 1
    MaxErrors = 2
INVARIANTS ActiveBarrierCoversWrites JournalIsDense ProvenCutIsFrozen
PROPERTY WritersReadmitted
