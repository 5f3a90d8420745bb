SPECIFICATION FairSpec
CONSTANTS
    w1 = w1
    w2 = w2
    Workers = {w1, w2}
    Ops <- TwoOps
    Limit = 2
    MaxRetries = 1
    MaxFaults = 1
INVARIANTS OneOwner AttemptsWithinBudget
PROPERTIES PublishedOnlyByOwner EveryOperationSettles
