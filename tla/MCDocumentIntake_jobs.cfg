SPECIFICATION FairIntakeSpec
CONSTANTS
    d1 = d1
    d2 = d2
    w1 = w1
    Docs = {d1, d2}
    Workers = {w1}
    Service = w1
    Operated = {d1}
    MaxOps = 2
    MaxJobs = 2
    MaxCrashes = 1
    MaxFaults = 1
INVARIANT CompletedJobsAreComplete
INVARIANT FinalizedManifestIsKept
PROPERTY BecomesSearchableKnowingly
PROPERTY QueuedJobsEnd
CHECK_DEADLOCK FALSE
