\* All jobs may be settled and all requests used: the system may stop.
CHECK_DEADLOCK FALSE
SPECIFICATION FairSpec
CONSTANTS
    w1 = w1
    w2 = w2
    r1 = r1
    r2 = r2
    Workers = {w1, w2}
    Jobs <- OneJob
    Requests = {r1, r2}
    MaxCrashes = 1
    MaxStalls = 1
    MaxCancels = 1
INVARIANTS EpochNamesOneClaim RetriesHonouredOnce
PROPERTIES SettledByLatestClaim RunningJobsSettle
