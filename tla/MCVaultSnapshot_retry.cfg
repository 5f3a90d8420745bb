SPECIFICATION SnapshotSpec
CONSTANTS
    a1 = a1
    a2 = a2
    w1 = w1
    Job = Job
    None = None
    Holders = {a1, a2}
    Jobs = {Job}
    NoJob = NoJob
    JobOf <- OneJob
    Writers = {w1}
    MaxDepth = 1
    MaxScopes = 1
    MaxWrites = 1
    MaxDeaths = 0
    MaxErrors = 0
    MaxRaises = 2
    MaxPasses = 1
    TreeWrites <- FileWrite
SYMMETRY Symmetry
\* An attempt that has ended takes no more steps, and the job may be done.
CHECK_DEADLOCK FALSE
INVARIANTS EligibleIsCoherent OwnersWorkspaceIsKept
