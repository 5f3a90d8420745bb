SPECIFICATION Spec
CONSTANTS
    o1 = o1
    o2 = o2
    w1 = w1
    w2 = w2
    None = None
    Ops = {o1, o2}
    Reconcilers = {w1, w2}
    MaxRetries = 1
    MaxTakeovers = 1
    MaxLost = 1
    MaxErrors = 1
SYMMETRY Symmetry
\* Every operation may have settled.
CHECK_DEADLOCK FALSE
INVARIANTS LatestIsRestorable SuccessIsReachable
PROPERTY KeepsRecoveryLine
