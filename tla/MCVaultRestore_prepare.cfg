\* All jobs may be settled and their retries used up: the system may stop.
CHECK_DEADLOCK FALSE
SPECIFICATION Spec
CONSTANTS
    j1 = j1
    j2 = j2
    w1 = w1
    w2 = w2
    None = None
    Jobs = {j1, j2}
    Workers = {w1, w2}
    MaxRetries = 1
    MaxFaults = 2
SYMMETRY Interchangeable
INVARIANTS ReadyRuntimesAreComplete DirectoriesAreOwned FailedRestoresAreNotReady
