\* All operations may be settled and their takeovers used up: the system may stop.
CHECK_DEADLOCK FALSE
SPECIFICATION Spec
CONSTANTS
    o1 = o1
    o2 = o2
    w1 = w1
    w2 = w2
    None = None
    Ops = {o1, o2}
    Workers = {w1, w2}
    MaxRetries = 1
    MaxTakeovers = 1
    MaxErrors = 1
SYMMETRY Interchangeable
INVARIANTS RuntimesAreWhole PointsStayRestorable ImportsAreExact
