SPECIFICATION Spec
CONSTANTS
    g1 = g1
    g2 = g2
    w1 = w1
    w2 = w2
    None = None
    Gens = {g1, g2}
    First = g1
    Workers = {w1, w2}
    MaxClaims = 3
    MaxRenewals = 1
    MaxFaults = 1
    MaxChecks = 1
INVARIANT RowsFollowPointer
PROPERTY KeepsAuthorityLine
PROPERTY SuccessorsKeepTheirGrant
CHECK_DEADLOCK FALSE
