SPECIFICATION FairSpec
CONSTANTS
    g0 = g0
    g1 = g1
    g2 = g2
    NoGen = NoGen
    Gens = {g0, g1, g2}
    First = g0
    Second = g1
    MaxIntents = 2
    Faults = {"web", "maintenance", "coordinator", "expiry"}
    MaxFaults = 2
INVARIANTS OneGenerationServes InactiveRuntimesAreFrozen ProjectionFollowsPointer
PROPERTIES PointerMovesQuietly DecisionsAreWitnessed OpenIntentsAreDecided
CHECK_DEADLOCK FALSE
