\* Two threads, as many addresses and one more for an entry that is missed, an outage.
SPECIFICATION Spec
CONSTANTS
    p1 = p1
    p2 = p2
    h1 = h1
    h2 = h2
    h3 = h3
    Threads = {p1, p2}
    Handles = {h1, h2, h3}
    Null = Null
    MaxMisses = 1
    MaxOutages = 1
INVARIANTS
    ExclusiveUse
    PoolBounded
    OutageCost
PROPERTIES
    ImplementsCall
CHECK_DEADLOCK FALSE
