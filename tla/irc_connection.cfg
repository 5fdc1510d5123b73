\* Two lines on the way, three lost connections, a failed look-up, an outage of the network.
SPECIFICATION FairSpec
CONSTANTS
    MaxLines = 2
    MaxChats = 2
    MaxLosses = 3
    MaxLookups = 1
    MaxOutages = 1
INVARIANTS
    OneReader
PROPERTIES
    ImplementsSession
    LossIsRepaired
    ShutdownEnds
CHECK_DEADLOCK FALSE
