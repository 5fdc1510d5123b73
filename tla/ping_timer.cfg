\* Scaled numbers, threads that may be late in every step, a reconnect.
SPECIFICATION Spec
CONSTANTS
    PingInterval = 3
    PingTimeout = 6
    Old = 7
    MaxPings = 2
    MaxReconnects = 2
INVARIANTS
    TimerRuns
    PunctualNeverPings
PROPERTIES
    SilenceIsFinal
CHECK_DEADLOCK FALSE
