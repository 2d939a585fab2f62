\* The docstring's claim that every lost row is counted, against a stop.
CONSTANTS
    u1 = u1
    u2 = u2
    Users <- MCUsers
    BatchSize = 2
    MaxQueue = 2
    MaxRows = 4
    FlushNowUsed = FALSE
SPECIFICATION Spec
INVARIANT EveryLostRowCounted
