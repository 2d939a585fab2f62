\* As WriterSafety with three rows, and flush_now called beside the consumer
\* and the stop.  No symmetry: it is not sound for liveness.
CONSTANTS
    u1 = u1
    u2 = u2
    Users <- MCUsers
    BatchSize = 2
    MaxQueue = 3
    MaxRows = 3
    FlushNowUsed = TRUE
SPECIFICATION FairSpec
INVARIANTS
    NeverReinserted
    Conservation
    StoppedIsDrained
PROPERTIES
    RowsResolve
    StopReturns
