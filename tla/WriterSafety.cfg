\* Two users, batches of two, a queue of two, four rows: a batch with a good and a
\* bad row, a full queue beside a batch in flight, a drain of two rows.
CONSTANTS
    u1 = u1
    u2 = u2
    Users <- MCUsers
    BatchSize = 2
    MaxQueue = 2
    MaxRows = 4
    FlushNowUsed = FALSE
SPECIFICATION Spec
SYMMETRY Symmetry
INVARIANTS
    TypeOK
    Conservation
    WrittenIsPersisted
    LossesCounted
    GoodRowsSurvive
    DepthGauge
    LogInArrivalOrder
PROPERTY KeepsThePromise
