\* Two workers of different versions over one Redis; three runs, the smallest
\* number with which a version can come back (v1, a torn v2, v1 again).
CONSTANTS
    w1 = w1
    w2 = w2
    r1 = r1
    r2 = r2
    c1 = c1
    Workers <- MCWorkers
    Requests <- MCRequests
    Cars <- MCCars
    MaxTrainings = 3
    MaxLoads = 3
SPECIFICATION Spec
SYMMETRY Symmetry
INVARIANTS
    TypeOK
    PricesKeepTheirVersion
    PredecessorOnlyUnderSharedLabel
CHECK_DEADLOCK FALSE
