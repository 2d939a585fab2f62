\* A violation: a model answers for its successor, under a version of its own.
CONSTANTS
    w1 = w1
    w2 = w2
    r1 = r1
    r2 = r2
    c1 = c1
    Workers <- MCWorkers
    Requests <- MCRequests
    Cars <- MCCars
    MaxTrainings = 2
    MaxLoads = 2
SPECIFICATION Spec
INVARIANT NeverFromPredecessor
CHECK_DEADLOCK FALSE
