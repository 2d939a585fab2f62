\* A violation: the line of an unhandled error has no request id.
CONSTANTS
    c1 = c1
    c2 = c2
    r1 = r1
    r2 = r2
    Containers <- MCContainers
    Watched = c1
    Requests <- MCRequests
    Environments <- MCEnvironments
    FirstRevision = {5}
    MaxStarts = 1
    MaxDowngrades = 0
SPECIFICATION Spec
INVARIANT EveryLineCarriesItsRequest
CHECK_DEADLOCK FALSE
