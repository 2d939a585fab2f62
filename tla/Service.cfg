\* A new database and an old one; the second start finds either migrated.
CONSTANTS
    c1 = c1
    c2 = c2
    r1 = r1
    r2 = r2
    Containers <- MCContainers
    Watched = c1
    Requests <- MCRequests
    Environments <- MCEnvironments
    FirstRevision = {0, 1}
    MaxStarts = 2
    MaxDowngrades = 1
SPECIFICATION Spec
INVARIANTS
    TypeOK
    SchemaIsARevision
    ServesWhatItNeeds
    NothingUsesAClosedResource
    LinesCarryTheirRequest
PROPERTY StopCompletes
CHECK_DEADLOCK FALSE
