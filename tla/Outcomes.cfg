\* Three reports over two predictions: all three may race for one row.  No
\* symmetry: it is not sound for liveness.
CONSTANTS
    r1 = r1
    r2 = r2
    p1 = p1
    p2 = p2
    p3 = p3
    Rows <- MCRows
    Reports <- MCReports
    Nobody = Nobody
SPECIFICATION FairSpec
INVARIANTS
    TypeOK
    AcceptedIsKept
PROPERTIES
    NeverOverwritten
    EveryReportAnswered
CHECK_DEADLOCK FALSE
