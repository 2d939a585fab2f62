\* The detail of the 409 against a row that is stored between the two transactions.
CONSTANTS
    r1 = r1
    r2 = r2
    p1 = p1
    p2 = p2
    p3 = p3
    Rows <- MCRows
    Reports <- MCReports
    Nobody = Nobody
SPECIFICATION Spec
INVARIANT ConflictMeansRecorded
CHECK_DEADLOCK FALSE
