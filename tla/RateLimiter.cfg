\* Windows of two ticks and a budget of two.  MaxSkew + Patience = Window is the
\* largest sum for which the limit holds.  Three windows begin before MaxTime.
CONSTANTS
    q1 = q1
    q2 = q2
    q3 = q3
    c1 = c1
    c2 = c2
    Requests <- MCRequests
    Clients <- MCClients
    Limit = 2
    Window = 2
    MaxSkew = 1
    Patience = 1
    MaxTime = 4
    MaxRestarts = 1
SPECIFICATION Spec
SYMMETRY Symmetry
INVARIANTS
    TypeOK
    LimitHolds
    RefusedForCause
    CountersExpire
CHECK_DEADLOCK FALSE
