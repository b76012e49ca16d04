SPECIFICATION StackSpec
CONSTANTS
    q1 = q1
    q2 = q2
    q3 = q3
    q4 = q4
    Requests <- MCRequests
    Clients = {c1, c2}
    RPM = 2
    Window = 2
    Route <- MCRoute
    CheckCount <- MCCheckCount
INVARIANT
    EveryRequestCounted
SYMMETRY MCSymmetry
CHECK_DEADLOCK FALSE
