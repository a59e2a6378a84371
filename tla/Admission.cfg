CONSTANTS
    k1 = k1
    k2 = k2
    k3 = k3
    c1 = c1
    c2 = c2
    Clients = {k1, k2, k3}
    Callers = {c1, c2}
    CallerOf <- MCCallerOf
    Watched = k1
    Second = 3
    OwnRate = 1
    OwnBurst = 1
    OwnUnit = 5
    SharedRate = 1
    SharedBurst = 1
    SharedUnit = 2
    MaxTime = 7
SPECIFICATION Spec
INVARIANTS TypeOK ShareIsBounded
PROPERTY HonouredRetryIsAdmitted
CHECK_DEADLOCK FALSE
