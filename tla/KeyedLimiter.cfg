CONSTANTS
    Rate = 1
    Burst = 1
    Unit = 3
    Second = 1
    Callers = {c1, c2}
    Procs = {p1, p2}
    Ids = {i1, i2, i3, i4}
    NoId = NoId
    NoProc = NoProc
    Idle = 2
    MaxTime = 3
SPECIFICATION FairSpec
INVARIANTS TypeOK ExactUnlessRaced IdleCallersLeave
PROPERTY AllowReturns
