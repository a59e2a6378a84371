CONSTANTS
    Rate = 1
    Burst = 1
    Unit = 2
    Second = 1
    Callers = {c1, c2}
    Procs = {p1, p2}
    Ids = {i1, i2, i3, i4}
    NoId = NoId
    NoProc = NoProc
    Idle = 2
    MaxTime = 4
SPECIFICATION Spec
PROPERTY NoLimitHandedBack
