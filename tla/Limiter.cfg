CONSTANTS
    Rate = 2
    Burst = 2
    Unit = 7
    Second = 1
    MaxForward = 9
SPECIFICATION Spec
INVARIANTS TypeOK WindowBound BurstBeforeRefusal
PROPERTY RetryAfterIsExact
