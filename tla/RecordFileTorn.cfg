CONSTANTS
    Rows = {r1, r2, r3}
    MaxOutages = 2
SPECIFICATION Spec
INVARIANT TailIsWorstCase
CHECK_DEADLOCK FALSE
