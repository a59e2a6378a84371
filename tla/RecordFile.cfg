CONSTANTS
    Rows = {r1, r2, r3}
    MaxOutages = 2
SYMMETRY Symmetry
SPECIFICATION Spec
INVARIANTS TypeOK AckedIsDurable EachTearCostsOneRow
PROPERTY KeepsAccount
CHECK_DEADLOCK FALSE
