CONSTANTS
    Procs = {p1, p2}
    NoProc = NoProc
    Rewrites <- MCRewrites
SPECIFICATION Spec
PROPERTY RotationTakesEffect
