CONSTANTS
    Procs = {p1, p2}
    NoProc = NoProc
    Rewrites <- MCRewrites
SYMMETRY Symmetry
SPECIFICATION Spec
INVARIANTS TypeOK ReportedOncePerChange
PROPERTIES QuietTakesEffect NeverBackward
