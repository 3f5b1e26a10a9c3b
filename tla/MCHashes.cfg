CONSTANTS
    Workers = {w1, w2}
    Keys = {k1, k2}
    Fields = {f1, f2}
    MaxArgs = 2
    MaxOps = 3
    MaxReads = 2
    MaxFailures = 1
    MaxRestarts = 1
SPECIFICATION Spec
SYMMETRY Symmetry
INVARIANTS
    CountAccounted
    LenFresh
CHECK_DEADLOCK FALSE
