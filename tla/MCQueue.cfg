CONSTANTS
    w1 = w1
    w2 = w2
    w3 = w3
    None = None
    Workers <- ThreeWorkers
    Sides <- AtTail
    PopSides <- AtHead
    StartMeta <- Initial
    MaxRetries = 2
    MaxPushes = 3
    MaxPops = 2
SPECIFICATION Spec
SYMMETRY Symmetry
INVARIANTS
    CountMatches
    PoppedOnce
    LostOnlyInGap
CHECK_DEADLOCK FALSE
