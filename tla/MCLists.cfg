CONSTANTS
    w1 = w1
    w2 = w2
    w3 = w3
    None = None
    Workers <- OneWorker
    Sides <- BothSides
    PopSides <- BothSides
    StartMeta = None
    MaxRetries = 2
    MaxPushes = 5
    MaxPops = 4
SPECIFICATION Spec
INVARIANT
    ReadsAgree
PROPERTY
    ImplementsDeque
CHECK_DEADLOCK FALSE
