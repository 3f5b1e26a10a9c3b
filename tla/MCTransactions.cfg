CONSTANTS
    c1 = c1
    c2 = c2
    k1 = k1
    k2 = k2
    v1 = v1
    Absent = Absent
    Conns <- MCConns
    Keys <- MCKeys
    Values <- MCValues
    Commands <- MCCommands
    MaxQueue = 2
    MaxCommands = 3
SPECIFICATION Spec
SYMMETRY Symmetry
INVARIANTS
    VersionsDetectChanges
    NoRunWhenDoomed
    MissedOnlyInWindow
