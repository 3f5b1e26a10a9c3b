CONSTANTS
    Keys <- MCKeys
    Patterns <- MCPatterns
    Counts = {0, 1, 2}
    NoPattern = NoPattern
    KeysLimit = 3
    MaxWrites = 2
SPECIFICATION Spec
INVARIANTS
    KeysAnswersMatches
    ScanComplete
    ScanOnce
CHECK_DEADLOCK FALSE
