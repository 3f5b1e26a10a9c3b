SPECIFICATION Spec
CONSTANTS
    c1 = c1
    c2 = c2
    Connections <- MCConnections
    Patterns <- MCPatterns
    Channels <- MCChannels
    MaxInserts = 2
SYMMETRY TrieSymmetry
INVARIANTS
    FoundIffMeant
    FoundOnce
    CountIsDeliveries
