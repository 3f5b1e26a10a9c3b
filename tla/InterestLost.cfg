CONSTANTS
    t1 = t1
    t2 = t2
    c1 = c1
    c2 = c2
    c3 = c3
    ch1 = ch1
    p1 = p1
    None = None
    Threads <- MCThreads
    Conns <- MCConns
    Channels <- MCChannels
    Patterns <- MCPatterns
SPECIFICATION HistorySpec
SYMMETRY Symmetry
INVARIANT
    InterestComplete
