CONSTANTS
    t1 = t1
    t2 = t2
    ch1 = ch1
    p1 = p1
    None = None
    Threads <- MCThreads
    Conns <- MCConns
    Channels <- MCChannels
    Patterns <- MCPatterns
    Ways <- MCWays
    InboxCap = 2
    MaxMsgs = 2
    MaxCommands = 2
SPECIFICATION PubSpec
INVARIANTS
    ExactAtMostOnce
    PatternCopies
    PublisherOrder
    LostOnlyByFullInbox
PROPERTY
    EventuallyDelivered
CHECK_DEADLOCK FALSE
