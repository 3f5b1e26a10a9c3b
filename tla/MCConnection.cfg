CONSTANTS
    c1 = c1
    Requests <- AllRequests
    Room = 1
    MaxSent = 3
    MaxPushes = 1
SPECIFICATION Spec
INVARIANTS
    NothingLost
    AnsweredOnce
    ExecutedInOrder
    DisorderOnlyWithinRead
    ModeMatches
PROPERTIES
    EventuallyAnswered
    EventuallyClosed
CHECK_DEADLOCK FALSE
