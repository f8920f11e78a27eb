SPECIFICATION FairSpec
CONSTANTS
    MsgSize = 2
    OutArray = 5
    OutTest = 8
    WireSize = 2
    LineSize = 2
    MaxKeys = 4
    MaxReplies = 3
INVARIANTS
    TypeOK
    ShownInOrder
    ServedInOrder
PROPERTIES
    QueuedIsShown
    StuckKeysAreFreed
CHECK_DEADLOCK FALSE
