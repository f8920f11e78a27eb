SPECIFICATION Spec
CONSTANTS
    MsgSize = 2
    OutArray = 5
    OutTest = 8
    WireSize = 2
    LineSize = 2
    MaxKeys = 0
    MaxReplies = 3
INVARIANTS
    OutBufFits
CHECK_DEADLOCK FALSE
