SPECIFICATION FairSpec
CONSTANTS
    Clients = {c1, c2, c3}
    NULL = NULL
    c1 = c1
    c2 = c2
    c3 = c3
    Letters <- MCLetters
    UserNames <- OneUser
    GarbageNames <- NoNames
    ChannelNames <- OneRoom
    TypedNames <- OneRoom
    Unfiled <- NoNames
    FreshBitmaps <- ZeroedHeap
    MaxConnections = 3
    MaxChannels = 0
    MaxPrivate = 0
    MaxMessages = 0
    OutCap = 0
    Behaviours = {"close", "close_late", "reset", "slow"}
INVARIANTS
    TableSound
    UniqueNames
PROPERTIES
    ClosedIsRemoved
