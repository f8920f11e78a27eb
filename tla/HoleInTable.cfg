SPECIFICATION Spec
CONSTANTS
    Clients = {c1, c2, c3}
    NULL = NULL
    c1 = c1
    c2 = c2
    c3 = c3
    Letters <- MCLetters
    UserNames <- OneUser
    GarbageNames <- NoNames
    ChannelNames <- OneRoom
    TypedNames <- OneRoom
    Unfiled <- NoNames
    FreshBitmaps <- ZeroedHeap
    MaxConnections = 3
    MaxChannels = 1
    MaxPrivate = 0
    MaxMessages = 0
    OutCap = 2
    Behaviours = {"close", "close_late"}
INVARIANTS
    TableDense
SYMMETRY Symmetry
