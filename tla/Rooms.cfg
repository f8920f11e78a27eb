SPECIFICATION Spec
CONSTANTS
    Clients = {c1, c2, c3}
    NULL = NULL
    c1 = c1
    c2 = c2
    c3 = c3
    Letters <- MCLetters
    UserNames <- TwoUsers
    GarbageNames <- NoNames
    ChannelNames <- TwoRooms
    TypedNames <- TwoRooms
    Unfiled <- SecondRoom
    FreshBitmaps <- ZeroedHeap
    MaxConnections = 3
    MaxChannels = 2
    MaxPrivate = 0
    MaxMessages = 2
    OutCap = 2
    Behaviours = {"leave", "kill", "rejoin"}
INVARIANTS
    TypeOK
    ShownIsArchived
PROPERTIES
    ImplementsRooms
    ArchiveAppendOnly
SYMMETRY Symmetry
