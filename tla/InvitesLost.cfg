SPECIFICATION Spec
CONSTANTS
    Clients = {c1, c2}
    NULL = NULL
    c1 = c1
    c2 = c2
    Letters <- MCLetters
    UserNames <- TwoUsers
    GarbageNames <- NoNames
    ChannelNames <- OneRoom
    TypedNames <- RoomsAndFriends
    Unfiled <- NoNames
    FreshBitmaps <- ZeroedHeap
    MaxConnections = 2
    MaxChannels = 2
    MaxPrivate = 2
    MaxMessages = 0
    OutCap = 2
    Behaviours = {"friend", "refriend", "kill"}
PROPERTIES
    InvitesSurvive
SYMMETRY Symmetry
