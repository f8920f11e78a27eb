SPECIFICATION Spec
CONSTANTS
    Clients = {c1, c2}
    NULL = NULL
    c1 = c1
    c2 = c2
    Letters <- MCLetters
    UserNames <- TwoUsers
    GarbageNames <- NoNames
    ChannelNames <- OneRoom
    TypedNames <- FriendAndPair
    Unfiled <- NoNames
    FreshBitmaps <- DirtyHeap
    MaxConnections = 2
    MaxChannels = 2
    MaxPrivate = 2
    MaxMessages = 1
    OutCap = 1
    Behaviours = {"refriend", "friend", "online", "refused", "leave", "rejoin", "kill", "kill_in_save"}
INVARIANTS
    StoreMatches
    LoopIsJoinBits
PROPERTIES
    DriftHasACause
    BroadcastReachesRoom
SYMMETRY Symmetry
