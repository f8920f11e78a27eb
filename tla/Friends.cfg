SPECIFICATION Spec
CONSTANTS
    Clients = {c1, c2}
    NULL = NULL
    c1 = c1
    c2 = c2
    Letters <- MCLetters
    UserNames <- CollidingUsers
    GarbageNames <- NoNames
    ChannelNames <- NoNames
    TypedNames <- CollidingNames
    Unfiled <- NoNames
    FreshBitmaps <- ZeroedHeap
    MaxConnections = 2
    MaxChannels = 2
    MaxPrivate = 2
    MaxMessages = 1
    OutCap = 0
    Behaviours = {"residue", "friend", "close", "relogin", "clean_kill"}
INVARIANTS
    OnlyInvitedInside
    UniqueNames
PROPERTIES
    InvitesSurvive
    DriftHasACause
SYMMETRY Symmetry
