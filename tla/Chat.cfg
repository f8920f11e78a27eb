SPECIFICATION Spec
CONSTANTS
    Clients = {c1, c2}
    UserNames = {u1, u2}
    RoomNames = {r1, r2}
    Names <- AllowedNames
    NoName = NoName
    Unfiled = {}
    Capacity = 20
    MaxSaid = 3
    MaxLines = 3
    MaxLogins = 3
    Habits = {"create", "join", "leave", "list", "say", "friend", "short_read"}
INVARIANTS
    TypeOK
    MenuMeansOutside
    BelievesRightly
    NameAgrees
    ListArrives
PROPERTIES
    LandsWhereMeant
SYMMETRY Symmetry
CHECK_DEADLOCK FALSE
