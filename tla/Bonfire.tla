------------------------------- MODULE Bonfire -------------------------------
(***************************************************************************)
(* The whole system: client programs (src/client.c) and the server, here   *)
(* as the rooms that BonfireServer implements, with a connection between   *)
(* each client and the server.  A client is one thread: a step is one      *)
(* command, one answer to LOGIN, or one call of handle_server_message; the *)
(* server handles one request per step.  Requests and answers travel in    *)
(* order, each at its own pace, and a client does not wait for answers     *)
(* after its login.                                                        *)
(***************************************************************************)
EXTENDS ChatRoom

CONSTANTS
    UserNames,   \* names typed at the login, and after /friend
    RoomNames,   \* names typed after /join and /create
    MaxLines,    \* bound on the commands that users type in the chat
    MaxLogins,   \* bound on the names that users type at the login
    Habits       \* what users and connections do, see Does

HabitNames ==
    {"create", "join", "leave", "list", "say", "friend", \* commands that are typed
     "short_read"} \* a read of the login answer that returns less than its action

ASSUME HabitsAssumption == Habits \subseteq HabitNames
ASSUME LinesAssumption == MaxLines \in Nat /\ MaxLogins \in Nat
\* Nobody types the name of a friend or of a friend channel for a room: where
\* those lead is BonfireServer's subject.
ASSUME RoomNamesAssumption ==
    /\ NoName \notin RoomNames \cup UserNames
    /\ RoomNames \cap (UserNames \cup UserNames \X UserNames) = {}

VARIABLES
    at,               \* where main() of the client is
    username,         \* the name typed last at the login
    in_channel,       \* in_channel: the client lets lines through as messages
    current_channel,  \* current_channel
    channels_loaded,  \* channels_loaded: a list of channels was parsed
    confused,         \* the client took something else for an answer to LOGIN
    typed,            \* how many names and how many commands were typed so far
    told,             \* the last answer to /join or /create that was displayed
    refused,          \* the last answer that the server gave to one was a refusal
    up,               \* requests on their way to the server
    down              \* answers on their way to the client

clientVars == <<at, username, in_channel, current_channel, channels_loaded, typed>>
vars == <<roomVars, clientVars, confused, told, refused, up, down>>

Does(h) == h \in Habits

Places == {"offline", "asking", "logging", "loading", "chat"}

\* A SEND carries what its author took for the channel; the code sends no such
\* thing, the properties compare it with where the message goes.
Request(a, d) == [action |-> a, data |-> d]

Init ==
    /\ RoomInit
    /\ at = [c \in Clients |-> "offline"]
    /\ username = [c \in Clients |-> NoName]
    /\ in_channel = [c \in Clients |-> FALSE]
    /\ current_channel = [c \in Clients |-> NoName]
    /\ channels_loaded = [c \in Clients |-> FALSE]
    /\ typed = [names |-> 0, lines |-> 0]
    /\ confused = [c \in Clients |-> FALSE]
    /\ told = [c \in Clients |-> "none"]
    /\ refused = [c \in Clients |-> FALSE]
    /\ up = [c \in Clients |-> <<>>]
    /\ down = [c \in Clients |-> <<>>]

-----------------------------------------------------------------------------
(***************************************************************************)
(* The client program.  setup_socket tries until the server is there.      *)
(***************************************************************************)
Launch ==
    /\ Start
    /\ UNCHANGED <<clientVars, confused, told, refused, up, down>>

setup_socket(c) ==
    /\ at[c] = "offline" /\ running
    /\ at' = [at EXCEPT ![c] = "asking"]
    /\ UNCHANGED <<roomVars, username, in_channel, current_channel, channels_loaded,
                   typed, confused, told, refused, up, down>>

Sends(c, requests) == up' = [up EXCEPT ![c] = @ \o requests]

\* handle_login: any line is sent, an empty one too.
get_username(c, u) ==
    /\ at[c] = "asking" /\ typed.names < MaxLogins
    /\ at' = [at EXCEPT ![c] = "logging"]
    /\ username' = [username EXCEPT ![c] = u]
    /\ typed' = [typed EXCEPT !.names = @ + 1]
    /\ Sends(c, <<Request("LOGIN", u)>>)
    /\ UNCHANGED <<roomVars, in_channel, current_channel, channels_loaded, confused,
                   told, refused, down>>

(***************************************************************************)
(* The first message that comes is taken for the answer.  What a second    *)
(* read() of it returns is stored at eight times its offset, because the   *)
(* buffer is an array of pointers: the action is whole if the first read   *)
(* returned all of it, and cannot be told otherwise.                       *)
(***************************************************************************)

\* Mutant: whatever is answered lets the client in.
Accepted_anyway(m) == TRUE
Accepted(m) == m.action = "LOGN:S"

handle_login(c) ==
    /\ at[c] = "logging" /\ down[c] # <<>>
    /\ down' = [down EXCEPT ![c] = Tail(@)]
    /\ confused' = [confused EXCEPT ![c] =
                       @ \/ Head(down[c]).action \notin {"LOGN:S", "LOGN:F"}]
    /\ \/ /\ Accepted(Head(down[c]))
          /\ at' = [at EXCEPT ![c] = "loading"]
          /\ Sends(c, <<Request("ONLINE", NoName)>>)
       \/ /\ Does("short_read") \/ ~Accepted(Head(down[c]))
          /\ at' = [at EXCEPT ![c] = "asking"]
          /\ UNCHANGED up
    /\ UNCHANGED <<roomVars, username, in_channel, current_channel, channels_loaded,
                   typed, told, refused>>

\* Twenty looks at the socket, then the menu, whether or not a list came.
render_menu(c) ==
    /\ at[c] = "loading"
    /\ at' = [at EXCEPT ![c] = "chat"]
    /\ UNCHANGED <<roomVars, username, in_channel, current_channel, channels_loaded,
                   typed, confused, told, refused, up, down>>

(***************************************************************************)
(* handle_server_message, with a whole message in soc_msg_buf.             *)
(***************************************************************************)
Entries == {"JOIN:S", "JOIN:F", "START:S", "START:F"}
Ignored(c, m) == ~in_channel[c] /\ m.action = "SEND"

\* Mutant: a list that comes while the user sees the menu is not parsed.
IsList_in_menu(c, m) == m.action = "ONLINE" /\ in_channel[c]
IsList(c, m) == m.action = "ONLINE"

handle_server_message(c) ==
    /\ at[c] \in {"loading", "chat"} /\ down[c] # <<>>
    /\ down' = [down EXCEPT ![c] = Tail(@)]
    /\ LET m == Head(down[c])
       IN  /\ channels_loaded' = [channels_loaded EXCEPT ![c] =
                                     @ \/ (~Ignored(c, m) /\ IsList(c, m))]
           /\ told' = [told EXCEPT ![c] = IF m.action \in Entries THEN m.action ELSE @]
    /\ UNCHANGED <<roomVars, at, username, in_channel, current_channel, confused,
                   typed, refused, up>>

-----------------------------------------------------------------------------
(***************************************************************************)
(* command_handler and what main() does after it.  The client is in the    *)
(* channel it asks for as soon as it asked; the list is asked for first.   *)
(***************************************************************************)
Types(c, h) ==
    /\ at[c] = "chat" /\ Does(h) /\ typed.lines < MaxLines
    /\ typed' = [typed EXCEPT !.lines = @ + 1]
    /\ UNCHANGED <<roomVars, at, username, channels_loaded, confused, told, refused,
                   down>>

\* Mutant: the channel the client believes it is in is set once.
EnterCommand_keeps_first(c, a, n) ==
    /\ in_channel' = [in_channel EXCEPT ![c] = TRUE]
    /\ current_channel' = [current_channel EXCEPT ![c] = IF @ = NoName THEN n ELSE @]
    /\ Sends(c, <<Request("ONLINE", NoName), Request(a, n)>>)
EnterCommand(c, a, n) ==
    /\ in_channel' = [in_channel EXCEPT ![c] = TRUE]
    /\ current_channel' = [current_channel EXCEPT ![c] = n]
    /\ Sends(c, <<Request("ONLINE", NoName), Request(a, n)>>)
JoinCommand(c, n)   == Types(c, "join") /\ EnterCommand(c, "JOIN", n)
CreateCommand(c, n) == Types(c, "create") /\ EnterCommand(c, "START", n)

\* Mutant: the channel is forgotten before the server is told.
LeaveRequests_forgets_first(c) == <<Request("ONLINE", NoName)>>
LeaveRequests(c) ==
    IF in_channel[c] /\ current_channel[c] # NoName
    THEN <<Request("LEAVE", NoName), Request("ONLINE", NoName)>>
    ELSE <<Request("ONLINE", NoName)>>
LeaveCommand(c) ==
    /\ Types(c, "leave")
    /\ Sends(c, LeaveRequests(c))
    /\ in_channel' = [in_channel EXCEPT ![c] = FALSE]
    /\ current_channel' = [current_channel EXCEPT ![c] = NoName]

ChannelsCommand(c) ==
    /\ Types(c, "list")
    /\ Sends(c, <<Request("ONLINE", NoName)>>)
    /\ UNCHANGED <<in_channel, current_channel>>

\* Lines and friend requests are stopped in the menu.
Line(c) ==
    /\ Types(c, "say")
    /\ IF in_channel[c] THEN Sends(c, <<Request("SEND", current_channel[c])>>)
                        ELSE UNCHANGED up
    /\ UNCHANGED <<in_channel, current_channel>>
FriendCommand(c, u) ==
    /\ Types(c, "friend")
    /\ IF in_channel[c] THEN Sends(c, <<Request("FRIEND", u)>>) ELSE UNCHANGED up
    /\ UNCHANGED <<in_channel, current_channel>>

-----------------------------------------------------------------------------
(***************************************************************************)
(* The server takes the requests of a client in order.                     *)
(***************************************************************************)
Takes(c, a) ==
    /\ up[c] # <<>> /\ Head(up[c]).action = a
    /\ up' = [up EXCEPT ![c] = Tail(@)]
    /\ UNCHANGED <<clientVars, confused, told, down>>
Asked(c) == Head(up[c]).data

TakesLogin(c) ==
    /\ Takes(c, "LOGIN") /\ UNCHANGED refused
    /\ LET u == Asked(c)
       IN  IF u = NoName \/ \E d \in Clients : name[d] = u
           THEN Tells(c, "LOGN:F") ELSE LogsIn(c, u)

Answered(c, no) == refused' = [refused EXCEPT ![c] = no]
\* Mutant: the refusal is not answered.
TakesStart_silently(c) ==
    /\ Takes(c, "START") /\ Answered(c, Asked(c) \in rooms)
    /\ IF Asked(c) \in rooms THEN UNCHANGED roomVars ELSE Creates(c, Asked(c))
TakesStart(c) ==
    /\ Takes(c, "START") /\ Answered(c, Asked(c) \in rooms)
    /\ IF Asked(c) \in rooms THEN Tells(c, "START:F") ELSE Creates(c, Asked(c))
TakesJoin(c) ==
    /\ Takes(c, "JOIN") /\ Answered(c, Asked(c) \notin rooms)
    /\ IF Asked(c) \in rooms THEN Enters(c, Asked(c)) ELSE Tells(c, "JOIN:F")
TakesLeave(c)  == Takes(c, "LEAVE") /\ Leaves(c) /\ UNCHANGED refused
TakesOnline(c) == Takes(c, "ONLINE") /\ Tells(c, "ONLINE") /\ UNCHANGED refused

\* A message of a client that is in no channel is dropped without an answer.
TakesSend(c) ==
    /\ Takes(c, "SEND") /\ UNCHANGED refused
    /\ IF inside[c] = {} THEN UNCHANGED roomVars ELSE Says(c)

\* Called by the two names, which BonfireServer concatenates; a second channel
\* of one name is no other room here.
Friends(u) == {d \in Clients : name[d] = u}
FriendRoom(c, u) == <<name[c], u>>
\* Mutant: whoever asks is in the friend channel at once.
TakesFriend_enters(c) ==
    /\ Takes(c, "FRIEND") /\ UNCHANGED refused
    /\ IF Friends(Asked(c)) = {} THEN Tells(c, "FRIEND")
       ELSE IF FriendRoom(c, Asked(c)) \in rooms THEN UNCHANGED roomVars
       ELSE Creates(c, FriendRoom(c, Asked(c)))
TakesFriend(c) ==
    /\ Takes(c, "FRIEND") /\ UNCHANGED refused
    /\ LET u == Asked(c)
       IN  IF Friends(u) = {} THEN Tells(c, "FRIEND")
           ELSE \E d \in Friends(u) : Befriends(c, d, FriendRoom(c, u))

Serve(c) ==
    \/ TakesLogin(c) \/ TakesStart(c) \/ TakesJoin(c) \/ TakesLeave(c)
    \/ TakesOnline(c) \/ TakesSend(c) \/ TakesFriend(c)

\* handle_client_write: the whole out_buf goes to the connection.
Write(c) ==
    /\ inbox[c] # <<>>
    /\ Delivers(c)
    /\ down' = [down EXCEPT ![c] = @ \o inbox[c]]
    /\ UNCHANGED <<clientVars, confused, told, refused, up>>

Command(c) ==
    \/ \E n \in RoomNames : JoinCommand(c, n) \/ CreateCommand(c, n)
    \/ LeaveCommand(c) \/ ChannelsCommand(c) \/ Line(c)
    \/ \E u \in UserNames : FriendCommand(c, u)

\* What the programs do by themselves, and what users may do.
Programs(c) ==
    \/ Serve(c) \/ Write(c)
    \/ setup_socket(c) \/ handle_login(c) \/ render_menu(c) \/ handle_server_message(c)
Users(c) == Command(c) \/ \E u \in UserNames \cup {NoName} : get_username(c, u)

Next == Launch \/ \E c \in Clients : Programs(c) \/ Users(c)

Spec == Init /\ [][Next]_vars

-----------------------------------------------------------------------------
(***************************************************************************)
(* Every variable keeps its type; a wire carries what the other side reads.*)
(***************************************************************************)
AllNames == RoomNames \cup UserNames \cup {NoName}
Requests == [action: {"LOGIN", "START", "JOIN", "LEAVE", "ONLINE", "SEND", "FRIEND"},
             data: AllNames]
Answers  == [action: {"LOGN:S", "LOGN:F", "SYS", "ONLINE", "FRIEND", "LEAVE:S",
                      "SEND", "HIST"} \cup Entries,
             id: Nat]
TypeOK ==
    /\ at \in [Clients -> Places]
    /\ username \in [Clients -> UserNames \cup {NoName}]
    /\ in_channel \in [Clients -> BOOLEAN]
    /\ current_channel \in [Clients -> RoomNames \cup {NoName}]
    /\ channels_loaded \in [Clients -> BOOLEAN]
    /\ confused \in [Clients -> BOOLEAN]
    /\ told \in [Clients -> Entries \cup {"none"}]
    /\ refused \in [Clients -> BOOLEAN]
    /\ up \in [Clients -> Seq(Requests)]
    /\ down \in [Clients -> Seq(Answers)]
    /\ inbox \in [Clients -> Seq(Answers)]
    /\ inside \in [Clients -> SUBSET RoomNames]

(***************************************************************************)
(* Whoever sees the menu is in no channel once the server took what was    *)
(* sent to it, whatever was refused before: /leave tells the server of     *)
(* every channel it may have let the client into (client.c:655-677).       *)
(***************************************************************************)
MenuMeansOutside ==
    \A c \in Clients :
        at[c] = "chat" /\ ~in_channel[c] /\ up[c] = <<>> => inside[c] = {}

(***************************************************************************)
(* A message is archived in the channel its author took itself to be in    *)
(* when it was typed, unless the server had just refused to let the author *)
(* in there: requests overtake no request, though the client does not wait *)
(* for an answer (client.c:215-232).                                       *)
(***************************************************************************)
LandsWhereMeant ==
    [][\A c \in Clients : said' # said /\ up'[c] # up[c] =>
          Head(up[c]).data \in inside[c] \/ refused[c]]_vars

(***************************************************************************)
(* Once all answers were displayed, a client is in the channel it believes *)
(* it is in, or the last thing it was told of channels is a refusal        *)
(* (client.c:215-228, server.c:363-415).                                   *)
(***************************************************************************)
Settled(c) == up[c] = <<>> /\ inbox[c] = <<>> /\ down[c] = <<>>
BelievesRightly ==
    \A c \in Clients : in_channel[c] /\ Settled(c) =>
        inside[c] = {current_channel[c]} \/ told[c] \in {"JOIN:F", "START:F"}

(***************************************************************************)
(* Past its login, a client calls itself by the name the server has for    *)
(* it, unless a notice was taken for an answer to LOGIN (client.c:265-306).*)
(***************************************************************************)
NameAgrees ==
    \A c \in Clients :
        at[c] \in {"loading", "chat"} /\ ~confused[c] => username[c] = name[c]

(***************************************************************************)
(* A client whose answers were all displayed has a list of channels,       *)
(* although neither the menu nor anything else waits for one               *)
(* (client.c:147, 175-190).                                                *)
(***************************************************************************)
ListArrives == \A c \in Clients : at[c] = "chat" /\ Settled(c) => channels_loaded[c]
=============================================================================
