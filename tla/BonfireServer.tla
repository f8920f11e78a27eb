--------------------------- MODULE BonfireServer ---------------------------
(***************************************************************************)
(* The chat server of src/server.c and src/channels.c: one process, one    *)
(* select() loop that accepts, then reads every client once, then writes   *)
(* every client once.  A step of this module is one turn of one of those   *)
(* loops: the whole handler of one request, one disconnection, one write.  *)
(*                                                                         *)
(* What the environment may do between two steps is part of the model:     *)
(* peers connect, ask, close, reset; the process is killed and restarted;  *)
(* the two kinds of files (one archive per channel, the list of private    *)
(* channels) survive.  Names are sequences of letters, because the code    *)
(* builds the name of a private channel by concatenation.                  *)
(***************************************************************************)
EXTENDS Integers, Sequences, FiniteSets

CONSTANTS
    Clients,         \* the Client structures malloc may hand out
    NULL,            \* a slot of client_sockets that holds no client
    Letters,         \* what names are made of
    UserNames,       \* names that peers log in with or befriend
    GarbageNames,    \* what an uninitialised user_name may read as
    ChannelNames,    \* names that peers type after /create
    TypedNames,      \* names that peers type after /join
    Unfiled,         \* names that make no file name: those with a slash
    FreshBitmaps,    \* what malloc leaves in active_members
    MaxConnections,  \* bound on client_sockets (1024 in the code)
    MaxChannels,     \* bound on channels[] (128 in the code, not tested there)
    MaxPrivate,      \* bound on private_channels[] (128, not tested there)
    MaxMessages,     \* bound on the messages ever archived
    OutCap,          \* messages that fit in an out_buf (50 by the code's test)
    Behaviours       \* what the environment may do, see May

BehaviourNames ==
    {"relogin",      \* log in again under another name
     "rejoin",       \* join the channel one is in
     "leave",        \* leave a channel
     "online",       \* ask who is online
     "refused",      \* a request the server answers with a refusal
     "friend",       \* send a friend request
     "refriend",     \* a friend request whose channel name exists already
     "close",        \* a peer closes its connection
     "close_late",   \* a connection arrives while a closed one is unread
     "reset",        \* a peer closes with data unread: a TCP reset
     "slow",         \* a socket is not writable for a while
     "residue",      \* a reused Client keeps the user_name it had
     "clean_kill",   \* the server is stopped when every channel is archived
     "kill",         \* the server is stopped between two steps
     "kill_in_save"} \* the server is stopped inside a save

Names  == Seq(Letters)
NoName == <<>>
Slots  == 0 .. MaxConnections - 1
ChannelIds == 1 .. MaxChannels

ASSUME NullAssumption == NULL \notin Clients
ASSUME NamesAssumption ==
    /\ UserNames \subseteq Names \ {NoName}
    /\ GarbageNames \subseteq Names \ (UserNames \cup {NoName})
    /\ ChannelNames \subseteq Names
    /\ TypedNames \subseteq Names
    /\ Unfiled \subseteq Names
ASSUME BitmapsAssumption == FreshBitmaps \subseteq SUBSET Slots
ASSUME BoundsAssumption ==
    /\ MaxConnections \in Nat \ {0}
    /\ MaxChannels \in Nat
    /\ MaxPrivate \in Nat
    /\ MaxMessages \in Nat
    /\ OutCap \in Nat
ASSUME BehavioursAssumption == Behaviours \subseteq BehaviourNames

VARIABLES
    pc,                \* "down", or the loop of main() the server is in
    fault,             \* why the process last ended
    i,                 \* loop variable of the read and of the write loop
    num_new,           \* num_new_connections
    read_fds,          \* the closed peers that select() reported
    clients,           \* client_sockets
    count,             \* current_number_of_connections
    peer,              \* state of the connection behind a Client
    named,             \* the Client answered a LOGIN of this connection with LOGN:S
    user_name,         \* Client.user_name
    active_channel,    \* Client.active_channel, 0 for NULL
    out_buf,           \* Client.out_buf, in messages
    num_channels,      \* num_channels
    channel_name,      \* Channel.name
    active_members,    \* Channel.active_members, as the set of bits that are set
    private_channels,  \* private_channels, channel 0 for NULL
    archive,           \* channels/<name>.dat, for the names that have a file
    private_file,      \* private_channels.dat
    sent,              \* how many messages were said, the identity of a message
    posted             \* Message.channel of each of them

loopVars    == <<pc, fault, num_new, read_fds>>
tableVars   == <<clients, count>>
sessionVars == <<peer, named, user_name, active_channel>>
channelVars == <<num_channels, channel_name, active_members>>
diskVars    == <<archive, private_file, sent, posted>>
vars == <<loopVars, i, tableVars, sessionVars, out_buf, channelVars,
          private_channels, diskVars>>

May(b) == b \in Behaviours

(***************************************************************************)
(* Messages.  A SEND or a HIST carries the identity of what was archived;  *)
(* the wording of the server's own replies is abstracted.                  *)
(***************************************************************************)
Actions == {"LOGN:S", "LOGN:F", "START:S", "START:F", "JOIN:S", "JOIN:F",
            "ONLINE", "FRIEND", "LEAVE:S", "SYS", "SEND", "HIST"}
Messages == [action: Actions, id: Nat]
Reply(a) == [action |-> a, id |-> 0]
Sys      == Reply("SYS")

Smaller(m, n) == IF m < n THEN m ELSE n

\* Mutant: the test lets one message too many in.
HasRoom_off_by_one(q) == Len(q) <= OutCap
HasRoom(q) == Len(q) < OutCap

(***************************************************************************)
(* respond_to_client_with_message: queued, or dropped when out_buf is full *)
(***************************************************************************)
Respond(buf, c, m) ==
    [buf EXCEPT ![c] = IF HasRoom(@) THEN Append(@, m) ELSE @]

ChannelsNamed(n) == {k \in 1 .. num_channels : channel_name[k] = n}
Exists(n)        == ChannelsNamed(n) # {}
FirstOf(S)       == CHOOSE k \in S : \A l \in S : k <= l
IsLast(k, S)     == k \in S /\ \A l \in S : l <= k

(***************************************************************************)
(* broadcast_message: the slots below count whose bit is set in bits.      *)
(***************************************************************************)

\* Mutant: the sender is left out of its own message too.
Receivers_without_reader(bits, excluded) ==
    {clients[s] : s \in {t \in bits : t < count}} \ (excluded \cup {clients[i]})
Receivers(bits, excluded) ==
    {clients[s] : s \in {t \in bits : t < count}} \ excluded
Broadcast(buf, cs, m) ==
    [c \in Clients |-> IF c \in cs /\ HasRoom(buf[c]) THEN Append(buf[c], m)
                                                       ELSE buf[c]]

(***************************************************************************)
(* send_disconnect_message: the bitmap is that of the first channel with   *)
(* the name of the client's active channel, whichever channel that is.     *)
(***************************************************************************)

\* Mutant: the notice goes to the client that leaves too.
LeaveNotice_everyone(buf, c) ==
    IF active_channel[c] = 0 THEN buf
    ELSE LET n == channel_name[active_channel[c]]
         IN  Broadcast(buf, Receivers(active_members[FirstOf(ChannelsNamed(n))], {}), Sys)
LeaveNotice(buf, c) ==
    IF active_channel[c] = 0 THEN buf
    ELSE LET n == channel_name[active_channel[c]]
         IN  Broadcast(buf, Receivers(active_members[FirstOf(ChannelsNamed(n))], {c}), Sys)

(***************************************************************************)
(* send_history: oldest first, until the buffer is full.                   *)
(***************************************************************************)
Archived(n) == IF n \in DOMAIN archive THEN archive[n] ELSE <<>>
History(buf, c, n) ==
    LET take == Smaller(Len(Archived(n)), OutCap - Len(buf[c]))
    IN  [buf EXCEPT ![c] =
            @ \o [j \in 1 .. take |-> [action |-> "HIST", id |-> Archived(n)[j]]]]

(***************************************************************************)
(* handle_join_channel.  The loop visits every channel of that name: it    *)
(* sets the bit there, then clears it in the channel the client was in,    *)
(* then makes it the active one.  hits are the channels visited, last the  *)
(* last of them, old the active channel before the loop.                   *)
(***************************************************************************)

\* Mutant: the bit in the channel left behind is not cleared.
JoinBits_keeps_old(members, hits, last, old, s) ==
    [members EXCEPT ![last] = @ \cup {s}]
JoinBits(members, hits, last, old, s) ==
    [k \in DOMAIN members |->
        IF k = last /\ hits # {old} THEN members[k] \cup {s}
        ELSE IF k \in hits \cup {old} THEN members[k] \ {s}
        ELSE members[k]]

(***************************************************************************)
(* Private channels: the entries of private_channels and their names.      *)
(***************************************************************************)
Entries == DOMAIN private_channels
Dangling(p) == private_channels[p].channel = 0
EntryName(p) == channel_name[private_channels[p].channel]
IsEntry(p, n) == ~Dangling(p) /\ EntryName(p) = n
Invitations(u, n) == {p \in Entries : IsEntry(p, n) /\ u \in private_channels[p].invited}
IsPrivate(n) == \E p \in Entries : IsEntry(p, n)

\* check_client_allowed_to_join

\* Mutant: an entry of that name is enough, whoever it invites.
AllowedToJoin_any_entry(u, n) == TRUE
AllowedToJoin(u, n) == ~IsPrivate(n) \/ Invitations(u, n) # {}

\* A scan of private_channels that stops at its first hit reads channel->name
\* of every entry up to there: a dangling one ends the process.
ScanCrashes(hits) ==
    \E p \in Entries : Dangling(p) /\ \A q \in hits : p < q

\* check_if_friend_channel: the first entry called friend + me or me + friend
FriendHits(u, n) == {p \in Entries : IsEntry(p, n \o u) \/ IsEntry(p, u \o n)}
Resolve(u, n) ==
    IF FriendHits(u, n) = {} THEN n ELSE EntryName(FirstOf(FriendHits(u, n)))

\* save_private_channels, of a list that has no dangling entry
Saved(entries, names) ==
    [p \in DOMAIN entries |-> [name |-> names[entries[p].channel],
                               invited |-> entries[p].invited]]

\* handle_invite_to_private_channel: every entry of that name
Invite(entries, names, n, u) ==
    [p \in DOMAIN entries |->
        IF names[entries[p].channel] = n
        THEN [entries[p] EXCEPT !.invited = @ \cup {u}] ELSE entries[p]]

-----------------------------------------------------------------------------
(***************************************************************************)
(* The life of the process.                                                *)
(***************************************************************************)
EmptyTable == [s \in Slots |-> NULL]

Init ==
    /\ pc = "down" /\ fault = "none" /\ i = 0 /\ num_new = 0 /\ read_fds = {}
    /\ clients = EmptyTable /\ count = 0
    /\ peer = [c \in Clients |-> "none"]
    /\ named = [c \in Clients |-> FALSE]
    /\ user_name = [c \in Clients |-> NoName]
    /\ active_channel = [c \in Clients |-> 0]
    /\ out_buf = [c \in Clients |-> <<>>]
    /\ num_channels = 0
    /\ channel_name = [k \in ChannelIds |-> NoName]
    /\ active_members = [k \in ChannelIds |-> {}]
    /\ private_channels = <<>>
    /\ archive = <<>> /\ private_file = <<>> /\ sent = 0 /\ posted = <<>>

(***************************************************************************)
(* The process ends: memory and connections are gone, the files stay.      *)
(***************************************************************************)
Ends(why) ==
    /\ pc' = "down" /\ fault' = why /\ i' = 0 /\ num_new' = 0 /\ read_fds' = {}
    /\ clients' = EmptyTable /\ count' = 0
    /\ peer' = [c \in Clients |-> "none"]
    /\ named' = [c \in Clients |-> FALSE]
    /\ user_name' = [c \in Clients |-> NoName]
    /\ active_channel' = [c \in Clients |-> 0]
    /\ out_buf' = [c \in Clients |-> <<>>]
    /\ num_channels' = 0
    /\ channel_name' = [k \in ChannelIds |-> NoName]
    /\ active_members' = [k \in ChannelIds |-> {}]
    /\ private_channels' = <<>>
    /\ UNCHANGED <<archive, sent, posted>>
Dies(why) == Ends(why) /\ UNCHANGED private_file

(***************************************************************************)
(* load_channels makes a channel of every archive, in readdir's order;     *)
(* load_private_channels looks each name of its file up among them, and    *)
(* keeps a NULL channel for a name that has no archive.                    *)
(***************************************************************************)
Lists(f, S) ==
    /\ \A j, k \in DOMAIN f : j # k => f[j] # f[k]
    /\ \A x \in S : \E j \in DOMAIN f : f[j] = x

\* Mutant: the list is not loaded.
Loaded_nothing(files, file) == <<>>
Loaded(files, file) ==
    [p \in DOMAIN file |->
        [channel |-> LET hits == {k \in DOMAIN files : files[k] = file[p].name}
                     IN  IF hits = {} THEN 0 ELSE FirstOf(hits),
         invited |-> file[p].invited]]

Reload(n, files, bits) ==
    /\ Lists(files, DOMAIN archive)
    /\ num_channels' = n
    /\ channel_name' = [k \in ChannelIds |-> IF k <= n THEN files[k] ELSE NoName]
    /\ active_members' = [k \in ChannelIds |-> IF k <= n THEN bits[k] ELSE {}]
    /\ private_channels' = Loaded(files, private_file)

Launch ==
    /\ pc = "down"
    /\ pc' = "select" /\ fault' = "none"
    /\ \E n \in 0 .. MaxChannels :
       \E files \in [1 .. n -> DOMAIN archive], bits \in [1 .. n -> FreshBitmaps] :
          Reload(n, files, bits)
    /\ UNCHANGED <<i, num_new, read_fds, tableVars, sessionVars, out_buf, diskVars>>

Kill ==
    /\ pc # "down"
    /\ \/ May("kill")
       \/ May("clean_kill") /\ \A p \in Entries :
                                 ~Dangling(p) /\ EntryName(p) \in DOMAIN archive
    /\ Dies("killed")

-----------------------------------------------------------------------------
(***************************************************************************)
(* Peers.  A peer that closes ends the connection ("fin"); one that closes *)
(* before it read what it was sent resets it ("reset").  What it asked     *)
(* before may still be unread, and is read first.  Then read() returns 0   *)
(* after "fin"; the first call on a reset connection returns ECONNRESET    *)
(* and leaves it "broken": read returns 0 there and write raises SIGPIPE.  *)
(***************************************************************************)
PeerStates == {"none", "open", "fin", "reset", "broken"}
Closed(c) == peer[c] \in {"fin", "reset", "broken"}

PeerCloses(c) ==
    /\ peer[c] = "open"
    /\ \/ May("close") /\ peer' = [peer EXCEPT ![c] = "fin"]
       \/ May("reset") /\ peer' = [peer EXCEPT ![c] = "reset"]
    /\ UNCHANGED <<loopVars, i, tableVars, named, user_name, active_channel,
                   out_buf, channelVars, private_channels, diskVars>>

(***************************************************************************)
(* The top of the event loop: FD_SET dereferences every slot below count,  *)
(* then select() reports the closed peers, and a pending connection if     *)
(* there is one.                                                           *)
(***************************************************************************)

\* Mutant: the last slot is not given to select().
Tabled_but_last(c) == \E s \in Slots : s < count - 1 /\ clients[s] = c
Tabled(c) == \E s \in Slots : s < count /\ clients[s] = c
HasHole   == \E s \in Slots : s < count /\ clients[s] = NULL

SelectCrashes ==
    /\ pc = "select" /\ HasHole
    /\ Dies("null_slot")

Select ==
    /\ pc = "select" /\ ~HasHole /\ count > 0
    /\ pc' = "read" /\ i' = 0 /\ num_new' = 0
    /\ read_fds' = {c \in Clients : Tabled(c) /\ Closed(c)}
    /\ UNCHANGED <<fault, tableVars, sessionVars, out_buf, channelVars,
                   private_channels, diskVars>>

\* handle_new_connection: the slot is clients[count]; user_name is not set
Accept(c) ==
    /\ pc = "select" /\ ~HasHole /\ count < MaxConnections
    /\ peer[c] = "none"
    /\ May("close_late") \/ \A d \in Clients : Tabled(d) => ~Closed(d)
    /\ pc' = "read" /\ i' = 0 /\ num_new' = 1
    /\ read_fds' = {d \in Clients : Tabled(d) /\ Closed(d)}
    /\ clients' = [clients EXCEPT ![count] = c]
    /\ peer' = [peer EXCEPT ![c] = "open"]
    /\ \E u \in {NoName} \cup GarbageNames
                \cup IF May("residue") THEN {user_name[c]} ELSE {} :
          user_name' = [user_name EXCEPT ![c] = u]
    /\ UNCHANGED <<fault, count, named, active_channel, out_buf, channelVars,
                   private_channels, diskVars>>

-----------------------------------------------------------------------------
(***************************************************************************)
(* The read loop.  It takes slot i, whatever became of the slots before.   *)
(***************************************************************************)
Reading(c) == pc = "read" /\ i < count /\ c = clients[i]
NextSlot   == i' = i + 1 /\ UNCHANGED loopVars

\* No data, or not yet all 328 bytes of a message.
SkipRead(c) ==
    /\ Reading(c)
    /\ NextSlot
    /\ UNCHANGED <<tableVars, sessionVars, out_buf, channelVars,
                   private_channels, diskVars>>

\* read() returns -1: the error is printed, the client stays.
ReadFails(c) ==
    /\ Reading(c) /\ c \in read_fds /\ peer[c] = "reset"
    /\ peer' = [peer EXCEPT ![c] = "broken"]
    /\ NextSlot
    /\ UNCHANGED <<tableVars, named, user_name, active_channel, out_buf,
                   channelVars, private_channels, diskVars>>

(***************************************************************************)
(* read() returns 0.  The slots above i move down by one; active_members   *)
(* is left as it is, and the loop still goes on to slot i + 1.             *)
(***************************************************************************)

\* Mutant: the slot that became free is not cleared.
ShiftDown_keeps_last(table, s, n) ==
    [t \in Slots |-> IF s <= t /\ t < n - 1 THEN table[t + 1] ELSE table[t]]
ShiftDown(table, s, n) ==
    [t \in Slots |-> IF s <= t /\ t < n - 1 THEN table[t + 1]
                     ELSE IF t = n - 1 THEN NULL ELSE table[t]]

Disconnect(c) ==
    /\ Reading(c) /\ c \in read_fds /\ peer[c] \in {"fin", "broken"}
    /\ out_buf' = [LeaveNotice(out_buf, c) EXCEPT ![c] = <<>>]
    /\ peer' = [peer EXCEPT ![c] = "none"]
    /\ named' = [named EXCEPT ![c] = FALSE]
    /\ active_channel' = [active_channel EXCEPT ![c] = 0]
    /\ clients' = ShiftDown(clients, i, count)
    /\ count' = count - 1
    /\ NextSlot
    /\ UNCHANGED <<user_name, channelVars, private_channels, diskVars>>

(***************************************************************************)
(* LOGIN.  verify_username compares with every client below count, the     *)
(* asking one and those that never logged in included.  A client program   *)
(* that misread the answer logs in again, before it enters any channel.    *)
(***************************************************************************)

\* Mutant: the last client is not compared.
NameTaken_but_last(u) ==
    \E s \in Slots : s < count - 1 /\ user_name[clients[s]] = u
NameTaken(u) == \E s \in Slots : s < count /\ user_name[clients[s]] = u

Logs(c) == Reading(c) /\ active_channel[c] = 0 /\ (named[c] => May("relogin"))

LogInFails(c, u) ==
    /\ Logs(c) /\ May("refused")
    /\ u = NoName \/ NameTaken(u)
    /\ out_buf' = Respond(out_buf, c, Reply("LOGN:F"))
    /\ NextSlot
    /\ UNCHANGED <<tableVars, sessionVars, channelVars, private_channels, diskVars>>

LogIn(c, u) ==
    /\ Logs(c)
    /\ u # NoName /\ ~NameTaken(u)
    /\ out_buf' = Respond(out_buf, c, Reply("LOGN:S"))
    /\ user_name' = [user_name EXCEPT ![c] = u]
    /\ named' = [named EXCEPT ![c] = TRUE]
    /\ NextSlot
    /\ UNCHANGED <<tableVars, peer, active_channel, channelVars,
                   private_channels, diskVars>>

\* The client program sends nothing else before its LOGIN was accepted.
Requests(c) == Reading(c) /\ named[c]

(***************************************************************************)
(* START: create a channel and join it.  malloc leaves its bitmap as is.   *)
(***************************************************************************)
StartFails(c, n) ==
    /\ Requests(c) /\ May("refused") /\ Exists(n)
    /\ out_buf' = Respond(out_buf, c, Reply("START:F"))
    /\ NextSlot
    /\ UNCHANGED <<tableVars, sessionVars, channelVars, private_channels, diskVars>>

StartChannel(c, n) ==
    /\ Requests(c) /\ ~Exists(n) /\ num_channels < MaxChannels
    /\ out_buf' = LeaveNotice(Respond(out_buf, c, Reply("START:S")), c)
    /\ num_channels' = num_channels + 1
    /\ channel_name' = [channel_name EXCEPT ![num_channels + 1] = n]
    /\ \E bits \in FreshBitmaps :
          active_members' = JoinBits([active_members EXCEPT ![num_channels + 1] = bits],
                                     {num_channels + 1}, num_channels + 1,
                                     active_channel[c], i)
    /\ active_channel' = [active_channel EXCEPT ![c] = num_channels + 1]
    /\ NextSlot
    /\ UNCHANGED <<tableVars, peer, named, user_name, private_channels, diskVars>>

(***************************************************************************)
(* JOIN.  Whether the client is allowed is asked of the name it typed; the *)
(* name of a friend is then replaced by that of the private channel.       *)
(***************************************************************************)
JoinCrashes(c, n) ==
    /\ Requests(c)
    /\ \/ ScanCrashes(Invitations(user_name[c], n))
       \/ AllowedToJoin(user_name[c], n) /\ ScanCrashes(FriendHits(user_name[c], n))
    /\ Dies("null_channel")

JoinScansEnd(c, n) ==
    /\ ~ScanCrashes(Invitations(user_name[c], n))
    /\ AllowedToJoin(user_name[c], n) => ~ScanCrashes(FriendHits(user_name[c], n))

JoinFails(c, n) ==
    /\ Requests(c) /\ May("refused") /\ JoinScansEnd(c, n)
    /\ AllowedToJoin(user_name[c], n) => ~Exists(Resolve(user_name[c], n))
    /\ out_buf' = Respond(out_buf, c, Reply("JOIN:F"))
    /\ NextSlot
    /\ UNCHANGED <<tableVars, sessionVars, channelVars, private_channels, diskVars>>

\* Mutant: the reply follows the history instead of announcing it.
Joins_history_first(c, n, last) ==
    /\ active_members' = JoinBits(active_members, ChannelsNamed(n), last, active_channel[c], i)
    /\ active_channel' = [active_channel EXCEPT ![c] = last]
    /\ out_buf' = Respond(History(LeaveNotice(out_buf, c), c, n), c, Reply("JOIN:S"))
Joins(c, n, last) ==
    LET hits == ChannelsNamed(n)
        bits == JoinBits(active_members, hits, last, active_channel[c], i)
        buf  == LeaveNotice(Respond(out_buf, c, Reply("JOIN:S")), c)
    IN  /\ active_members' = bits
        /\ active_channel' = [active_channel EXCEPT ![c] = last]
        /\ out_buf' = Broadcast(History(buf, c, n),
                                Receivers(bits[FirstOf(hits)], {c}), Sys)

Join(c, n) ==
    /\ Requests(c) /\ JoinScansEnd(c, n) /\ AllowedToJoin(user_name[c], n)
    /\ LET target == Resolve(user_name[c], n)
       IN  \E last \in ChannelsNamed(target) :
              /\ IsLast(last, ChannelsNamed(target))
              /\ active_channel[c] \in ChannelsNamed(target) => May("rejoin")
              /\ Joins(c, target, last)
    /\ NextSlot
    /\ UNCHANGED <<tableVars, peer, named, user_name, num_channels, channel_name,
                   private_channels, diskVars>>

(***************************************************************************)
(* ONLINE: one scan of private_channels for every channel.                 *)
(***************************************************************************)
OnlineCrashes(c) ==
    /\ Requests(c) /\ May("online")
    /\ \E k \in 1 .. num_channels :
          ScanCrashes(Invitations(user_name[c], channel_name[k]))
    /\ Dies("null_channel")

Online(c) ==
    /\ Requests(c) /\ May("online")
    /\ \A k \in 1 .. num_channels :
          ~ScanCrashes(Invitations(user_name[c], channel_name[k]))
    /\ out_buf' = Respond(out_buf, c, Reply("ONLINE"))
    /\ NextSlot
    /\ UNCHANGED <<tableVars, sessionVars, channelVars, private_channels, diskVars>>

(***************************************************************************)
(* FRIEND.  The friend is the last client of that name; the channel is     *)
(* made whether or not one of its name exists.  The list is saved twice,   *)
(* before and after the invitation; saving a dangling entry ends the       *)
(* process after the file was truncated.                                   *)
(***************************************************************************)
Holders(u) == {s \in Slots : s < count /\ user_name[clients[s]] = u}

FriendUnknown(c, u) ==
    /\ Requests(c) /\ May("friend") /\ May("refused") /\ Holders(u) = {}
    /\ out_buf' = Respond(out_buf, c, Reply("FRIEND"))
    /\ NextSlot
    /\ UNCHANGED <<tableVars, sessionVars, channelVars, private_channels, diskVars>>

CanBefriend(c, u) ==
    /\ Requests(c) /\ May("friend") /\ Holders(u) # {}
    /\ num_channels < MaxChannels /\ Len(private_channels) < MaxPrivate
    /\ Exists(user_name[c] \o u) => May("refriend")

FriendCrashes(c, u) ==
    /\ CanBefriend(c, u) /\ \E p \in Entries : Dangling(p)
    /\ Ends("null_channel")
    /\ private_file' = <<>>

WithRequest(c) ==
    Append(private_channels, [channel |-> num_channels + 1, invited |-> {user_name[c]}])

\* Mutant: the list is not saved again after the invitation.
Befriend_saves_once(c, u) ==
    /\ CanBefriend(c, u) /\ \A p \in Entries : ~Dangling(p)
    /\ LET n == user_name[c] \o u
       IN  /\ channel_name' = [channel_name EXCEPT ![num_channels + 1] = n]
           /\ private_channels' = Invite(WithRequest(c), channel_name', n, u)
           /\ private_file' = Saved(WithRequest(c), channel_name')
    /\ num_channels' = num_channels + 1
    /\ NextSlot
    /\ UNCHANGED <<tableVars, sessionVars, out_buf, active_members, archive, sent, posted>>
Befriend(c, u) ==
    /\ CanBefriend(c, u) /\ \A p \in Entries : ~Dangling(p)
    /\ LET n == user_name[c] \o u
       IN  /\ channel_name' = [channel_name EXCEPT ![num_channels + 1] = n]
           /\ private_channels' = Invite(WithRequest(c), channel_name', n, u)
           /\ private_file' = Saved(private_channels', channel_name')
           /\ \E s \in Holders(u) :
                 /\ IsLast(s, Holders(u))
                 /\ out_buf' = Respond(Respond(out_buf, clients[s], Sys), c, Sys)
    /\ num_channels' = num_channels + 1
    /\ \E bits \in FreshBitmaps :
          active_members' = [active_members EXCEPT ![num_channels + 1] = bits]
    /\ NextSlot
    /\ UNCHANGED <<tableVars, sessionVars, archive, sent, posted>>

\* The server is stopped inside one of the two saves, or between them.
FriendInterrupted(c, u) ==
    /\ CanBefriend(c, u) /\ \A p \in Entries : ~Dangling(p)
    /\ May("kill_in_save")
    /\ \/ private_file' = <<>>
       \/ private_file' = Saved(WithRequest(c),
              [channel_name EXCEPT ![num_channels + 1] = user_name[c] \o u])
    /\ Ends("killed")

(***************************************************************************)
(* LEAVE: active_channel is cleared, the bit of the client is not.         *)
(***************************************************************************)
Leave(c) ==
    /\ Requests(c) /\ May("leave")
    /\ out_buf' = Respond(LeaveNotice(out_buf, c), c, Reply("LEAVE:S"))
    /\ active_channel' = [active_channel EXCEPT ![c] = 0]
    /\ NextSlot
    /\ UNCHANGED <<tableVars, peer, named, user_name, channelVars,
                   private_channels, diskVars>>

(***************************************************************************)
(* Any other action is a message for the channel the client is in: it is   *)
(* archived, if the archive can be opened, and broadcast to the members,   *)
(* the sender included, whether or not it was archived.                    *)
(***************************************************************************)
ActiveName(c) == channel_name[active_channel[c]]

SendNowhere(c) ==
    /\ Requests(c) /\ active_channel[c] = 0
    /\ NextSlot
    /\ UNCHANGED <<tableVars, sessionVars, out_buf, channelVars,
                   private_channels, diskVars>>

\* Mutant: the file is opened to be written, not to be appended to.
archive_message_overwrites(n, id) ==
    archive' = IF n \in Unfiled THEN archive
               ELSE [m \in DOMAIN archive \cup {n} |->
                        IF m = n THEN <<id>> ELSE archive[m]]
archive_message(n, id) ==
    archive' = IF n \in Unfiled THEN archive
               ELSE [m \in DOMAIN archive \cup {n} |->
                        IF m = n THEN Append(Archived(n), id) ELSE archive[m]]

Send(c) ==
    /\ Requests(c) /\ active_channel[c] # 0 /\ sent < MaxMessages
    /\ sent' = sent + 1 /\ posted' = Append(posted, ActiveName(c))
    /\ archive_message(ActiveName(c), sent + 1)
    /\ out_buf' = Broadcast(out_buf,
                     Receivers(active_members[FirstOf(ChannelsNamed(ActiveName(c)))], {}),
                     [action |-> "SEND", id |-> sent + 1])
    /\ NextSlot
    /\ UNCHANGED <<tableVars, sessionVars, channelVars, private_channels, private_file>>

ReadsEnd ==
    /\ pc = "read" /\ i >= count
    /\ pc' = "write" /\ i' = 0 /\ read_fds' = {}
    /\ UNCHANGED <<fault, num_new, tableVars, sessionVars, out_buf,
                   channelVars, private_channels, diskVars>>

-----------------------------------------------------------------------------
(***************************************************************************)
(* The write loop.  The sockets block, so a write takes all of out_buf.    *)
(* Data written to a peer that has closed brings a reset back, which the   *)
(* next write, of no bytes even, answers with SIGPIPE.                     *)
(***************************************************************************)
Writing(c) == pc = "write" /\ i < count /\ c = clients[i]

Write(c) ==
    /\ Writing(c) /\ peer[c] \in {"open", "fin"}
    /\ out_buf' = [out_buf EXCEPT ![c] = <<>>]
    /\ \/ UNCHANGED peer
       \/ /\ peer[c] = "fin" /\ out_buf[c] # <<>>
          /\ peer' = [peer EXCEPT ![c] = "broken"]
    /\ NextSlot
    /\ UNCHANGED <<tableVars, named, user_name, active_channel, channelVars,
                   private_channels, diskVars>>

WriteFails(c) ==
    /\ Writing(c) /\ peer[c] = "reset"
    /\ peer' = [peer EXCEPT ![c] = "broken"]
    /\ NextSlot
    /\ UNCHANGED <<tableVars, named, user_name, active_channel, out_buf,
                   channelVars, private_channels, diskVars>>

WriteCrashes(c) ==
    /\ Writing(c) /\ peer[c] = "broken"
    /\ Dies("sigpipe")

SkipWrite(c) ==
    /\ Writing(c) /\ May("slow") /\ peer[c] \in {"open", "fin"}
    /\ NextSlot
    /\ UNCHANGED <<tableVars, sessionVars, out_buf, channelVars,
                   private_channels, diskVars>>

\* The end of an iteration: only now is a new connection counted.
WritesEnd ==
    /\ pc = "write" /\ i >= count
    /\ pc' = "select" /\ i' = 0 /\ num_new' = 0
    /\ count' = count + num_new
    /\ UNCHANGED <<fault, read_fds, clients, sessionVars, out_buf, channelVars,
                   private_channels, diskVars>>

-----------------------------------------------------------------------------
\* One request: everything handle_client_read may do with a whole message.
Request(c) ==
    \/ \E u \in UserNames \cup {NoName} : LogInFails(c, u) \/ LogIn(c, u)
    \/ \E n \in ChannelNames : StartFails(c, n) \/ StartChannel(c, n)
    \/ \E n \in TypedNames : JoinCrashes(c, n) \/ JoinFails(c, n) \/ Join(c, n)
    \/ OnlineCrashes(c) \/ Online(c)
    \/ \E u \in UserNames \cup {NoName} :
          FriendUnknown(c, u) \/ FriendCrashes(c, u) \/ Befriend(c, u)
    \/ Leave(c)
    \/ SendNowhere(c) \/ Send(c)

\* What the server does by itself: the loop goes on.
ServerStep ==
    \/ SelectCrashes \/ Select \/ ReadsEnd \/ WritesEnd
    \/ \E c \in Clients :
          \/ SkipRead(c) \/ ReadFails(c) \/ Disconnect(c) \/ Request(c)
          \/ Write(c) \/ WriteFails(c) \/ WriteCrashes(c) \/ SkipWrite(c)

Environment ==
    \/ Launch \/ Kill
    \/ \E c \in Clients :
          \/ Accept(c) \/ PeerCloses(c)
          \/ \E u \in UserNames \cup {NoName} : FriendInterrupted(c, u)

Next == ServerStep \/ Environment

Spec == Init /\ [][Next]_vars

(***************************************************************************)
(* The loop of main() goes on as long as select(), read() and write()      *)
(* return, and what a peer sent before it closed is finite: its end is     *)
(* read in the end.  Nothing else is assumed of the peers, and nothing of  *)
(* the operator.                                                           *)
(***************************************************************************)
FairSpec == Spec /\ WF_vars(ServerStep) /\ \A c \in Clients : SF_vars(Disconnect(c))

-----------------------------------------------------------------------------
(***************************************************************************)
(* Every variable keeps its type; no pointer leads to a channel that is    *)
(* not in channels[], and no buffer holds more than the code's test lets   *)
(* in.                                                                     *)
(***************************************************************************)
PrivateEntries == [channel: 0 .. MaxChannels, invited: SUBSET Names]
FileEntries    == [name: Names, invited: SUBSET Names]

LoopType ==
    /\ pc \in {"down", "select", "read", "write"}
    /\ fault \in {"none", "killed", "null_slot", "null_channel", "sigpipe"}
    /\ i \in 0 .. MaxConnections
    /\ num_new \in {0, 1}
    /\ read_fds \in SUBSET Clients
TableType ==
    /\ clients \in [Slots -> Clients \cup {NULL}]
    /\ count \in 0 .. MaxConnections
    /\ count + num_new <= MaxConnections
SessionType ==
    /\ peer \in [Clients -> PeerStates]
    /\ named \in [Clients -> BOOLEAN]
    /\ user_name \in [Clients -> Names]
    /\ active_channel \in [Clients -> 0 .. MaxChannels]
    /\ \A c \in Clients : active_channel[c] <= num_channels
BufferType ==
    /\ out_buf \in [Clients -> Seq(Messages)]
    /\ \A c \in Clients : Len(out_buf[c]) <= OutCap
ChannelType ==
    /\ num_channels \in 0 .. MaxChannels
    /\ channel_name \in [ChannelIds -> Names]
    /\ active_members \in [ChannelIds -> SUBSET Slots]
PrivateType ==
    /\ private_channels \in Seq(PrivateEntries)
    /\ \A p \in Entries : private_channels[p].channel <= num_channels
DiskType ==
    /\ DOMAIN archive \subseteq Names
    /\ \A n \in DOMAIN archive : archive[n] \in Seq(Nat)
    /\ private_file \in Seq(FileEntries)
    /\ sent \in 0 .. MaxMessages
    /\ posted \in Seq(Names) /\ Len(posted) = sent

TypeOK == /\ LoopType /\ TableType /\ SessionType /\ BufferType
          /\ ChannelType /\ PrivateType /\ DiskType

(***************************************************************************)
(* The slot table: no slot points to a freed Client, no Client has two     *)
(* slots, and every connection has a slot, whatever the order of           *)
(* disconnections and of the acceptance that overlaps with them            *)
(* (server.c:274-300, 325-330).                                            *)
(***************************************************************************)
TableSound ==
    /\ \A s \in Slots : clients[s] # NULL => peer[clients[s]] # "none"
    /\ \A s, t \in Slots : clients[s] # NULL /\ clients[s] = clients[t] => s = t
    /\ \A c \in Clients : peer[c] # "none" => \E s \in Slots : clients[s] = c

(***************************************************************************)
(* No two logged-in clients share a name, although a connection is not     *)
(* looked at by verify_username in the iteration that accepts it, slots    *)
(* move while names are compared, and unused names linger in freed memory  *)
(* (server.c:595-610).                                                     *)
(***************************************************************************)
UniqueNames ==
    \A c, d \in Clients :
        named[c] /\ named[d] /\ user_name[c] = user_name[d] => c = d

(***************************************************************************)
(* The bitmap says who is in the channel, as entities.h:28 has it: the bit *)
(* of a slot is set exactly in the active channel of the client there.     *)
(***************************************************************************)
SitsIn(s, k) == s < count /\ clients[s] # NULL /\ active_channel[clients[s]] = k
MembersExact ==
    \A k \in 1 .. num_channels : \A s \in Slots :
        s \in active_members[k] <=> SitsIn(s, k)

(***************************************************************************)
(* The bitmap stops saying who is in the channel in four ways only: a      *)
(* client leaves and its bit stays (server.c:434-442); one disconnects and *)
(* a client at its slot or above it is in a channel (server.c:325-330);    *)
(* one joins the channel it is in, and no twin of it, and its bit goes     *)
(* (channels.c:37-53); a new channel has bits that nobody set              *)
(* (channels.c:30).  Whatever else joins, leaves for another channel,      *)
(* waits beyond count, befriends, or is killed and restarted, does not.    *)
(***************************************************************************)
Lingers(c)   == Leave(c) /\ active_channel[c] # 0
SlotsMove(c) == Disconnect(c) /\ \E s \in Slots, k \in ChannelIds : s >= i /\ SitsIn(s, k)
Rejoins(c)   == \E n \in TypedNames :
                   Join(c, n) /\ ChannelsNamed(Resolve(user_name[c], n)) = {active_channel[c]}
DirtyBitmap  == \E k \in num_channels + 1 .. num_channels' :
                   \E s \in active_members'[k] : ~SitsIn(s, k)'
DriftHasACause ==
    [][MembersExact /\ ~MembersExact' =>
          DirtyBitmap \/ \E c \in Clients : Lingers(c) \/ SlotsMove(c) \/ Rejoins(c)]_vars

(***************************************************************************)
(* As long as the bitmaps are right, a message goes to the clients that    *)
(* are in the first channel of the name the sender is in, if their buffer  *)
(* has room, and to nobody else (README:72, server.c:192-227).  When a     *)
(* repeated friend request made twins of one name, those in a later twin,  *)
(* the sender itself maybe, are not sent it.                               *)
(***************************************************************************)
HearsFirst(c, n) == Tabled(c) /\ active_channel[c] = FirstOf(ChannelsNamed(n))
Gains(c, m) == out_buf'[c] = Append(out_buf[c], m)

BroadcastReachesRoom ==
    [][sent' # sent /\ MembersExact =>
         \A c \in Clients :
            IF HearsFirst(c, ActiveName(clients[i])) /\ HasRoom(out_buf[c])
            THEN Gains(c, [action |-> "SEND", id |-> sent'])
            ELSE out_buf'[c] = out_buf[c]]_vars

(***************************************************************************)
(* Joining loses nothing and repeats nothing: as long as its buffer never  *)
(* filled up and its channel has an archive that opens, what a client is   *)
(* sent after the reply that let it into the channel, history first and    *)
(* live messages after, is the whole archive of that channel in order      *)
(* (server.c:403-415, 443-450).                                            *)
(***************************************************************************)
Entry == {"JOIN:S", "START:S"}
LastEntry(q) == CHOOSE j \in DOMAIN q : /\ q[j].action \in Entry
                                        /\ \A l \in DOMAIN q : q[l].action \in Entry => l <= j
\* The places of the history and of the live messages since then.
Heard(q) == {j \in LastEntry(q) .. Len(q) : q[j].action \in {"HIST", "SEND"}}
Rank(j, S) == Cardinality({l \in S : l <= j})

SeamlessJoin ==
    \A c \in Clients :
        /\ active_channel[c] # 0 /\ ActiveName(c) \notin Unfiled
        /\ HasRoom(out_buf[c])
        /\ \E j \in DOMAIN out_buf[c] : out_buf[c][j].action \in Entry
        => LET heard == Heard(out_buf[c])
               whole == Archived(ActiveName(c))
           IN  /\ Cardinality(heard) = Len(whole)
               /\ \A j \in heard : out_buf[c][j].id = whole[Rank(j, heard)]

(***************************************************************************)
(* What a client is sent as a message is in the archive of the channel it  *)
(* was said in, and so is in the history of whoever joins later; unless    *)
(* the name of that channel makes no file name, and then it is only ever   *)
(* sent live (server.c:164-184, 228-262, 443-450).                         *)
(***************************************************************************)
KeptIn(n, id) == \E k \in DOMAIN Archived(n) : Archived(n)[k] = id
ShownIsArchived ==
    \A c \in Clients : \A j \in DOMAIN out_buf[c] :
        out_buf[c][j].action \in {"SEND", "HIST"} =>
            LET m == out_buf[c][j]
            IN  \/ KeptIn(posted[m.id], m.id)
                \/ m.action = "SEND" /\ posted[m.id] \in Unfiled

(***************************************************************************)
(* Nothing that was archived is ever changed or dropped, by a message, a   *)
(* crash or a restart (server.c:164-184).                                  *)
(***************************************************************************)
IsPrefixOf(q, r) == Len(q) <= Len(r) /\ \A j \in DOMAIN q : r[j] = q[j]
ArchiveAppendOnly ==
    [][\A n \in DOMAIN archive :
          n \in DOMAIN archive' /\ IsPrefixOf(archive[n], archive'[n])]_vars

(***************************************************************************)
(* Whoever is in a private channel was invited to it, although JOIN asks   *)
(* about the name typed and not about the channel it resolves to           *)
(* (server.c:385-401): the one way in without an invitation is to type a   *)
(* name that gives, before or after one's own, the name of the channel,    *)
(* which the code takes for that of a friend (channels.c:182-209).         *)
(***************************************************************************)
Namesake(u, n) == \E m \in TypedNames : n \in {u \o m, m \o u}
OnlyInvitedInside ==
    \A c \in Clients : \A p \in Entries :
        active_channel[c] # 0 /\ private_channels[p].channel = active_channel[c] =>
            \/ Invitations(user_name[c], ActiveName(c)) # {}
            \/ Namesake(user_name[c], ActiveName(c))

(***************************************************************************)
(* While the server runs, its file holds the list it has in memory, name   *)
(* by name and invitation by invitation: every change was saved, and a     *)
(* restart read all of it back (channels.c:105-180).                       *)
(***************************************************************************)
StoreMatches ==
    pc # "down" =>
        /\ DOMAIN private_file = Entries
        /\ \A p \in Entries :
              /\ private_file[p].invited = private_channels[p].invited
              /\ ~Dangling(p) => private_file[p].name = EntryName(p)

(***************************************************************************)
(* "Invite list persisted across restarts" (README:8): an invitation that  *)
(* was saved is in every later state of the file.                          *)
(***************************************************************************)
SavedIn(file, n, u) == \E p \in DOMAIN file : file[p].name = n /\ u \in file[p].invited
InvitesSurvive ==
    [][\A p \in DOMAIN private_file : \A u \in private_file[p].invited :
          SavedIn(private_file', private_file[p].name, u)]_vars

(***************************************************************************)
(* A private channel whose name has no archive at a restart is loaded as   *)
(* NULL, which "we do not need an explicit handling" for                   *)
(* (channels.c:156): no NULL channel ends the process.                     *)
(***************************************************************************)
NullChannelHandled == fault # "null_channel"

(***************************************************************************)
(* "Remove zombie client from array & shift remaining clients"             *)
(* (server.c:324): at the top of the loop every slot below count holds a   *)
(* client, and no client is beyond it.                                     *)
(***************************************************************************)
TableDense ==
    pc = "select" => \A s \in Slots : clients[s] # NULL <=> s < count

(***************************************************************************)
(* A connection that its peer has closed is freed in the end, although the *)
(* read loop skips the client after every one it removes                   *)
(* (server.c:138-145, 331).                                                *)
(***************************************************************************)
ClosedIsRemoved == \A c \in Clients : Closed(c) ~> peer[c] = "none"
=============================================================================
