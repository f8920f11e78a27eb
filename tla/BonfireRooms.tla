----------------------------- MODULE BonfireRooms -----------------------------
(***************************************************************************)
(* BonfireServer implements ChatRoom: its channels are rooms by name, its  *)
(* bitmaps are what clients hear, its out_bufs are inboxes.                *)
(***************************************************************************)
EXTENDS BonfireServer

\* A friend channel is called by the names of the two.
PairNames == {u \o v : u \in UserNames, v \in UserNames \cup {NoName}}

LoginName == [c \in Clients |-> IF named[c] THEN user_name[c] ELSE NoName]
RoomNames == {channel_name[k] : k \in 1 .. num_channels}
Within    == [c \in Clients |-> IF active_channel[c] = 0 THEN {}
                                ELSE {channel_name[active_channel[c]]}]

\* The channels whose bitmap has the slot of a client that is counted.
HeardChannels(c) ==
    {k \in 1 .. num_channels :
        \E s \in active_members[k] : s < count /\ clients[s] = c}
Hearing == [c \in Clients |-> {channel_name[k] : k \in HeardChannels(c)}]

Room == INSTANCE ChatRoom WITH
    Names    <- UserNames \cup ChannelNames \cup PairNames,
    Capacity <- OutCap,
    MaxSaid  <- MaxMessages,
    running  <- pc # "down",
    name     <- LoginName,
    rooms    <- RoomNames,
    inside   <- Within,
    hears    <- Hearing,
    inbox    <- out_buf,
    said     <- sent

(***************************************************************************)
(* Every turn of the server's loops is a step of the rooms, or one that    *)
(* the users do not see: the table, the bitmaps and the lookups by name    *)
(* come to what ChatRoom says (README:69-73, server.c, channels.c).        *)
(***************************************************************************)
ImplementsRooms == Room!RoomSpec
=============================================================================
