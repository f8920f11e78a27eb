------------------------ MODULE BonfireServerProofs ------------------------
(***************************************************************************)
(* What holds of BonfireServer for every value of its constants: the types *)
(* of its state, what its steps do to the buffers and the files, and the   *)
(* slot table.                                                             *)
(***************************************************************************)
EXTENDS BonfireServer, TLAPS, SequenceTheorems

-----------------------------------------------------------------------------
(***************************************************************************)
(* Buffers: every operator that queues messages keeps them well formed and *)
(* within the capacity.                                                    *)
(***************************************************************************)
BufOK(buf) ==
    /\ buf \in [Clients -> Seq(Messages)]
    /\ \A c \in Clients : Len(buf[c]) <= OutCap

\* A function on 1 .. n is a sequence of length n.
LEMMA FunctionIsSequence ==
    ASSUME NEW S, NEW n \in Nat, NEW f \in [1 .. n -> S]
    PROVE  f \in Seq(S) /\ Len(f) = n
<1>1. f \in Seq(S)
  BY SeqDef
<1>2. Len(f) \in Nat /\ 1 .. Len(f) = 1 .. n
  BY <1>1, LenProperties
<1> QED BY <1>1, <1>2

\* A message is queued only where there is room.
LEMMA RespondType ==
    ASSUME NEW buf, BufOK(buf), NEW c, NEW m \in Messages
    PROVE  BufOK(Respond(buf, c, m))
<1>1. ASSUME NEW d \in Clients
      PROVE  /\ Respond(buf, c, m)[d] \in Seq(Messages)
             /\ Len(Respond(buf, c, m)[d]) <= OutCap
  <2>1. buf[d] \in Seq(Messages) /\ Len(buf[d]) <= OutCap
    BY DEF BufOK
  <2>2. Append(buf[d], m) \in Seq(Messages) /\ Len(Append(buf[d], m)) = Len(buf[d]) + 1
    BY <2>1, AppendProperties
  <2> QED
    BY <2>1, <2>2, BoundsAssumption DEF Respond, HasRoom, BufOK
<1>2. Respond(buf, c, m) = [d \in Clients |-> Respond(buf, c, m)[d]]
  BY DEF Respond, BufOK
<1> QED BY <1>1, <1>2 DEF BufOK

\* A broadcast queues at most one message for each client.
LEMMA BroadcastType ==
    ASSUME NEW buf, BufOK(buf), NEW cs, NEW m \in Messages
    PROVE  BufOK(Broadcast(buf, cs, m))
BY BoundsAssumption DEF BufOK, Broadcast, HasRoom

\* The server's own messages are messages.
LEMMA ReplyType == \A a \in Actions : Reply(a) \in Messages
BY DEF Reply, Messages

LEMMA SysType == Sys \in Messages
BY DEF Sys, Reply, Messages, Actions

\* A notice is a broadcast or nothing.
LEMMA LeaveNoticeType ==
    ASSUME NEW buf, BufOK(buf), NEW c
    PROVE  BufOK(LeaveNotice(buf, c))
BY BroadcastType, SysType DEF LeaveNotice

\* The history of a channel fills a buffer at most.
LEMMA HistoryType ==
    ASSUME DiskType, NEW buf, BufOK(buf), NEW c, NEW n
    PROVE  BufOK(History(buf, c, n))
<1> DEFINE take == Smaller(Len(Archived(n)), OutCap - Len(buf[c]))
           hist == [j \in 1 .. take |-> [action |-> "HIST", id |-> Archived(n)[j]]]
<1>1. Archived(n) \in Seq(Nat)
  BY DEF DiskType, Archived
<1>2. CASE c \in Clients
  <2>1. take \in Nat /\ take <= Len(Archived(n)) /\ take + Len(buf[c]) <= OutCap
    BY <1>1, <1>2, BoundsAssumption DEF BufOK, Smaller
  <2>2. hist \in Seq(Messages) /\ Len(hist) = take
    <3>1. hist \in [1 .. take -> Messages]
      BY <2>1, <1>1 DEF Messages, Actions
    <3> HIDE DEF hist, take
    <3> QED BY <2>1, <3>1, FunctionIsSequence
  <2> HIDE DEF hist, take
  <2>3. buf[c] \o hist \in Seq(Messages) /\ Len(buf[c] \o hist) = Len(buf[c]) + Len(hist)
    BY <2>2, <1>2, ConcatProperties DEF BufOK
  <2>4. History(buf, c, n) = [buf EXCEPT ![c] = buf[c] \o hist]
    BY <1>2 DEF History, hist, take, BufOK
  <2> QED
    BY <2>1, <2>2, <2>3, <2>4, <1>2 DEF BufOK
<1>3. CASE c \notin Clients
  BY <1>3 DEF History, BufOK
<1> QED BY <1>2, <1>3

-----------------------------------------------------------------------------
(***************************************************************************)
(* Type correctness.  First the pieces several actions share.  Types alone *)
(* are not inductive: Launch keeps active_channel, which is in the new     *)
(* channels[] because it was NULL while the server was down.               *)
(***************************************************************************)
Stopped ==
    pc = "down" =>
        /\ clients = EmptyTable /\ count = 0 /\ num_new = 0
        /\ peer = [c \in Clients |-> "none"]
        /\ named = [c \in Clients |-> FALSE]
        /\ active_channel = [c \in Clients |-> 0]
        /\ out_buf = [c \in Clients |-> <<>>]
        /\ num_channels = 0

\* The end of the process leaves empty tables, whatever was saved.
LEMMA EndsType ==
    ASSUME TypeOK, NEW why \in {"killed", "null_slot", "null_channel", "sigpipe"},
           Ends(why), private_file' \in Seq(FileEntries)
    PROVE  TypeOK'
<1> USE BoundsAssumption DEF TypeOK, Ends
<1>1. LoopType'
  BY DEF LoopType
<1>2. TableType'
  BY DEF TableType, EmptyTable
<1>3. SessionType'
  BY DEF SessionType, PeerStates, Names, NoName, ChannelType
<1>4. BufferType'
  BY DEF BufferType
<1>5. ChannelType'
  BY DEF ChannelType, Names, NoName
<1>6. PrivateType' /\ DiskType'
  BY DEF PrivateType, DiskType, Entries
<1> QED BY <1>1, <1>2, <1>3, <1>4, <1>5, <1>6

\* So does an end that saves nothing.
LEMMA DiesType ==
    ASSUME TypeOK, NEW why \in {"killed", "null_slot", "null_channel", "sigpipe"},
           Dies(why)
    PROVE  TypeOK'
<1>1. private_file' \in Seq(FileEntries)
  BY DEF Dies, TypeOK, DiskType
<1> QED BY <1>1, EndsType DEF Dies

\* A turn of a loop that only queues messages.
LEMMA QueueType ==
    ASSUME TypeOK, NextSlot, i < count, BufOK(out_buf'),
           UNCHANGED <<tableVars, sessionVars, channelVars, private_channels, diskVars>>
    PROVE  TypeOK'
<1> USE DEF TypeOK, NextSlot, loopVars, tableVars, sessionVars, channelVars, diskVars
<1>1. LoopType'
  BY BoundsAssumption DEF LoopType, TableType
<1>2. TableType' /\ SessionType' /\ ChannelType' /\ PrivateType' /\ DiskType'
  BY DEF TableType, SessionType, ChannelType, PrivateType, DiskType, Entries
<1>3. BufferType'
  BY DEF BufferType, BufOK
<1> QED BY <1>1, <1>2, <1>3

\* The initial state is well typed.
LEMMA InitType == Init => TypeOK
<1> SUFFICES ASSUME Init PROVE TypeOK
  OBVIOUS
<1> USE BoundsAssumption DEF Init
<1>1. LoopType /\ TableType
  BY DEF LoopType, TableType, EmptyTable
<1>2. SessionType /\ BufferType /\ ChannelType
  BY DEF SessionType, BufferType, ChannelType, PeerStates, Names, NoName
<1>3. PrivateType /\ DiskType
  BY DEF PrivateType, DiskType, Entries
<1> QED BY <1>1, <1>2, <1>3 DEF TypeOK

-----------------------------------------------------------------------------
(***************************************************************************)
(* The actions that change more than queues, one lemma each.               *)
(***************************************************************************)

\* Loading gives every entry a channel that was loaded, or NULL.
LEMMA LoadedType ==
    ASSUME NEW n \in 0 .. MaxChannels, NEW files \in [1 .. n -> DOMAIN archive],
           Lists(files, DOMAIN archive), private_file \in Seq(FileEntries)
    PROVE  /\ Loaded(files, private_file) \in Seq(PrivateEntries)
           /\ DOMAIN Loaded(files, private_file) = DOMAIN private_file
           /\ \A p \in DOMAIN private_file :
                 LET e == Loaded(files, private_file)[p]
                 IN  /\ e.channel \in 0 .. n
                     /\ e.channel # 0 => files[e.channel] = private_file[p].name
                     /\ e.invited = private_file[p].invited
<1> DEFINE hits(p) == {k \in DOMAIN files : files[k] = private_file[p].name}
<1> DEFINE chan(p) == IF hits(p) = {} THEN 0 ELSE FirstOf(hits(p))
<1>1. Loaded(files, private_file) =
         [p \in DOMAIN private_file |->
            [channel |-> chan(p), invited |-> private_file[p].invited]]
  BY DEF Loaded
<1>2. ASSUME NEW p \in DOMAIN private_file
      PROVE  chan(p) \in 0 .. n /\ (chan(p) # 0 => files[chan(p)] = private_file[p].name)
  <2>1. CASE hits(p) = {}
    BY <2>1
  <2>2. CASE hits(p) # {}
    <3>1. PICK k \in hits(p) : TRUE
      BY <2>2
    <3>2. \A l \in hits(p) : l = k
      BY <3>1 DEF Lists
    <3>3. \A l \in hits(p) : k <= l
      BY <3>1, <3>2, BoundsAssumption
    <3>4. FirstOf(hits(p)) \in hits(p)
      BY <3>1, <3>3 DEF FirstOf
    <3> QED BY <3>4, <2>2, BoundsAssumption
  <2> QED BY <2>1, <2>2
<1>3. \A p \in DOMAIN private_file : private_file[p] \in FileEntries
  BY ElementOfSeq, LenProperties
<1>4. Len(private_file) \in Nat /\ DOMAIN private_file = 1 .. Len(private_file)
  BY LenProperties
<1> HIDE DEF chan
<1>5. Loaded(files, private_file) \in [1 .. Len(private_file) -> PrivateEntries]
  BY <1>1, <1>2, <1>3, <1>4, BoundsAssumption DEF PrivateEntries, FileEntries
<1>6. Loaded(files, private_file) \in Seq(PrivateEntries)
  BY <1>4, <1>5, FunctionIsSequence
<1> QED BY <1>1, <1>2, <1>6

\* A restart rebuilds the tables from the two kinds of files.
LEMMA LaunchType == ASSUME TypeOK, Stopped, Launch PROVE TypeOK'
<1> USE BoundsAssumption DEF TypeOK
<1>1. PICK n \in 0 .. MaxChannels :
         \E files \in [1 .. n -> DOMAIN archive], bits \in [1 .. n -> FreshBitmaps] :
            Reload(n, files, bits)
  BY DEF Launch
<1>2. PICK files \in [1 .. n -> DOMAIN archive], bits \in [1 .. n -> FreshBitmaps] :
         Reload(n, files, bits)
  BY <1>1
<1>3. LoopType' /\ TableType' /\ BufferType' /\ DiskType'
  BY DEF Launch, LoopType, TableType, BufferType, DiskType, tableVars, diskVars
<1>4. ChannelType'
  <2>1. NoName \in Names /\ \A k \in 1 .. n : files[k] \in Names
    BY DEF DiskType, Names, NoName
  <2>2. \A k \in 1 .. n : bits[k] \in SUBSET Slots
    BY BitmapsAssumption
  <2> QED BY <1>2, <2>1, <2>2 DEF Reload, ChannelType, ChannelIds
<1>5. PrivateType'
  BY <1>2, LoadedType DEF Reload, PrivateType, DiskType, Entries
<1>6. SessionType'
  BY <1>2 DEF Launch, Reload, Stopped, SessionType, sessionVars
<1> QED BY <1>3, <1>4, <1>5, <1>6

\* The shift moves entries of the table, and clears one.
LEMMA DisconnectType == ASSUME TypeOK, NEW c \in Clients, Disconnect(c) PROVE TypeOK'
<1> USE BoundsAssumption DEF TypeOK, Disconnect, Reading, NextSlot, loopVars
<1>1. LoopType'
  BY DEF LoopType, TableType
<1>2. TableType'
  BY DEF TableType, LoopType, ShiftDown, Slots
<1>3. SessionType' /\ ChannelType' /\ PrivateType' /\ DiskType'
  BY DEF SessionType, ChannelType, PrivateType, DiskType, Entries, PeerStates,
         channelVars, diskVars
<1>4. BufferType'
  <2>1. BufOK(LeaveNotice(out_buf, c))
    BY LeaveNoticeType DEF BufferType, BufOK
  <2>2. <<>> \in Seq(Messages) /\ Len(<<>>) <= OutCap
    OBVIOUS
  <2> QED
    BY <2>1, <2>2 DEF BufOK, BufferType
<1> QED BY <1>1, <1>2, <1>3, <1>4

\* A bitmap stays a set of slots.
LEMMA JoinBitsType ==
    ASSUME NEW members \in [ChannelIds -> SUBSET Slots], NEW hits, NEW last, NEW old,
           NEW s \in Slots
    PROVE  JoinBits(members, hits, last, old, s) \in [ChannelIds -> SUBSET Slots]
BY DEF JoinBits

\* The slot being read is a slot.
LEMMA ReadSlot == ASSUME TypeOK, i < count PROVE i \in Slots
BY BoundsAssumption DEF TypeOK, LoopType, TableType, Slots

\* An entry of private_channels is NULL or a channel of channels[].
LEMMA EntryType ==
    ASSUME PrivateType, ChannelType
    PROVE  /\ Len(private_channels) \in Nat /\ Entries = 1 .. Len(private_channels)
           /\ \A p \in Entries : /\ private_channels[p] \in PrivateEntries
                                 /\ private_channels[p].channel \in 0 .. num_channels
<1>1. Len(private_channels) \in Nat /\ Entries = 1 .. Len(private_channels)
  BY LenProperties DEF PrivateType, Entries
<1>2. \A p \in Entries : private_channels[p] \in PrivateEntries
  BY <1>1, ElementOfSeq DEF PrivateType
<1> QED BY <1>1, <1>2, BoundsAssumption DEF PrivateType, PrivateEntries, ChannelType

\* START fills one more place of channels[].
LEMMA StartChannelType ==
    ASSUME TypeOK, NEW c \in Clients, NEW n \in ChannelNames, StartChannel(c, n)
    PROVE  TypeOK'
<1> USE BoundsAssumption, NamesAssumption
    DEF TypeOK, StartChannel, Requests, Reading, NextSlot, loopVars
<1>1. LoopType' /\ TableType' /\ DiskType'
  BY DEF LoopType, TableType, DiskType, tableVars, diskVars
<1>0. num_channels' \in 0 .. MaxChannels /\ num_channels' = num_channels + 1
  BY DEF ChannelType
<1>5. PrivateType'
  BY <1>0, EntryType DEF PrivateType, Entries, ChannelType
<1>2. SessionType'
  BY DEF SessionType, ChannelType
<1>3. BufferType'
  BY RespondType, ReplyType, LeaveNoticeType DEF BufferType, BufOK, Actions
<1>4. ChannelType'
  <2>1. PICK bits \in FreshBitmaps :
          active_members' = JoinBits([active_members EXCEPT ![num_channels + 1] = bits],
                                     {num_channels + 1}, num_channels + 1,
                                     active_channel[c], i)
    OBVIOUS
  <2>2. [active_members EXCEPT ![num_channels + 1] = bits] \in [ChannelIds -> SUBSET Slots]
    BY BitmapsAssumption DEF ChannelType
  <2>3. active_members' \in [ChannelIds -> SUBSET Slots]
    BY <2>1, <2>2, ReadSlot, JoinBitsType
  <2>4. channel_name' \in [ChannelIds -> Names]
    BY DEF ChannelType
  <2> QED BY <2>3, <2>4, <1>0 DEF ChannelType
<1> QED BY <1>1, <1>2, <1>3, <1>4, <1>5

\* JOIN moves one client and leaves channels[] as it is.
LEMMA JoinType ==
    ASSUME TypeOK, NEW c \in Clients, NEW n \in TypedNames, Join(c, n)
    PROVE  TypeOK'
<1> USE BoundsAssumption DEF TypeOK, Requests, Reading, NextSlot, loopVars
<1> DEFINE target == Resolve(user_name[c], n)
<1>1. PICK last \in ChannelsNamed(target) : Joins(c, target, last)
  BY DEF Join
<1>2. LoopType' /\ TableType' /\ PrivateType' /\ DiskType'
  BY DEF Join, LoopType, TableType, PrivateType, DiskType, Entries, tableVars, diskVars
<1> HIDE DEF target
<1>3. SessionType'
  BY <1>1 DEF Join, Joins, SessionType, ChannelType, ChannelsNamed
<1>4. BufferType'
  <2>1. BufOK(out_buf)
    BY DEF BufferType, BufOK
  <2>2. BufOK(LeaveNotice(Respond(out_buf, c, Reply("JOIN:S")), c))
    BY <2>1, RespondType, ReplyType, LeaveNoticeType DEF Actions
  <2>3. BufOK(out_buf')
    BY <1>1, <2>2, HistoryType, BroadcastType, SysType DEF Joins
  <2> QED BY <2>3 DEF BufOK, BufferType
<1>5. ChannelType'
  <2>1. active_members' \in [ChannelIds -> SUBSET Slots]
    BY <1>1, ReadSlot, JoinBitsType DEF Joins, ChannelType, Join
  <2> QED BY <2>1 DEF Join, ChannelType
<1> QED BY <1>2, <1>3, <1>4, <1>5

-----------------------------------------------------------------------------
(***************************************************************************)
(* Private channels and the archive.                                       *)
(***************************************************************************)

\* A list of entries whose channels are in channels[] up to n.
Listed(list, n) ==
    /\ list \in Seq(PrivateEntries)
    /\ \A p \in DOMAIN list : list[p].channel \in 1 .. n

\* An invitation keeps every entry and its channel.
LEMMA InviteType ==
    ASSUME NEW list, NEW k, Listed(list, k), NEW names, NEW n, NEW u \in Names
    PROVE  /\ Listed(Invite(list, names, n, u), k)
           /\ DOMAIN Invite(list, names, n, u) = DOMAIN list
           /\ Len(Invite(list, names, n, u)) = Len(list)
           /\ \A p \in DOMAIN list :
                 Invite(list, names, n, u)[p].channel = list[p].channel
<1> DEFINE new == Invite(list, names, n, u)
<1>1. Len(list) \in Nat /\ DOMAIN list = 1 .. Len(list)
  BY LenProperties DEF Listed
<1>2. \A p \in DOMAIN list : list[p] \in PrivateEntries
  BY <1>1, ElementOfSeq DEF Listed
<1>3. DOMAIN new = DOMAIN list
  BY DEF Invite
<1>4. \A p \in DOMAIN list : new[p] \in PrivateEntries /\ new[p].channel = list[p].channel
  BY <1>2 DEF Invite, PrivateEntries
<1>5. new \in [1 .. Len(list) -> PrivateEntries]
  BY <1>1, <1>3, <1>4 DEF Invite
<1>6. new \in Seq(PrivateEntries) /\ Len(new) = Len(list)
  BY <1>1, <1>5, FunctionIsSequence
<1> QED BY <1>3, <1>4, <1>6 DEF Listed

\* What is saved has a name for every entry.
LEMMA SavedType ==
    ASSUME NEW list, NEW k \in 0 .. MaxChannels, Listed(list, k),
           NEW names \in [ChannelIds -> Names]
    PROVE  /\ Saved(list, names) \in Seq(FileEntries)
           /\ DOMAIN Saved(list, names) = DOMAIN list
<1>1. Len(list) \in Nat /\ DOMAIN list = 1 .. Len(list)
  BY LenProperties DEF Listed
<1>2. \A p \in DOMAIN list : list[p] \in PrivateEntries
  BY <1>1, ElementOfSeq DEF Listed
<1>3. \A p \in DOMAIN list : list[p].channel \in ChannelIds
  BY BoundsAssumption DEF Listed, ChannelIds
<1>4. \A p \in DOMAIN list : Saved(list, names)[p] \in FileEntries
  BY <1>2, <1>3 DEF Saved, FileEntries, PrivateEntries
<1>5. Saved(list, names) \in [1 .. Len(list) -> FileEntries]
  BY <1>1, <1>4 DEF Saved
<1> QED BY <1>1, <1>5, FunctionIsSequence

\* The new entry belongs to the new channel.
LEMMA WithRequestType ==
    ASSUME PrivateType, ChannelType, SessionType, NEW c \in Clients,
           num_channels < MaxChannels, \A p \in Entries : ~Dangling(p)
    PROVE  /\ Listed(WithRequest(c), num_channels + 1)
           /\ DOMAIN WithRequest(c) = 1 .. Len(private_channels) + 1
           /\ \A p \in Entries : WithRequest(c)[p] = private_channels[p]
           /\ WithRequest(c)[Len(private_channels) + 1] =
                 [channel |-> num_channels + 1, invited |-> {user_name[c]}]
<1> DEFINE e == [channel |-> num_channels + 1, invited |-> {user_name[c]}]
<1>1. e \in PrivateEntries
  BY BoundsAssumption DEF PrivateEntries, ChannelType, SessionType
<1>2. /\ Len(private_channels) \in Nat /\ Entries = 1 .. Len(private_channels)
      /\ \A p \in Entries : private_channels[p].channel \in 1 .. num_channels
  BY EntryType DEF Dangling, ChannelType
<1> HIDE DEF e
<1>3. /\ Append(private_channels, e) \in Seq(PrivateEntries)
      /\ Len(Append(private_channels, e)) = Len(private_channels) + 1
      /\ \A p \in 1 .. Len(private_channels) : Append(private_channels, e)[p] = private_channels[p]
      /\ Append(private_channels, e)[Len(private_channels) + 1] = e
  BY <1>1, AppendProperties DEF PrivateType
<1>4. DOMAIN Append(private_channels, e) = 1 .. Len(private_channels) + 1
  BY <1>2, <1>3, LenProperties
<1>5. e.channel = num_channels + 1
  BY DEF e
<1>6. \A p \in 1 .. Len(private_channels) + 1 :
         Append(private_channels, e)[p].channel \in 1 .. num_channels + 1
  <2> TAKE p \in 1 .. Len(private_channels) + 1
  <2>1. CASE p = Len(private_channels) + 1
    BY <2>1, <1>3, <1>5, BoundsAssumption DEF ChannelType
  <2>2. CASE p \in 1 .. Len(private_channels)
    BY <2>2, <1>2, <1>3, BoundsAssumption DEF ChannelType
  <2> QED BY <2>1, <2>2, <1>2
<1>7. WithRequest(c) = Append(private_channels, e)
  BY DEF WithRequest, e
<1> QED BY <1>2, <1>3, <1>4, <1>6, <1>7 DEF Listed, e

\* The name of a friend channel is a name.
LEMMA FriendNameType ==
    ASSUME SessionType, NEW c \in Clients, NEW u \in UserNames \cup {NoName}
    PROVE  u \in Names /\ user_name[c] \o u \in Names
<1>1. NoName \in Names
  BY DEF Names, NoName
<1>2. u \in Names /\ user_name[c] \in Names
  BY <1>1, NamesAssumption DEF SessionType
<1> QED BY <1>2, ConcatProperties DEF Names

\* What Befriend makes of the list and of the names.
LEMMA BefriendTables ==
    ASSUME TypeOK, NEW c \in Clients, NEW u \in UserNames \cup {NoName}, Befriend(c, u)
    PROVE  /\ num_channels' = num_channels + 1 /\ num_channels' \in 0 .. MaxChannels
           /\ channel_name' \in [ChannelIds -> Names]
           /\ Listed(WithRequest(c), num_channels')
           /\ Listed(private_channels', num_channels')
           /\ DOMAIN private_channels' = DOMAIN WithRequest(c)
           /\ \A p \in DOMAIN WithRequest(c) :
                 private_channels'[p].channel = WithRequest(c)[p].channel
<1> DEFINE n == user_name[c] \o u
<1>1. num_channels < MaxChannels /\ num_channels' = num_channels + 1
  BY DEF Befriend, CanBefriend
<1>2. channel_name' = [channel_name EXCEPT ![num_channels + 1] = n]
  BY DEF Befriend
<1>3. private_channels' = Invite(WithRequest(c), channel_name', n, u)
  BY DEF Befriend
<1>4. u \in Names /\ n \in Names
  BY FriendNameType DEF TypeOK
<1>5. Listed(WithRequest(c), num_channels')
  BY <1>1, WithRequestType DEF TypeOK, Befriend
<1> HIDE DEF n
<1>6. num_channels' \in 0 .. MaxChannels
  BY <1>1, BoundsAssumption DEF TypeOK, ChannelType
<1>7. channel_name' \in [ChannelIds -> Names]
  BY <1>2, <1>4 DEF TypeOK, ChannelType
<1>8. /\ Listed(private_channels', num_channels')
      /\ DOMAIN private_channels' = DOMAIN WithRequest(c)
      /\ \A p \in DOMAIN WithRequest(c) :
            private_channels'[p].channel = WithRequest(c)[p].channel
  BY <1>3, <1>4, <1>5, InviteType
<1> QED BY <1>1, <1>5, <1>6, <1>7, <1>8

\* FRIEND fills one more place of both arrays and saves the list.
LEMMA BefriendType ==
    ASSUME TypeOK, NEW c \in Clients, NEW u \in UserNames \cup {NoName}, Befriend(c, u)
    PROVE  TypeOK'
<1> USE BoundsAssumption
<1>1. LoopType' /\ TableType'
  BY DEF TypeOK, Befriend, CanBefriend, Requests, Reading, NextSlot, loopVars,
         LoopType, TableType, tableVars
<1>2. SessionType'
  BY BefriendTables DEF TypeOK, Befriend, SessionType, ChannelType, sessionVars
<1>3. BufferType'
  <2>1. BufOK(out_buf)
    BY DEF TypeOK, BufferType, BufOK
  <2>2. PICK s \in Holders(u) : out_buf' = Respond(Respond(out_buf, clients[s], Sys), c, Sys)
    BY DEF Befriend
  <2>3. BufOK(out_buf')
    BY <2>1, <2>2, RespondType, SysType
  <2> QED BY <2>3 DEF BufferType, BufOK
<1>4. ChannelType'
  <2>1. PICK bits \in FreshBitmaps :
           active_members' = [active_members EXCEPT ![num_channels + 1] = bits]
    BY DEF Befriend
  <2> QED BY <2>1, BefriendTables, BitmapsAssumption DEF TypeOK, ChannelType
<1>5. PrivateType'
  BY BefriendTables DEF Listed, PrivateType, Entries
<1>6. DiskType'
  <2>1. private_file' = Saved(private_channels', channel_name')
    BY DEF Befriend
  <2>2. private_file' \in Seq(FileEntries)
    BY <2>1, BefriendTables, SavedType
  <2> QED BY <2>2 DEF TypeOK, DiskType, Befriend
<1> QED BY <1>1, <1>2, <1>3, <1>4, <1>5, <1>6 DEF TypeOK

\* A save that is cut short leaves nothing, or the list before the invitation.
LEMMA FriendInterruptedType ==
    ASSUME TypeOK, NEW c \in Clients, NEW u \in UserNames \cup {NoName},
           FriendInterrupted(c, u)
    PROVE  TypeOK'
<1> DEFINE names == [channel_name EXCEPT ![num_channels + 1] = user_name[c] \o u]
<1>1. names \in [ChannelIds -> Names]
  BY FriendNameType DEF TypeOK, ChannelType
<1>2. Listed(WithRequest(c), num_channels + 1) /\ num_channels + 1 \in 0 .. MaxChannels
  <2>1. num_channels < MaxChannels /\ \A p \in Entries : ~Dangling(p)
    BY DEF FriendInterrupted, CanBefriend
  <2>2. num_channels + 1 \in 0 .. MaxChannels
    BY <2>1, BoundsAssumption DEF TypeOK, ChannelType
  <2> QED BY <2>1, <2>2, WithRequestType DEF TypeOK
<1>3. private_file' = <<>> \/ private_file' = Saved(WithRequest(c), names)
  BY DEF FriendInterrupted
<1> HIDE DEF names
<1>4. private_file' \in Seq(FileEntries)
  <2>1. CASE private_file' = <<>>
    BY <2>1
  <2>2. CASE private_file' = Saved(WithRequest(c), names)
    BY <2>2, <1>1, <1>2, SavedType
  <2> QED BY <2>1, <2>2, <1>3
<1>5. Ends("killed")
  BY DEF FriendInterrupted
<1> QED BY <1>4, <1>5, EndsType

\* A crash inside the save leaves nothing.
LEMMA FriendCrashesType ==
    ASSUME TypeOK, NEW c, NEW u, FriendCrashes(c, u) PROVE TypeOK'
<1>1. private_file' \in Seq(FileEntries)
  BY DEF FriendCrashes
<1> QED BY <1>1, EndsType DEF FriendCrashes

\* A message is one more number in one archive.
LEMMA SendType ==
    ASSUME TypeOK, NEW c \in Clients, Send(c) PROVE TypeOK'
<1> USE BoundsAssumption
<1> DEFINE n == ActiveName(c)
<1>1. LoopType' /\ TableType' /\ SessionType' /\ ChannelType' /\ PrivateType'
  BY DEF TypeOK, Send, Requests, Reading, NextSlot, loopVars, tableVars,
         sessionVars, channelVars, LoopType, TableType, SessionType, ChannelType,
         PrivateType, Entries
<1>2. sent' = sent + 1 /\ sent' \in 1 .. MaxMessages
  BY DEF TypeOK, DiskType, Send
<1>3. n \in Names
  BY DEF TypeOK, Send, ActiveName, SessionType, ChannelType, ChannelIds
<1>4. BufferType'
  <2>1. [action |-> "SEND", id |-> sent + 1] \in Messages
    BY <1>2 DEF Messages, Actions
  <2>2. BufOK(out_buf')
    BY <2>1, BroadcastType DEF TypeOK, BufferType, BufOK, Send
  <2> QED BY <2>2 DEF BufferType, BufOK
<1> HIDE DEF n
<1>5. \/ archive' = archive
      \/ archive' = [m \in DOMAIN archive \cup {n} |->
                        IF m = n THEN Append(Archived(n), sent + 1) ELSE archive[m]]
  BY DEF Send, archive_message, n
<1>6. Append(Archived(n), sent + 1) \in Seq(Nat)
  BY <1>2, AppendProperties DEF TypeOK, DiskType, Archived
<1>7. /\ DOMAIN archive' \subseteq Names
      /\ \A m \in DOMAIN archive' : archive'[m] \in Seq(Nat)
  BY <1>3, <1>5, <1>6 DEF TypeOK, DiskType
<1>8. posted' \in Seq(Names) /\ Len(posted') = sent'
  <2>1. posted' = Append(posted, n) /\ posted \in Seq(Names) /\ Len(posted) = sent
    BY DEF TypeOK, DiskType, Send, n
  <2> QED BY <1>2, <1>3, <2>1, AppendProperties
<1>9. DiskType'
  BY <1>2, <1>7, <1>8 DEF TypeOK, DiskType, Send
<1> QED BY <1>1, <1>4, <1>9 DEF TypeOK

-----------------------------------------------------------------------------
(***************************************************************************)
(* The steps, sorted for the proofs: those that end the process, those     *)
(* that only queue messages, and the others.                               *)
(***************************************************************************)
Faults == {"killed", "null_slot", "null_channel", "sigpipe"}
Ending ==
    \/ \E why \in Faults : Dies(why)
    \/ \E c \in Clients, u \in UserNames \cup {NoName} :
          FriendCrashes(c, u) \/ FriendInterrupted(c, u)

Answers(c) ==
    \/ SkipRead(c) \/ Online(c) \/ SendNowhere(c) \/ SkipWrite(c)
    \/ \E u \in UserNames \cup {NoName} : LogInFails(c, u) \/ FriendUnknown(c, u)
    \/ \E n \in ChannelNames : StartFails(c, n)
    \/ \E n \in TypedNames : JoinFails(c, n)

Queues(c) ==
    /\ i < count /\ NextSlot
    /\ UNCHANGED <<tableVars, sessionVars, channelVars, private_channels, diskVars>>

\* An answer changes nothing but the queue of the client that asked.
LEMMA AnswersQueue == ASSUME NEW c, Answers(c) PROVE Queues(c)
BY DEF Answers, Queues, SkipRead, Online, SendNowhere, SkipWrite, LogInFails,
       FriendUnknown, StartFails, JoinFails, Requests, Logs, Reading, Writing

\* Every step is of one of these kinds.
LEMMA StepKinds ==
    ASSUME [Next]_vars
    PROVE  \/ Ending \/ Launch \/ Select \/ ReadsEnd \/ WritesEnd \/ UNCHANGED vars
           \/ \E c \in Clients :
                 \/ Accept(c) \/ PeerCloses(c) \/ Answers(c) \/ ReadFails(c)
                 \/ Disconnect(c) \/ Leave(c) \/ Send(c) \/ Write(c) \/ WriteFails(c)
                 \/ \E u \in UserNames \cup {NoName} : LogIn(c, u) \/ Befriend(c, u)
                 \/ \E n \in ChannelNames : StartChannel(c, n)
                 \/ \E n \in TypedNames : Join(c, n)
<1>1. ASSUME NEW c \in Clients, Request(c)
      PROVE  \/ Ending \/ Answers(c) \/ Leave(c) \/ Send(c)
             \/ \E u \in UserNames \cup {NoName} : LogIn(c, u) \/ Befriend(c, u)
             \/ \E n \in ChannelNames : StartChannel(c, n)
             \/ \E n \in TypedNames : Join(c, n)
  BY <1>1 DEF Request, Answers, Ending, Faults, JoinCrashes, OnlineCrashes
<1>2. ASSUME ServerStep
      PROVE  \/ Ending \/ Select \/ ReadsEnd \/ WritesEnd
             \/ \E c \in Clients :
                   \/ SkipRead(c) \/ ReadFails(c) \/ Disconnect(c) \/ Request(c)
                   \/ Write(c) \/ WriteFails(c) \/ SkipWrite(c)
  BY <1>2 DEF ServerStep, Ending, Faults, SelectCrashes, WriteCrashes
<1>3. ASSUME Environment
      PROVE  \/ Ending \/ Launch
             \/ \E c \in Clients : Accept(c) \/ PeerCloses(c)
  BY <1>3 DEF Environment, Ending, Faults, Kill
<1>4. \A c \in Clients : SkipRead(c) \/ SkipWrite(c) => Answers(c)
  BY DEF Answers
<1> QED BY <1>1, <1>2, <1>3, <1>4 DEF Next

\* Whatever was being saved, memory is empty after an end.
LEMMA EndingEnds == ASSUME Ending PROVE \E why \in Faults : Ends(why)
BY DEF Ending, Faults, Dies, FriendCrashes, FriendInterrupted

-----------------------------------------------------------------------------
(***************************************************************************)
(* Type correctness of the specification.                                  *)
(***************************************************************************)

\* A server that is down has no session: every end empties the tables, and
\* no other step is taken while it is down but the restart.
LEMMA StoppedStep == ASSUME Stopped, [Next]_vars PROVE Stopped'
<1> USE DEF Stopped
<1>1. CASE Ending
  <2>1. PICK why \in Faults : Ends(why)
    BY <1>1, EndingEnds
  <2> QED BY <2>1 DEF Ends
<1>2. CASE Launch \/ Select \/ ReadsEnd \/ WritesEnd
  BY <1>2 DEF Launch, Select, ReadsEnd, WritesEnd
<1>3. CASE UNCHANGED vars
  BY <1>3 DEF vars, loopVars, tableVars, sessionVars, channelVars
<1>4. ASSUME NEW c \in Clients
      PROVE  /\ Accept(c) => pc' = "read"
             /\ PeerCloses(c) => pc # "down" /\ pc' = pc
  BY DEF Accept, PeerCloses, loopVars
<1>5. ASSUME NEW c \in Clients,
             \/ Answers(c) \/ ReadFails(c)
             \/ Disconnect(c) \/ Leave(c) \/ Send(c) \/ Write(c) \/ WriteFails(c)
             \/ \E u \in UserNames \cup {NoName} : LogIn(c, u) \/ Befriend(c, u)
             \/ \E n \in ChannelNames : StartChannel(c, n)
             \/ \E n \in TypedNames : Join(c, n)
      PROVE  pc # "down" /\ pc' = pc
  BY <1>5 DEF Answers, SkipRead, Online, SendNowhere, SkipWrite, LogInFails, FriendUnknown,
       StartFails, JoinFails, ReadFails, Disconnect, Leave, Send, Write, WriteFails, LogIn,
       Befriend, CanBefriend, StartChannel, Join, Requests, Logs, Reading, Writing,
       NextSlot, loopVars
<1> QED BY <1>1, <1>2, <1>3, <1>4, <1>5, StepKinds

\* Every step keeps the types.
LEMMA TypeStep == ASSUME TypeOK, Stopped, [Next]_vars PROVE TypeOK'
<1> USE BoundsAssumption
<1>1. CASE Ending
  BY <1>1, DiesType, FriendCrashesType, FriendInterruptedType DEF Ending, Faults
<1>2. CASE Launch
  BY <1>2, LaunchType
<1>3. CASE Select \/ ReadsEnd
  <2> USE <1>3 DEF TypeOK, Select, ReadsEnd, tableVars, sessionVars, channelVars, diskVars
  <2>1. LoopType' /\ TableType'
    BY DEF LoopType, TableType
  <2>2. SessionType' /\ BufferType' /\ ChannelType' /\ PrivateType' /\ DiskType'
    BY DEF SessionType, BufferType, ChannelType, PrivateType, DiskType, Entries
  <2> QED BY <2>1, <2>2
<1>4. CASE WritesEnd
  <2> USE <1>4 DEF TypeOK, WritesEnd, sessionVars, channelVars, diskVars
  <2>1. LoopType' /\ TableType'
    BY DEF LoopType, TableType
  <2>2. SessionType' /\ BufferType' /\ ChannelType' /\ PrivateType' /\ DiskType'
    BY DEF SessionType, BufferType, ChannelType, PrivateType, DiskType, Entries
  <2> QED BY <2>1, <2>2
<1>5. CASE UNCHANGED vars
  <2> USE <1>5 DEF TypeOK, vars, loopVars, tableVars, sessionVars, channelVars, diskVars
  <2>1. LoopType' /\ TableType'
    BY DEF LoopType, TableType
  <2>2. SessionType' /\ BufferType' /\ ChannelType' /\ PrivateType' /\ DiskType'
    BY DEF SessionType, BufferType, ChannelType, PrivateType, DiskType, Entries
  <2> QED BY <2>1, <2>2
<1>6. ASSUME NEW c \in Clients, Accept(c) PROVE TypeOK'
  <2> USE <1>6 DEF TypeOK, Accept, channelVars, diskVars
  <2>1. LoopType' /\ TableType'
    BY DEF LoopType, TableType, Slots
  <2>2. ChannelType' /\ BufferType' /\ PrivateType' /\ DiskType'
    BY DEF BufferType, ChannelType, PrivateType, DiskType, Entries
  <2>3. PICK u \in {NoName} \cup GarbageNames
                 \cup IF May("residue") THEN {user_name[c]} ELSE {} :
           user_name' = [user_name EXCEPT ![c] = u]
    OBVIOUS
  <2>4. u \in Names
    <3>1. NoName \in Names
      BY DEF Names, NoName
    <3> QED BY <3>1, <2>3, NamesAssumption DEF SessionType
  <2>5. SessionType'
    BY <2>3, <2>4 DEF SessionType, PeerStates
  <2> QED BY <2>1, <2>2, <2>5
<1>7. ASSUME NEW c \in Clients, PeerCloses(c) PROVE TypeOK'
  <2> USE <1>7 DEF TypeOK, PeerCloses, loopVars, tableVars, channelVars, diskVars
  <2>1. LoopType' /\ TableType'
    BY DEF LoopType, TableType
  <2>2. SessionType' /\ BufferType' /\ ChannelType' /\ PrivateType' /\ DiskType'
    BY DEF SessionType, BufferType, ChannelType, PrivateType, DiskType, Entries, PeerStates
  <2> QED BY <2>1, <2>2
<1>8. ASSUME NEW c \in Clients, Answers(c) PROVE TypeOK'
  <2>1. BufOK(out_buf)
    BY DEF TypeOK, BufferType, BufOK
  <2>2. out_buf' = out_buf \/ \E a \in Actions : out_buf' = Respond(out_buf, c, Reply(a))
    BY <1>8 DEF Answers, SkipRead, Online, SendNowhere, SkipWrite, LogInFails,
                FriendUnknown, StartFails, JoinFails, Actions
  <2>3. BufOK(out_buf')
    BY <2>1, <2>2, RespondType, ReplyType
  <2> QED BY <1>8, <2>3, AnswersQueue, QueueType DEF Queues
<1>9. ASSUME NEW c \in Clients, ReadFails(c) \/ WriteFails(c) \/ Write(c) PROVE TypeOK'
  <2> USE <1>9 DEF TypeOK, ReadFails, WriteFails, Write, Reading, Writing, NextSlot,
                   loopVars, tableVars, channelVars, diskVars
  <2>1. LoopType' /\ TableType'
    BY DEF LoopType, TableType
  <2>2. SessionType' /\ ChannelType' /\ PrivateType' /\ DiskType'
    BY DEF SessionType, ChannelType, PrivateType, DiskType, Entries, PeerStates
  <2>3. out_buf' = out_buf \/ out_buf' = [out_buf EXCEPT ![c] = <<>>]
    OBVIOUS
  <2> HIDE <1>9
  <2>4. BufferType'
    <3>1. <<>> \in Seq(Messages) /\ Len(<<>>) <= OutCap
      OBVIOUS
    <3> QED BY <2>3, <3>1 DEF BufferType
  <2> QED BY <2>1, <2>2, <2>4
<1>10. ASSUME NEW c \in Clients, NEW u \in UserNames \cup {NoName}, LogIn(c, u) PROVE TypeOK'
  <2> USE <1>10 DEF TypeOK, LogIn, Logs, Reading, NextSlot, loopVars, tableVars,
                    channelVars, diskVars
  <2>1. LoopType' /\ TableType'
    BY DEF LoopType, TableType
  <2>2. SessionType' /\ ChannelType' /\ PrivateType' /\ DiskType'
    BY NamesAssumption DEF SessionType, ChannelType, PrivateType, DiskType, Entries
  <2>3. BufferType'
    BY RespondType, ReplyType DEF BufferType, BufOK, Actions
  <2> QED BY <2>1, <2>2, <2>3
<1>11. ASSUME NEW c \in Clients, Leave(c) PROVE TypeOK'
  <2> USE <1>11 DEF TypeOK, Leave, Requests, Reading, NextSlot, loopVars, tableVars,
                    channelVars, diskVars
  <2>1. LoopType' /\ TableType'
    BY DEF LoopType, TableType
  <2>2. SessionType' /\ ChannelType' /\ PrivateType' /\ DiskType'
    BY DEF SessionType, ChannelType, PrivateType, DiskType, Entries
  <2>3. BufferType'
    BY LeaveNoticeType, RespondType, ReplyType DEF BufferType, BufOK, Actions
  <2> QED BY <2>1, <2>2, <2>3
<1> QED
  BY <1>1, <1>2, <1>3, <1>4, <1>5, <1>6, <1>7, <1>8, <1>9, <1>10, <1>11, StepKinds,
     DisconnectType, StartChannelType, JoinType, BefriendType, SendType

(***************************************************************************)
(* Every variable keeps its type, buffers stay within what the code's test *)
(* lets in, and channel pointers stay within channels[], in every          *)
(* behaviour, for all values of the constants.                             *)
(***************************************************************************)
THEOREM TypeCorrect == Spec => []TypeOK
<1>1. Init => TypeOK /\ Stopped
  BY InitType DEF Init, Stopped
<1>2. TypeOK /\ Stopped /\ [Next]_vars => (TypeOK /\ Stopped)'
  BY TypeStep, StoppedStep
<1> QED BY <1>1, <1>2, PTL DEF Spec

\* No other step writes an archive or counts a message.
LEMMA OnlySendArchives ==
    ASSUME [Next]_vars, \A c \in Clients : ~Send(c)
    PROVE  UNCHANGED <<archive, sent, posted>>
<1>1. CASE Ending
  <2>1. PICK why \in Faults : Ends(why)
    BY <1>1, EndingEnds
  <2> QED BY <2>1 DEF Ends
<1>2. CASE Launch \/ Select \/ ReadsEnd \/ WritesEnd \/ UNCHANGED vars
  BY <1>2 DEF Launch, Select, ReadsEnd, WritesEnd, vars, diskVars
<1>3. ASSUME NEW c \in Clients, Answers(c) PROVE UNCHANGED <<archive, sent, posted>>
  BY <1>3, AnswersQueue DEF Queues, diskVars
<1>4. ASSUME NEW c \in Clients,
             \/ Accept(c) \/ PeerCloses(c) \/ ReadFails(c)
             \/ Disconnect(c) \/ Leave(c) \/ Write(c) \/ WriteFails(c)
             \/ \E u \in UserNames \cup {NoName} : LogIn(c, u) \/ Befriend(c, u)
             \/ \E n \in ChannelNames : StartChannel(c, n)
             \/ \E n \in TypedNames : Join(c, n)
      PROVE  UNCHANGED <<archive, sent, posted>>
  BY <1>4 DEF Accept, PeerCloses, ReadFails, Disconnect, Leave, Write, WriteFails, LogIn,
              Befriend, StartChannel, Join, diskVars
<1> QED BY <1>1, <1>2, <1>3, <1>4, StepKinds

-----------------------------------------------------------------------------
(***************************************************************************)
(* The slot table is sound and logged-in names are unique, for every value *)
(* of the constants and everything the environment may do.                 *)
(*                                                                         *)
(* Neither is inductive.  That Accept never overwrites a client needs the  *)
(* slots from count on to be free whenever select() is reached alive; that *)
(* is lost when an iteration both accepts and disconnects, and then a hole *)
(* below count ends the process before the next Accept.                    *)
(***************************************************************************)

NoDangling == \A s \in Slots : clients[s] # NULL => peer[clients[s]] # "none"
OneSlot    == \A s, t \in Slots : clients[s] # NULL /\ clients[s] = clients[t] => s = t
NoLeak     == \A c \in Clients : peer[c] # "none" => \E s \in Slots : clients[s] = c

\* While slots are visited there is a client in each of them.
Filled == pc \in {"read", "write"} => ~HasHole

\* Beyond count there is nothing, or the connection that is not counted yet,
\* or the table is about to be found broken.
TailFree ==
    /\ pc = "select" => num_new = 0
    /\ num_new = 0 /\ ~HasHole => \A s \in Slots : s >= count => clients[s] = NULL
    /\ num_new = 1 => \/ clients[count] = NULL
                      \/ \A s \in Slots : s > count => clients[s] = NULL

\* Whoever has logged in is compared with the next name.
NamedCounted ==
    \A c \in Clients : named[c] => \E s \in Slots : s < count /\ clients[s] = c

TableInv == /\ NoDangling /\ OneSlot /\ NoLeak
            /\ Filled /\ TailFree /\ NamedCounted /\ UniqueNames

LEMMA TableInvSound == TableInv => TableSound /\ UniqueNames
BY DEF TableInv, TableSound, NoDangling, OneSlot, NoLeak

-----------------------------------------------------------------------------
\* Initially, and after every end, the table is empty.
LEMMA EmptyTableInv ==
    ASSUME clients = EmptyTable, count = 0, num_new = 0, pc = "down",
           peer = [c \in Clients |-> "none"], named = [c \in Clients |-> FALSE]
    PROVE  TableInv
BY DEF TableInv, NoDangling, OneSlot, NoLeak, Filled, HasHole, TailFree, NamedCounted,
       UniqueNames, EmptyTable

LEMMA EmptyTableInvNext ==
    ASSUME clients' = EmptyTable, count' = 0, num_new' = 0, pc' = "down",
           peer' = [c \in Clients |-> "none"], named' = [c \in Clients |-> FALSE]
    PROVE  TableInv'
BY DEF TableInv, NoDangling, OneSlot, NoLeak, Filled, HasHole, TailFree, NamedCounted,
       UniqueNames, EmptyTable

\* A step that leaves the table, who is connected and who is named alone.
LEMMA SameTable ==
    ASSUME TableInv, UNCHANGED <<clients, count, num_new, named, user_name>>,
           pc' = pc \/ (pc \in {"read", "write"} /\ pc' \in {"read", "write"}),
           \A c \in Clients : peer'[c] = "none" <=> peer[c] = "none",
           TableType
    PROVE  TableInv'
<1>1. \A s \in Slots : clients[s] # NULL => clients[s] \in Clients
  BY DEF TableType
<1>2. NoDangling' /\ OneSlot' /\ NoLeak'
  BY <1>1 DEF TableInv, NoDangling, OneSlot, NoLeak
<1>3. Filled' /\ TailFree'
  BY DEF TableInv, Filled, HasHole, TailFree
<1>4. NamedCounted' /\ UniqueNames'
  BY DEF TableInv, NamedCounted, UniqueNames
<1> QED BY <1>2, <1>3, <1>4 DEF TableInv

-----------------------------------------------------------------------------
\* A new connection takes a free slot and has no name yet.
LEMMA AcceptTable ==
    ASSUME TypeOK, TableInv, NEW c \in Clients, Accept(c)
    PROVE  TableInv'
<1> USE NullAssumption, BoundsAssumption DEF TableInv, Slots
<1>1. /\ pc = "select" /\ ~HasHole /\ count < MaxConnections /\ peer[c] = "none"
      /\ pc' = "read" /\ num_new' = 1 /\ count' = count /\ named' = named
      /\ clients' = [clients EXCEPT ![count] = c]
      /\ peer' = [peer EXCEPT ![c] = "open"]
  BY DEF Accept
<1>2. /\ clients \in [Slots -> Clients \cup {NULL}] /\ count \in Slots
      /\ peer \in [Clients -> PeerStates]
  BY <1>1 DEF TypeOK, TableType, SessionType
<1>3. \A s \in Slots : s >= count => clients[s] = NULL
  BY <1>1 DEF TailFree
<1>4. \A s \in Slots : clients[s] # c
  BY <1>1 DEF NoDangling
<1>5. \A s \in Slots : clients'[s] = IF s = count THEN c ELSE clients[s]
  BY <1>1, <1>2
<1>6. \A d \in Clients : peer'[d] = IF d = c THEN "open" ELSE peer[d]
  BY <1>1, <1>2
<1>7. NoDangling' /\ OneSlot'
  BY <1>2, <1>4, <1>5, <1>6 DEF NoDangling, OneSlot
<1>8. NoLeak'
  BY <1>2, <1>3, <1>5, <1>6 DEF NoLeak
<1>9. Filled' /\ TailFree'
  BY <1>1, <1>2, <1>3, <1>5 DEF Filled, TailFree, HasHole
<1>10. NamedCounted'
  BY <1>1, <1>2, <1>5 DEF NamedCounted
<1>11. UniqueNames'
  <2>1. ~named[c]
    BY <1>4 DEF NamedCounted
  <2>2. \A d \in Clients : d # c => user_name'[d] = user_name[d]
    BY DEF Accept, TypeOK, SessionType
  <2> QED BY <1>1, <2>1, <2>2 DEF UniqueNames
<1> QED BY <1>7, <1>8, <1>9, <1>10, <1>11

\* The shift forgets the client that was read and nobody else.
LEMMA DisconnectTable ==
    ASSUME TypeOK, TableInv, NEW c \in Clients, Disconnect(c)
    PROVE  TableInv'
<1> USE NullAssumption, BoundsAssumption DEF TableInv, Slots
<1>1. /\ pc = "read" /\ i < count /\ c = clients[i] /\ pc' = pc /\ num_new' = num_new
      /\ peer' = [peer EXCEPT ![c] = "none"] /\ named' = [named EXCEPT ![c] = FALSE]
      /\ clients' = ShiftDown(clients, i, count) /\ count' = count - 1
      /\ user_name' = user_name
  BY DEF Disconnect, Reading, NextSlot, loopVars
<1>2. /\ clients \in [Slots -> Clients \cup {NULL}]
      /\ count \in 1 .. MaxConnections /\ i \in 0 .. count - 1 /\ i \in Slots
      /\ peer \in [Clients -> PeerStates] /\ named \in [Clients -> BOOLEAN]
      /\ num_new \in {0, 1} /\ count + num_new <= MaxConnections
  BY <1>1 DEF TypeOK, LoopType, TableType, SessionType
<1>3. \A t \in Slots : clients'[t] = IF i <= t /\ t < count - 1 THEN clients[t + 1]
                                     ELSE IF t = count - 1 THEN NULL ELSE clients[t]
  BY <1>1 DEF ShiftDown
<1>4. \A s \in Slots : s < count => clients[s] # NULL
  BY <1>1 DEF Filled, HasHole
<1>5. \A s \in Slots : clients[s] = c => s = i
  BY <1>1, <1>2 DEF OneSlot
<1>6. \A t \in Slots : clients'[t] # NULL =>
         \E s \in Slots : clients'[t] = clients[s] /\ s # i /\ (t < count - 1 => s < count)
                          /\ s = (IF i <= t /\ t < count - 1 THEN t + 1 ELSE t)
  BY <1>2, <1>3
<1>7. ASSUME NEW s \in Slots, s # i, clients[s] # NULL
      PROVE  \E t \in Slots : clients'[t] = clients[s] /\ (s < count => t < count - 1)
  <2>1. CASE s < i \/ s >= count
    BY <2>1, <1>2, <1>3
  <2>2. CASE i < s /\ s < count
    <3>1. s - 1 \in Slots /\ clients'[s - 1] = clients[s] /\ s - 1 < count - 1
      BY <2>2, <1>2, <1>3
    <3> QED BY <3>1
  <2> QED BY <2>1, <2>2, <1>7, <1>2
<1>8. \A d \in Clients : /\ peer'[d] = IF d = c THEN "none" ELSE peer[d]
                         /\ named'[d] = IF d = c THEN FALSE ELSE named[d]
  BY <1>1, <1>2
<1>9. NoDangling'
  <2> SUFFICES ASSUME NEW t \in Slots, clients'[t] # NULL PROVE peer'[clients'[t]] # "none"
    BY DEF NoDangling
  <2>1. PICK s \in Slots : clients'[t] = clients[s] /\ s # i
    BY <1>6
  <2>2. clients[s] # c /\ clients[s] \in Clients
    BY <2>1, <1>2, <1>5
  <2> QED BY <2>1, <2>2, <1>8 DEF NoDangling
<1>10. OneSlot'
  <2> SUFFICES ASSUME NEW s \in Slots, NEW t \in Slots, clients'[s] # NULL,
                      clients'[s] = clients'[t]
               PROVE  s = t
    BY DEF OneSlot
  <2>1. /\ clients'[s] = clients[IF i <= s /\ s < count - 1 THEN s + 1 ELSE s]
        /\ clients'[t] = clients[IF i <= t /\ t < count - 1 THEN t + 1 ELSE t]
        /\ (IF i <= s /\ s < count - 1 THEN s + 1 ELSE s) \in Slots
        /\ (IF i <= t /\ t < count - 1 THEN t + 1 ELSE t) \in Slots
        /\ s # count - 1 /\ t # count - 1
    BY <1>2, <1>3
  <2>2. (IF i <= s /\ s < count - 1 THEN s + 1 ELSE s) =
        (IF i <= t /\ t < count - 1 THEN t + 1 ELSE t)
    BY <2>1 DEF OneSlot
  <2> QED BY <2>1, <2>2, <1>2
<1>11. NoLeak'
  BY <1>1, <1>2, <1>7, <1>8 DEF NoLeak
<1>12. Filled'
  BY <1>1, <1>2, <1>3, <1>4 DEF Filled, HasHole
<1>13. TailFree'
  <2>1. clients'[count'] = NULL
    BY <1>1, <1>2, <1>3
  <2>2. num_new = 0 => \A s \in Slots : s >= count' => clients'[s] = NULL
    <3>1. ~HasHole
      BY <1>4 DEF HasHole
    <3>2. num_new = 0 => \A s \in Slots : s >= count => clients[s] = NULL
      BY <3>1 DEF TailFree
    <3>3. ASSUME num_new = 0, NEW s \in Slots, s >= count - 1
          PROVE  clients'[s] = NULL
      <4>1. s \in Int /\ count \in Int
        BY <1>2
      <4>2. CASE s = count - 1
        BY <4>1, <4>2, <1>3
      <4>3. CASE s >= count
        BY <4>1, <4>3, <3>2, <3>3, <1>3
      <4> QED BY <4>1, <4>2, <4>3, <3>3
    <3> QED BY <3>3, <1>1
  <2> QED BY <1>1, <2>1, <2>2 DEF TailFree
<1>14. NamedCounted'
  <2> SUFFICES ASSUME NEW d \in Clients, named'[d]
               PROVE  \E t \in Slots : t < count' /\ clients'[t] = d
    BY DEF NamedCounted
  <2>1. d # c /\ named[d]
    BY <1>8
  <2>2. PICK s \in Slots : s < count /\ clients[s] = d
    BY <2>1 DEF NamedCounted
  <2> QED BY <1>1, <1>7, <2>1, <2>2
<1>15. UniqueNames'
  BY <1>1, <1>8 DEF UniqueNames
<1> QED BY <1>9, <1>10, <1>11, <1>12, <1>13, <1>14, <1>15

-----------------------------------------------------------------------------
\* The end of an iteration counts the new connection.  If it sits beyond a
\* slot that a disconnection emptied, the table has a hole from here on.
LEMMA WritesEndTable ==
    ASSUME TypeOK, TableInv, WritesEnd
    PROVE  TableInv'
<1> USE NullAssumption, BoundsAssumption DEF TableInv, Slots
<1>1. /\ pc = "write" /\ pc' = "select" /\ num_new' = 0 /\ count' = count + num_new
      /\ clients' = clients /\ peer' = peer /\ named' = named /\ user_name' = user_name
  BY DEF WritesEnd, sessionVars
<1>2. /\ count \in Nat /\ num_new \in {0, 1} /\ count + num_new <= MaxConnections
  BY DEF TypeOK, LoopType, TableType
<1>3. NoDangling' /\ OneSlot' /\ NoLeak' /\ UniqueNames'
  BY <1>1 DEF NoDangling, OneSlot, NoLeak, UniqueNames
<1>4. Filled'
  BY <1>1 DEF Filled
<1>5. NamedCounted'
  BY <1>1, <1>2 DEF NamedCounted
<1>6. TailFree'
  <2>1. CASE num_new = 0
    <3>1. ~HasHole
      BY <1>1 DEF Filled
    <3>2. \A s \in Slots : s >= count => clients[s] = NULL
      BY <2>1, <3>1 DEF TailFree
    <3> QED BY <1>1, <2>1, <1>2, <3>2 DEF TailFree
  <2>2. CASE num_new = 1 /\ clients[count] = NULL
    <3>1. HasHole'
      BY <1>1, <1>2, <2>2 DEF HasHole
    <3> QED BY <1>1, <3>1 DEF TailFree
  <2>3. CASE num_new = 1 /\ \A s \in Slots : s > count => clients[s] = NULL
    <3>1. \A s \in Slots : s >= count' => clients'[s] = NULL
      BY <1>1, <1>2, <2>3
    <3> QED BY <1>1, <3>1 DEF TailFree
  <2> QED BY <1>2, <2>1, <2>2, <2>3 DEF TailFree
<1> QED BY <1>3, <1>4, <1>5, <1>6

\* A name is given to a client that is below count, after a comparison with
\* every client there: with every one that has logged in.
LEMMA LogInTable ==
    ASSUME TypeOK, TableInv, NEW c \in Clients, NEW u, LogIn(c, u)
    PROVE  TableInv'
<1> USE DEF TableInv
<1>1. /\ pc = "read" /\ i < count /\ c = clients[i] /\ ~NameTaken(u)
      /\ UNCHANGED <<pc, num_new, clients, count, peer>>
      /\ user_name' = [user_name EXCEPT ![c] = u]
      /\ named' = [named EXCEPT ![c] = TRUE]
  BY DEF LogIn, Logs, Reading, NextSlot, loopVars, tableVars
<1>2. \A d \in Clients : /\ named'[d] <=> (d = c \/ named[d])
                         /\ user_name'[d] = IF d = c THEN u ELSE user_name[d]
  BY <1>1 DEF TypeOK, SessionType
<1>3. NoDangling' /\ OneSlot' /\ NoLeak' /\ Filled' /\ TailFree'
  BY <1>1 DEF NoDangling, OneSlot, NoLeak, Filled, TailFree, HasHole
<1>4. NamedCounted'
  <2>1. i \in Slots
    BY <1>1, ReadSlot
  <2> QED BY <1>1, <1>2, <2>1 DEF NamedCounted
<1>5. UniqueNames'
  <2>1. \A d \in Clients : named[d] => user_name[d] # u
    BY <1>1 DEF NamedCounted, NameTaken
  <2> QED BY <1>2, <2>1 DEF UniqueNames
<1> QED BY <1>3, <1>4, <1>5

\* Every step keeps the table invariant.
LEMMA TableStep ==
    ASSUME TypeOK, Stopped, TableInv, [Next]_vars
    PROVE  TableInv'
<1>1. CASE Ending
  <2>1. PICK why \in Faults : Ends(why)
    BY <1>1, EndingEnds
  <2> QED BY <2>1, EmptyTableInvNext DEF Ends
<1>2. CASE Launch
  <2>1. /\ clients' = EmptyTable /\ count' = 0 /\ num_new' = 0 /\ pc' = "select"
        /\ peer' = [c \in Clients |-> "none"] /\ named' = [c \in Clients |-> FALSE]
    BY <1>2 DEF Launch, Stopped, tableVars, sessionVars
  <2> QED BY <2>1 DEF TableInv, NoDangling, OneSlot, NoLeak, Filled, HasHole, TailFree,
                      NamedCounted, UniqueNames, EmptyTable
<1>3. CASE Select
  <2>1. /\ ~HasHole /\ num_new = 0 /\ num_new' = 0 /\ pc' = "read"
        /\ UNCHANGED <<clients, count, peer, named, user_name>>
    BY <1>3 DEF Select, TableInv, TailFree, tableVars, sessionVars
  <2>2. (NoDangling /\ OneSlot /\ NoLeak /\ NamedCounted /\ UniqueNames)'
    BY <2>1 DEF TableInv, NoDangling, OneSlot, NoLeak, NamedCounted, UniqueNames
  <2>3. Filled' /\ TailFree'
    BY <2>1 DEF TableInv, Filled, TailFree, HasHole
  <2> QED BY <2>2, <2>3 DEF TableInv
<1>4. CASE ReadsEnd
  <2>1. /\ pc \in {"read", "write"} /\ pc' \in {"read", "write"}
        /\ UNCHANGED <<clients, count, num_new, named, user_name, peer>>
    BY <1>4 DEF ReadsEnd, tableVars, sessionVars
  <2> QED BY <2>1, SameTable DEF TypeOK
<1>5. CASE WritesEnd
  BY <1>5, WritesEndTable
<1>6. CASE UNCHANGED vars
  <2>1. UNCHANGED <<pc, clients, count, num_new, named, user_name, peer>>
    BY <1>6 DEF vars, loopVars, tableVars, sessionVars
  <2> QED BY <2>1, SameTable DEF TypeOK
<1>7. ASSUME NEW c \in Clients, PeerCloses(c) \/ ReadFails(c) \/ Write(c) \/ WriteFails(c)
      PROVE  TableInv'
  <2>1. /\ UNCHANGED <<pc, clients, count, num_new, named, user_name>>
        /\ \/ peer' = peer
           \/ /\ peer[c] # "none"
              /\ \E p \in PeerStates \ {"none"} : peer' = [peer EXCEPT ![c] = p]
    BY <1>7 DEF PeerCloses, ReadFails, Write, WriteFails, NextSlot, loopVars, tableVars,
                PeerStates
  <2>2. \A d \in Clients : peer'[d] = "none" <=> peer[d] = "none"
    BY <2>1 DEF TypeOK, SessionType
  <2> QED BY <2>1, <2>2, SameTable DEF TypeOK
<1>8. ASSUME NEW c \in Clients,
             \/ Answers(c) \/ Leave(c) \/ Send(c)
             \/ \E u \in UserNames \cup {NoName} : Befriend(c, u)
             \/ \E n \in ChannelNames : StartChannel(c, n)
             \/ \E n \in TypedNames : Join(c, n)
      PROVE  TableInv'
  <2>1. UNCHANGED <<pc, clients, count, num_new, named, user_name, peer>>
    <3>1. CASE Answers(c)
      BY <3>1, AnswersQueue DEF Queues, NextSlot, loopVars, tableVars, sessionVars
    <3>2. CASE ~Answers(c)
      BY <3>2, <1>8 DEF Leave, Send, Befriend, StartChannel, Join, NextSlot, loopVars,
                        tableVars, sessionVars
    <3> QED BY <3>1, <3>2
  <2> QED BY <2>1, SameTable DEF TypeOK
<1> QED
  BY <1>1, <1>2, <1>3, <1>4, <1>5, <1>6, <1>7, <1>8, StepKinds,
     AcceptTable, DisconnectTable, LogInTable

\* The invariant that carries the two theorems below.
LEMMA TableInvHolds == Spec => []TableInv
<1>1. Init => TypeOK /\ Stopped /\ TableInv
  BY InitType, EmptyTableInv DEF Init, Stopped
<1>2. TypeOK /\ Stopped /\ TableInv /\ [Next]_vars => (TypeOK /\ Stopped /\ TableInv)'
  BY TypeStep, StoppedStep, TableStep
<1> QED BY <1>1, <1>2, PTL DEF Spec

(***************************************************************************)
(* No slot points to a freed Client, no Client has two slots, and no       *)
(* connection is without one, although the table is shifted in the middle  *)
(* of the iteration that wrote a new connection beyond its counted part    *)
(* (server.c:274-300, 325-330).                                            *)
(***************************************************************************)
THEOREM TableAlwaysSound == Spec => []TableSound
<1>1. TableInv => TableSound
  BY TableInvSound
<1> QED BY <1>1, TableInvHolds, PTL

(***************************************************************************)
(* No two logged-in clients share a name, whatever an uninitialised or     *)
(* reused user_name holds and however often a client logs in again         *)
(* (server.c:595-610).                                                     *)
(***************************************************************************)
THEOREM NamesUnique == Spec => []UniqueNames
<1>1. TableInv => UniqueNames
  BY TableInvSound
<1> QED BY <1>1, TableInvHolds, PTL

-----------------------------------------------------------------------------
(***************************************************************************)
(* The hole in the table has one cause: a client found closed in the       *)
(* iteration that accepts another.  The closed clients are those that      *)
(* select() reported (read_fds), so while a connection waits beyond count  *)
(* there must be none.                                                     *)
(***************************************************************************)
NoneLate == "close_late" \notin Behaviours

Dense ==
    /\ num_new = 1 => read_fds = {}
    /\ \A s \in Slots : clients[s] # NULL <=> s < count + num_new

\* Without a connection that waits, the shift leaves no slot empty.
LEMMA DisconnectDense ==
    ASSUME TypeOK, Dense, NEW c \in Clients, Disconnect(c)
    PROVE  Dense'
<1> USE BoundsAssumption DEF Slots
<1>1. /\ i < count /\ c \in read_fds /\ UNCHANGED <<num_new, read_fds>>
      /\ clients' = ShiftDown(clients, i, count) /\ count' = count - 1
  BY DEF Disconnect, Reading, NextSlot, loopVars
<1>2. i \in 0 .. count - 1 /\ count \in 1 .. MaxConnections /\ num_new = 0
  BY <1>1 DEF TypeOK, LoopType, TableType, Dense
<1>3. \A t \in Slots : clients'[t] = IF i <= t /\ t < count - 1 THEN clients[t + 1]
                                     ELSE IF t = count - 1 THEN NULL ELSE clients[t]
  BY <1>1 DEF ShiftDown
<1>4. \A s \in Slots : clients[s] # NULL <=> s < count
  BY <1>2 DEF Dense, TypeOK, TableType
<1>5. ASSUME NEW t \in Slots PROVE clients'[t] # NULL <=> t < count - 1
  <2>1. CASE i <= t /\ t < count - 1
    <3>1. t + 1 \in Slots /\ t + 1 < count
      BY <1>2, <2>1
    <3> QED BY <1>3, <1>4, <2>1, <3>1
  <2>2. CASE t = count - 1
    BY <1>2, <1>3, <2>2
  <2>3. CASE ~(i <= t /\ t < count - 1) /\ t # count - 1
    <3>1. clients'[t] = clients[t] /\ (t < count <=> t < count - 1)
      BY <1>2, <1>3, <2>3
    <3> QED BY <1>4, <3>1
  <2> QED BY <2>1, <2>2, <2>3
<1> QED BY <1>1, <1>2, <1>5 DEF Dense

LEMMA DenseStep ==
    ASSUME NoneLate, TypeOK, Stopped, TableInv, Dense, [Next]_vars
    PROVE  Dense'
<1> USE BoundsAssumption, NullAssumption
<1>1. count \in 0 .. MaxConnections /\ num_new \in {0, 1}
  BY DEF TypeOK, LoopType, TableType
<1>2. ASSUME UNCHANGED <<clients, count, num_new>>, read_fds' \in {read_fds, {}} PROVE Dense'
  BY <1>2 DEF Dense
<1>3. CASE Ending
  <2>1. PICK why \in Faults : Ends(why)
    BY <1>3, EndingEnds
  <2> QED BY <2>1 DEF Ends, Dense, EmptyTable, Slots
<1>4. CASE Select
  <2>1. num_new = 0 /\ num_new' = 0 /\ UNCHANGED <<clients, count>>
    BY <1>4 DEF Select, tableVars, TableInv, TailFree
  <2> QED BY <2>1 DEF Dense
<1>5. CASE WritesEnd
  <2>1. num_new' = 0 /\ count' = count + num_new /\ clients' = clients
    BY <1>5 DEF WritesEnd
  <2>2. count' + num_new' = count + num_new
    BY <1>1, <2>1
  <2> QED BY <2>1, <2>2 DEF Dense
<1>6. CASE Launch \/ ReadsEnd \/ UNCHANGED vars
  BY <1>2, <1>6 DEF Launch, ReadsEnd, vars, loopVars, tableVars
<1>7. ASSUME NEW c \in Clients, Accept(c) PROVE Dense'
  <2>1. /\ num_new = 0 /\ num_new' = 1 /\ count' = count /\ read_fds' = {}
        /\ count < MaxConnections /\ clients' = [clients EXCEPT ![count] = c]
    BY <1>7 DEF Accept, NoneLate, May, TableInv, TailFree
  <2>2. \A s \in Slots : clients[s] # NULL <=> s < count
    BY <1>1, <2>1 DEF Dense
  <2>3. \A s \in Slots : clients'[s] = IF s = count THEN c ELSE clients[s]
    BY <2>1 DEF TypeOK, TableType
  <2>4. \A s \in Slots : s < count + 1 <=> s = count \/ s < count
    BY <1>1 DEF Slots
  <2> QED BY <2>1, <2>2, <2>3, <2>4 DEF Dense
<1>8. ASSUME NEW c \in Clients, Disconnect(c) PROVE Dense'
  BY <1>8, DisconnectDense
<1>9. ASSUME NEW c \in Clients, Answers(c) PROVE Dense'
  BY <1>2, <1>9, AnswersQueue DEF Queues, NextSlot, loopVars, tableVars
<1>10. ASSUME NEW c \in Clients,
              \/ PeerCloses(c) \/ ReadFails(c) \/ Leave(c) \/ Send(c) \/ Write(c) \/ WriteFails(c)
              \/ \E u \in UserNames \cup {NoName} : LogIn(c, u) \/ Befriend(c, u)
              \/ \E n \in ChannelNames : StartChannel(c, n)
              \/ \E n \in TypedNames : Join(c, n)
       PROVE  Dense'
  BY <1>2, <1>10 DEF PeerCloses, ReadFails, Leave, Send, Write, WriteFails, LogIn, Befriend,
                     StartChannel, Join, NextSlot, loopVars, tableVars
<1> QED BY <1>3, <1>4, <1>5, <1>6, <1>7, <1>8, <1>9, <1>10, StepKinds

(***************************************************************************)
(* If no client is found closed in the iteration that accepts another, the *)
(* table is dense at the top of the loop and FD_SET meets no NULL slot,    *)
(* whatever else closes, resets and stalls: that iteration is the whole    *)
(* cause of the hole (server.c:274-300, 324-330).                          *)
(***************************************************************************)
THEOREM DenseUnlessLate == ASSUME NoneLate PROVE Spec => []TableDense /\ [][~SelectCrashes]_vars
<1> DEFINE Inv == TypeOK /\ Stopped /\ TableInv /\ Dense
<1>1. Init => Inv
  BY InitType, EmptyTableInv DEF Init, Stopped, Dense, EmptyTable, Slots
<1>2. Inv /\ [Next]_vars => Inv'
  BY TypeStep, StoppedStep, TableStep, DenseStep
<1>3. Inv => TableDense
  <2> SUFFICES ASSUME Inv, pc = "select"
               PROVE  \A s \in Slots : clients[s] # NULL <=> s < count
    BY DEF TableDense
  <2>1. num_new = 0 /\ count \in Nat
    BY BoundsAssumption DEF TableInv, TailFree, TypeOK, TableType
  <2>2. count + num_new = count
    BY <2>1
  <2> QED BY <2>2 DEF Dense
<1>4. TableDense /\ [Next]_vars => [~SelectCrashes]_vars
  BY DEF TableDense, SelectCrashes, HasHole
<1> HIDE DEF Inv
<1> QED BY <1>1, <1>2, <1>3, <1>4, PTL DEF Spec
=============================================================================
