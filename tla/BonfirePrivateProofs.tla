------------------------ MODULE BonfirePrivateProofs ------------------------
(***************************************************************************)
(* Private channels.  Their file mirrors the list in memory whenever the   *)
(* server runs, whoever is inside one was invited to it or typed a name    *)
(* that the code takes for a friend's, and what the file lost it lost in   *)
(* a save: for every value of the constants.                               *)
(***************************************************************************)
EXTENDS BonfireMembersProofs

-----------------------------------------------------------------------------
(***************************************************************************)
(* The list of private channels.  The types are all the strengthening it   *)
(* needs: an entry has its channel below num_channels, where no later step *)
(* writes a name.                                                          *)
(***************************************************************************)

\* A turn that leaves the list, the file and the names of the list alone.
LEMMA SameStore ==
    ASSUME StoreMatches, UNCHANGED <<private_channels, private_file>>, pc # "down",
           \A p \in Entries : ~Dangling(p) =>
              channel_name'[private_channels[p].channel] = channel_name[private_channels[p].channel]
    PROVE  StoreMatches'
BY DEF StoreMatches, Entries, Dangling, EntryName

\* A restart reads back what the file holds.
LEMMA LaunchStore == ASSUME TypeOK, Launch PROVE StoreMatches'
<1>1. PICK n \in 0 .. MaxChannels :
         \E files \in [1 .. n -> DOMAIN archive], bits \in [1 .. n -> FreshBitmaps] :
            Reload(n, files, bits)
  BY DEF Launch
<1>2. PICK files \in [1 .. n -> DOMAIN archive], bits \in [1 .. n -> FreshBitmaps] :
         Reload(n, files, bits)
  BY <1>1
<1>3. private_channels' = Loaded(files, private_file) /\ private_file' = private_file
  BY <1>2 DEF Reload, Launch, diskVars
<1>4. /\ DOMAIN Loaded(files, private_file) = DOMAIN private_file
      /\ \A p \in DOMAIN private_file :
            LET e == Loaded(files, private_file)[p]
            IN  /\ e.channel \in 0 .. n
                /\ e.channel # 0 => files[e.channel] = private_file[p].name
                /\ e.invited = private_file[p].invited
  BY <1>2, LoadedType DEF Reload, TypeOK, DiskType
<1>5. \A k \in 1 .. n : channel_name'[k] = files[k]
  BY <1>2, BoundsAssumption DEF Reload, ChannelIds
<1> QED BY <1>3, <1>4, <1>5 DEF StoreMatches, Entries, Dangling, EntryName

\* The second save of a friend request writes the list as it is from then on.
LEMMA BefriendStore ==
    ASSUME TypeOK, NEW c \in Clients, NEW u \in UserNames \cup {NoName}, Befriend(c, u)
    PROVE  StoreMatches'
<1>1. private_file' = Saved(private_channels', channel_name')
  BY DEF Befriend
<1> QED BY <1>1 DEF StoreMatches, Saved, Entries, Dangling, EntryName

\* A new channel takes a place that no entry points to.
LEMMA StartStore ==
    ASSUME TypeOK, StoreMatches, NEW c \in Clients, NEW n \in ChannelNames, StartChannel(c, n)
    PROVE  StoreMatches'
<1>1. /\ channel_name' = [channel_name EXCEPT ![num_channels + 1] = n]
      /\ UNCHANGED <<private_channels, private_file>> /\ pc # "down"
  BY DEF StartChannel, Requests, Reading, diskVars
<1>2. \A p \in Entries : private_channels[p].channel # num_channels + 1
  BY BoundsAssumption DEF TypeOK, PrivateType, ChannelType
<1>3. channel_name \in [ChannelIds -> Names]
  BY DEF TypeOK, ChannelType
<1>4. \A p \in Entries :
         channel_name'[private_channels[p].channel] = channel_name[private_channels[p].channel]
  BY <1>1, <1>2, <1>3
<1> QED BY <1>1, <1>4, SameStore

\* Every step keeps the file and the list together.
LEMMA StoreStep == ASSUME TypeOK, StoreMatches, [Next]_vars PROVE StoreMatches'
<1>1. CASE Ending
  <2>1. PICK why \in Faults : Ends(why)
    BY <1>1, EndingEnds
  <2> QED BY <2>1 DEF Ends, StoreMatches
<1>2. CASE UNCHANGED vars
  BY <1>2 DEF vars, loopVars, channelVars, diskVars, StoreMatches, Entries, Dangling, EntryName
<1>3. CASE Select \/ ReadsEnd \/ WritesEnd
  <2>1. UNCHANGED <<private_channels, private_file, channel_name>> /\ pc # "down"
    BY <1>3 DEF Select, ReadsEnd, WritesEnd, channelVars, diskVars
  <2> QED BY <2>1, SameStore
<1>4. ASSUME NEW c \in Clients, Answers(c) PROVE StoreMatches'
  <2>1. UNCHANGED <<private_channels, private_file, channel_name>>
    BY <1>4, AnswersQueue DEF Queues, channelVars, diskVars
  <2>2. pc # "down"
    BY <1>4 DEF Answers, SkipRead, Online, SendNowhere, SkipWrite, LogInFails, FriendUnknown,
                StartFails, JoinFails, Requests, Logs, Reading, Writing
  <2> QED BY <2>1, <2>2, SameStore
<1>5. ASSUME NEW c \in Clients,
             \/ Accept(c) \/ ReadFails(c) \/ Disconnect(c) \/ Leave(c)
             \/ Send(c) \/ Write(c) \/ WriteFails(c)
             \/ \E u \in UserNames \cup {NoName} : LogIn(c, u)
             \/ \E n \in TypedNames : Join(c, n)
      PROVE  StoreMatches'
  <2>1. UNCHANGED <<private_channels, private_file, channel_name>> /\ pc # "down"
    BY <1>5 DEF Accept, ReadFails, Disconnect, Leave, Send, Write, WriteFails, LogIn, Join,
                Requests, Logs, Reading, Writing, channelVars, diskVars
  <2> QED BY <2>1, SameStore
<1>6. ASSUME NEW c \in Clients, PeerCloses(c) PROVE StoreMatches'
  BY <1>6 DEF PeerCloses, loopVars, channelVars, diskVars, StoreMatches, Entries, Dangling,
              EntryName
<1> QED
  BY <1>1, <1>2, <1>3, <1>4, <1>5, <1>6, StepKinds, LaunchStore, BefriendStore, StartStore

(***************************************************************************)
(* While the server runs, the file of private channels says what memory    *)
(* says, after any number of kills, of interrupted saves and of restarts   *)
(* (channels.c:105-180).                                                   *)
(***************************************************************************)
THEOREM FileMirrorsMemory == Spec => []StoreMatches
<1>1. Init => StoreMatches
  BY DEF Init, StoreMatches
<1>2. TypeOK /\ StoreMatches /\ [Next]_vars => StoreMatches'
  BY StoreStep
<1> QED BY <1>1, <1>2, TypeCorrect, PTL DEF Spec

-----------------------------------------------------------------------------
(***************************************************************************)
(* Inside a private channel.  Nobody changes names in a channel, an entry  *)
(* keeps its channel and its invitations, and a channel keeps its name; so *)
(* only the step that lets a client in has to be looked at.                *)
(***************************************************************************)
InvitedTo(c) ==
    \/ Invitations(user_name[c], ActiveName(c)) # {}
    \/ Namesake(user_name[c], ActiveName(c))

\* A turn that moves nobody into a channel, renames nobody inside one and
\* leaves channels and list alone.
LEMMA SameGuests ==
    ASSUME OnlyInvitedInside, UNCHANGED <<channel_name, private_channels>>,
           \A c \in Clients : active_channel'[c] # 0 =>
              active_channel'[c] = active_channel[c] /\ user_name'[c] = user_name[c]
    PROVE  OnlyInvitedInside'
<1> SUFFICES ASSUME NEW c \in Clients, NEW p \in Entries, active_channel'[c] # 0,
                    private_channels[p].channel = active_channel'[c]
             PROVE  InvitedTo(c)'
  BY DEF OnlyInvitedInside, Entries, InvitedTo
<1>1. active_channel'[c] = active_channel[c] /\ user_name'[c] = user_name[c]
  OBVIOUS
<1>2. InvitedTo(c)
  BY <1>1 DEF OnlyInvitedInside, InvitedTo
<1> QED
  BY <1>1, <1>2
     DEF InvitedTo, Invitations, Entries, IsEntry, Dangling, EntryName, ActiveName, Namesake

\* Nobody is inside after the end of the process, nor after a restart.
LEMMA NobodyInside ==
    ASSUME Orders, Ending \/ Launch PROVE OnlyInvitedInside'
<1>1. CASE Ending
  <2>1. PICK why \in Faults : Ends(why)
    BY <1>1, EndingEnds
  <2> QED BY <2>1 DEF Ends, OnlyInvitedInside
<1>2. CASE Launch
  <2>1. \A c \in Clients : active_channel'[c] = 0
    BY <1>2 DEF Launch, Orders, Stopped, sessionVars
  <2> QED BY <2>1 DEF OnlyInvitedInside
<1> QED BY <1>1, <1>2

\* Those inside stay invited when channels and entries are added, and old
\* entries keep their channels and their invitations.
LEMMA StillInvited ==
    ASSUME TypeOK, OnlyInvitedInside, NEW c \in Clients,
           active_channel'[c] = active_channel[c], user_name'[c] = user_name[c],
           \A k \in 1 .. num_channels : channel_name'[k] = channel_name[k],
           Entries \subseteq Entries',
           \A p \in Entries :
              /\ private_channels'[p].channel = private_channels[p].channel
              /\ private_channels[p].invited \subseteq private_channels'[p].invited,
           NEW p \in Entries, active_channel[c] # 0, private_channels[p].channel = active_channel[c]
    PROVE  InvitedTo(c)'
<1>1. /\ active_channel[c] \in 1 .. num_channels
      /\ \A q \in Entries : private_channels[q].channel \in 0 .. num_channels
  BY EntryType DEF TypeOK, SessionType, ChannelType
<1>2. ActiveName(c)' = ActiveName(c)
  BY <1>1 DEF ActiveName
<1>3. \A q \in Entries : \A n : IsEntry(q, n) => IsEntry(q, n)'
  <2> SUFFICES ASSUME NEW q \in Entries, NEW n, IsEntry(q, n) PROVE IsEntry(q, n)'
    OBVIOUS
  <2>1. private_channels[q].channel \in 1 .. num_channels
    BY <1>1 DEF IsEntry, Dangling
  <2>2. /\ private_channels'[q].channel = private_channels[q].channel
        /\ channel_name'[private_channels[q].channel] = channel_name[private_channels[q].channel]
    BY <2>1
  <2> QED BY <2>1, <2>2 DEF IsEntry, Dangling, EntryName
<1>4. InvitedTo(c)
  BY DEF OnlyInvitedInside, InvitedTo
<1>5. CASE Namesake(user_name[c], ActiveName(c))
  BY <1>2, <1>5 DEF InvitedTo, Namesake
<1>6. ASSUME NEW q \in Invitations(user_name[c], ActiveName(c)) PROVE InvitedTo(c)'
  <2>1. q \in Entries /\ IsEntry(q, ActiveName(c)) /\ user_name[c] \in private_channels[q].invited
    BY <1>6 DEF Invitations
  <2>2. q \in Entries' /\ IsEntry(q, ActiveName(c))' /\ user_name'[c] \in private_channels'[q].invited
    BY <1>2, <1>3, <2>1 DEF IsEntry, EntryName, Dangling
  <2> QED BY <2>2 DEF InvitedTo, Invitations
<1> QED BY <1>4, <1>5, <1>6 DEF InvitedTo

\* A new channel is the channel of no entry.
LEMMA StartGuests ==
    ASSUME TypeOK, OnlyInvitedInside, NEW c \in Clients, NEW n \in ChannelNames, StartChannel(c, n)
    PROVE  OnlyInvitedInside'
<1> USE BoundsAssumption
<1>1. /\ channel_name' = [channel_name EXCEPT ![num_channels + 1] = n]
      /\ active_channel' = [active_channel EXCEPT ![c] = num_channels + 1]
      /\ UNCHANGED <<private_channels, user_name>> /\ num_channels < MaxChannels
  BY DEF StartChannel
<1>2. /\ channel_name \in [ChannelIds -> Names] /\ num_channels \in Nat
      /\ active_channel \in [Clients -> 0 .. MaxChannels]
      /\ \A p \in Entries : private_channels[p].channel \in 0 .. num_channels
  BY EntryType DEF TypeOK, ChannelType, SessionType
<1>3. \A k \in 1 .. num_channels : channel_name'[k] = channel_name[k]
  BY <1>1, <1>2 DEF ChannelIds
<1> SUFFICES ASSUME NEW d \in Clients, NEW p \in Entries, active_channel'[d] # 0,
                    private_channels[p].channel = active_channel'[d]
             PROVE  InvitedTo(d)'
  BY <1>1 DEF OnlyInvitedInside, Entries, InvitedTo
<1>4. d # c
  BY <1>1, <1>2
<1>5. active_channel'[d] = active_channel[d] /\ user_name'[d] = user_name[d]
  BY <1>1, <1>2, <1>4
<1> QED BY <1>1, <1>3, <1>5, StillInvited DEF Entries

\* A friend request adds an entry, of a new channel, and invitations.
LEMMA BefriendGuests ==
    ASSUME TypeOK, OnlyInvitedInside, NEW c \in Clients,
           NEW u \in UserNames \cup {NoName}, Befriend(c, u)
    PROVE  OnlyInvitedInside'
<1> USE BoundsAssumption
<1> DEFINE n == user_name[c] \o u
           list == WithRequest(c)
<1>1. /\ channel_name' = [channel_name EXCEPT ![num_channels + 1] = n]
      /\ private_channels' = Invite(list, channel_name', n, u)
      /\ UNCHANGED <<active_channel, user_name>>
      /\ num_channels < MaxChannels /\ \A p \in Entries : ~Dangling(p)
  BY DEF Befriend, CanBefriend, sessionVars
<1>2. /\ channel_name \in [ChannelIds -> Names] /\ num_channels \in Nat
      /\ \A d \in Clients : active_channel[d] \in 0 .. num_channels
      /\ Len(private_channels) \in Nat /\ Entries = 1 .. Len(private_channels)
      /\ \A p \in Entries : private_channels[p] \in PrivateEntries
  BY EntryType DEF TypeOK, ChannelType, SessionType
<1>3. /\ DOMAIN list = 1 .. Len(private_channels) + 1
      /\ \A p \in Entries : list[p] = private_channels[p]
      /\ list[Len(private_channels) + 1].channel = num_channels + 1
  <2>1. PrivateType /\ ChannelType /\ SessionType /\ \A p \in Entries : ~Dangling(p)
    BY <1>1 DEF TypeOK
  <2>2. /\ DOMAIN WithRequest(c) = 1 .. Len(private_channels) + 1
        /\ \A p \in Entries : WithRequest(c)[p] = private_channels[p]
        /\ WithRequest(c)[Len(private_channels) + 1] =
              [channel |-> num_channels + 1, invited |-> {user_name[c]}]
    BY <1>1, <2>1, WithRequestType
  <2> QED BY <2>2
<1> HIDE DEF n, list
<1>4. \A k \in 1 .. num_channels : channel_name'[k] = channel_name[k]
  BY <1>1, <1>2 DEF ChannelIds
<1>5. Entries' = DOMAIN list
  BY <1>1 DEF Invite, Entries
<1>6. \A p \in Entries : /\ private_channels'[p].channel = private_channels[p].channel
                          /\ private_channels[p].invited \subseteq private_channels'[p].invited
  <2> TAKE p \in Entries
  <2>1. p \in DOMAIN list /\ list[p] = private_channels[p] /\ private_channels[p] \in PrivateEntries
    BY <1>2, <1>3
  <2>2. \/ private_channels'[p] = private_channels[p]
        \/ private_channels'[p] = [private_channels[p] EXCEPT !.invited = @ \cup {u}]
    BY <1>1, <2>1 DEF Invite
  <2> QED BY <2>1, <2>2 DEF PrivateEntries
<1>7. ASSUME NEW p \in Entries', p \notin Entries
      PROVE  private_channels'[p].channel = num_channels + 1
  <2>1. p = Len(private_channels) + 1 /\ p \in DOMAIN list
    BY <1>2, <1>3, <1>5, <1>7
  <2>2. list[p].channel = num_channels + 1
    BY <1>3, <2>1
  <2>3. private_channels'[p].channel = list[p].channel
    <3>1. list \in Seq(PrivateEntries)
      BY <1>1, WithRequestType DEF list, Listed, TypeOK
    <3>2. list[p] \in PrivateEntries
      BY <2>1, <3>1
    <3>3. private_channels'[p] \in {list[p], [list[p] EXCEPT !.invited = @ \cup {u}]}
      BY <1>1, <2>1 DEF Invite
    <3> QED BY <3>2, <3>3 DEF PrivateEntries
  <2> QED BY <2>2, <2>3
<1> SUFFICES ASSUME NEW d \in Clients, NEW p \in Entries', active_channel'[d] # 0,
                    private_channels'[p].channel = active_channel'[d]
             PROVE  InvitedTo(d)'
  BY DEF OnlyInvitedInside, InvitedTo
<1>8. p \in Entries /\ private_channels[p].channel = active_channel[d]
  <2>1. active_channel'[d] = active_channel[d] /\ active_channel[d] # num_channels + 1
    BY <1>1, <1>2
  <2>2. p \in Entries
    BY <1>7, <2>1
  <2> QED BY <1>6, <2>1, <2>2
<1>9. Entries \subseteq Entries'
  BY <1>2, <1>3, <1>5
<1> QED BY <1>1, <1>4, <1>6, <1>8, <1>9, StillInvited

\* JOIN lets in whom an entry of the name that was typed invites, or who
\* typed what makes the name of an entry with its own.
LEMMA JoinGuests ==
    ASSUME TypeOK, OnlyInvitedInside, NEW c \in Clients, NEW t \in TypedNames, Join(c, t)
    PROVE  OnlyInvitedInside'
<1> DEFINE u == user_name[c]
           target == Resolve(u, t)
<1>1. PICK last \in ChannelsNamed(target) :
         active_channel' = [active_channel EXCEPT ![c] = last]
  BY DEF Join, Joins
<1>2. AllowedToJoin(u, t) /\ UNCHANGED <<channel_name, private_channels, user_name, num_channels>>
  BY DEF Join
<1>3. /\ channel_name[last] = target /\ active_channel \in [Clients -> 0 .. MaxChannels]
      /\ last # 0
  BY DEF ChannelsNamed, TypeOK, SessionType
<1>4. ASSUME NEW p \in Entries, private_channels[p].channel = last
      PROVE  Invitations(u, target) # {} \/ Namesake(u, target)
  <2>1. IsEntry(p, target)
    BY <1>3, <1>4 DEF IsEntry, Dangling, EntryName
  <2>2. CASE FriendHits(u, t) = {}
    <3>1. target = t
      BY <2>2 DEF Resolve
    <3> QED BY <1>2, <2>1, <3>1 DEF AllowedToJoin, IsPrivate
  <2>3. CASE FriendHits(u, t) # {}
    <3> DEFINE q == FirstOf(FriendHits(u, t))
    <3>1. FriendHits(u, t) \subseteq Nat
      BY EntryType DEF FriendHits, TypeOK
    <3>2. q \in FriendHits(u, t)
      BY <2>3, <3>1, FirstIsOne
    <3>3. target = EntryName(q)
      BY <2>3 DEF Resolve
    <3> HIDE DEF q
    <3>4. EntryName(q) \in {u \o t, t \o u}
      BY <3>2 DEF FriendHits, IsEntry
    <3> QED BY <3>3, <3>4 DEF Namesake
  <2> QED BY <2>2, <2>3
<1> HIDE DEF target
<1> SUFFICES ASSUME NEW d \in Clients, NEW p \in Entries, active_channel'[d] # 0,
                    private_channels[p].channel = active_channel'[d]
             PROVE  InvitedTo(d)'
  BY <1>2 DEF OnlyInvitedInside, Entries, InvitedTo
<1>5. CASE d = c
  <2>1. active_channel'[c] = last /\ ActiveName(c)' = target
    BY <1>1, <1>2, <1>3 DEF ActiveName
  <2>2. Invitations(u, target) # {} \/ Namesake(u, target)
    BY <1>4, <1>5, <2>1
  <2>3. user_name'[c] = u
    BY <1>2
  <2> QED
    BY <1>2, <1>5, <2>1, <2>2, <2>3
       DEF InvitedTo, Invitations, IsEntry, Dangling, EntryName, Entries, Namesake
<1>6. CASE d # c
  <2>1. active_channel'[d] = active_channel[d] /\ user_name'[d] = user_name[d]
    BY <1>1, <1>2, <1>3, <1>6
  <2> QED BY <1>2, <2>1, StillInvited DEF Entries
<1> QED BY <1>5, <1>6

\* A connection that is accepted has not logged in.
LEMMA AcceptUnnamed ==
    ASSUME Orders, NEW c \in Clients, Accept(c) PROVE ~named[c]
<1> SUFFICES ASSUME named[c] PROVE FALSE
  OBVIOUS
<1>1. PICK s \in Slots : s < count /\ clients[s] = c
  BY DEF Orders, TableInv, NamedCounted
<1>2. peer[c] # "none"
  BY <1>1, NullAssumption DEF Orders, TableInv, NoDangling
<1> QED BY <1>2 DEF Accept

\* Every step keeps out who has no way in.
LEMMA GuestsStep ==
    ASSUME Orders, InsideNamed, OnlyInvitedInside, [Next]_vars
    PROVE  OnlyInvitedInside'
<1> USE DEF Orders
<1>1. CASE UNCHANGED <<channel_name, private_channels, active_channel, user_name>>
  BY <1>1, SameGuests
<1>2. CASE Select \/ ReadsEnd \/ WritesEnd \/ UNCHANGED vars
  BY <1>1, <1>2 DEF Select, ReadsEnd, WritesEnd, vars, channelVars, sessionVars
<1>3. ASSUME NEW c \in Clients,
             \/ PeerCloses(c) \/ Answers(c) \/ ReadFails(c) \/ Send(c) \/ Write(c)
             \/ WriteFails(c)
      PROVE  OnlyInvitedInside'
  BY <1>1, <1>3, AnswersQueue
     DEF PeerCloses, ReadFails, Send, Write, WriteFails, Queues, sessionVars, channelVars
<1>4. ASSUME NEW c \in Clients, Accept(c) PROVE OnlyInvitedInside'
  <2>1. \A d \in Clients : d # c => user_name'[d] = user_name[d]
    BY <1>4 DEF Accept, TypeOK, SessionType
  <2>2. active_channel[c] = 0
    BY <1>4, AcceptUnnamed DEF InsideNamed
  <2>3. UNCHANGED <<channel_name, private_channels, active_channel>>
    BY <1>4 DEF Accept, channelVars
  <2> QED BY <2>1, <2>2, <2>3, SameGuests
<1>5. ASSUME NEW c \in Clients, NEW u \in UserNames \cup {NoName}, LogIn(c, u)
      PROVE  OnlyInvitedInside'
  <2>1. active_channel[c] = 0
    BY <1>5 DEF LogIn, Logs
  <2>2. \A d \in Clients : d # c => user_name'[d] = user_name[d]
    BY <1>5 DEF LogIn, TypeOK, SessionType
  <2>3. UNCHANGED <<channel_name, private_channels, active_channel>>
    BY <1>5 DEF LogIn, channelVars
  <2> QED BY <2>1, <2>2, <2>3, SameGuests
<1>6. ASSUME NEW c \in Clients, Disconnect(c) \/ Leave(c) PROVE OnlyInvitedInside'
  <2>1. active_channel' = [active_channel EXCEPT ![c] = 0] /\ user_name' = user_name
    BY <1>6 DEF Disconnect, Leave
  <2>2. \A d \in Clients : active_channel'[d] # 0 => active_channel'[d] = active_channel[d]
    BY <2>1 DEF TypeOK, SessionType
  <2>3. UNCHANGED <<channel_name, private_channels>>
    BY <1>6 DEF Disconnect, Leave, channelVars
  <2> QED BY <2>1, <2>2, <2>3, SameGuests
<1> QED
  BY <1>2, <1>3, <1>4, <1>5, <1>6, StepKinds, NobodyInside, StartGuests, JoinGuests,
     BefriendGuests

(***************************************************************************)
(* Whoever is in a private channel was invited to a channel of that name,  *)
(* or typed a name that gives that of the channel together with its own;   *)
(* whatever else is asked, repeated, stopped inside a save, restarted,     *)
(* disconnected, left or found dangling (server.c:385-401,                 *)
(* channels.c:90-234).                                                     *)
(***************************************************************************)
THEOREM OnlyTheInvited == Spec => []OnlyInvitedInside
<1>1. Init => OnlyInvitedInside
  BY DEF Init, OnlyInvitedInside
<1>2. Orders /\ InsideNamed /\ OnlyInvitedInside /\ [Next]_vars => OnlyInvitedInside'
  BY GuestsStep
<1> QED BY <1>1, <1>2, SeatedAlways, PTL DEF Spec

-----------------------------------------------------------------------------
(***************************************************************************)
(* Invitations on disk.  The file is rewritten by friend requests alone,   *)
(* from a list that says what the file says (FileMirrorsMemory).           *)
(***************************************************************************)
Tidy == \A p \in Entries : ~Dangling(p)

LEMMA BefriendKeeps ==
    ASSUME TypeOK, StoreMatches, Tidy, NEW c \in Clients,
           NEW u \in UserNames \cup {NoName}, Befriend(c, u),
           NEW p \in DOMAIN private_file, NEW v \in private_file[p].invited
    PROVE  SavedIn(private_file', private_file[p].name, v)
<1> USE BoundsAssumption
<1> DEFINE n == user_name[c] \o u
           list == WithRequest(c)
<1>1. /\ channel_name' = [channel_name EXCEPT ![num_channels + 1] = n]
      /\ private_channels' = Invite(list, channel_name', n, u)
      /\ private_file' = Saved(private_channels', channel_name')
      /\ num_channels < MaxChannels /\ pc # "down"
  BY DEF Befriend, CanBefriend, Requests, Reading
<1>2. /\ p \in Entries /\ v \in private_channels[p].invited
      /\ private_file[p].name = EntryName(p)
  BY <1>1 DEF StoreMatches, Tidy
<1>3. /\ channel_name \in [ChannelIds -> Names] /\ num_channels \in Nat
      /\ Len(private_channels) \in Nat /\ Entries = 1 .. Len(private_channels)
      /\ private_channels[p].channel \in 1 .. num_channels
  BY <1>2, EntryType DEF TypeOK, ChannelType, Dangling, Tidy
<1>4. p \in DOMAIN list /\ list[p] = private_channels[p]
  <2>1. \A q \in Entries : ~Dangling(q)
    BY DEF Tidy
  <2>2. PrivateType /\ ChannelType /\ SessionType
    BY DEF TypeOK
  <2>3. /\ DOMAIN WithRequest(c) = 1 .. Len(private_channels) + 1
        /\ \A q \in Entries : WithRequest(c)[q] = private_channels[q]
    BY <1>1, <2>1, <2>2, WithRequestType
  <2>4. p \in 1 .. Len(private_channels) + 1
    BY <1>2, <1>3
  <2> QED BY <1>2, <2>3, <2>4
<1> HIDE DEF n, list
<1>5. channel_name'[private_channels[p].channel] = EntryName(p)
  BY <1>1, <1>3 DEF EntryName
<1>6. /\ p \in DOMAIN private_channels'
      /\ private_channels'[p].channel = private_channels[p].channel
      /\ v \in private_channels'[p].invited
  <2>1. private_channels[p] \in PrivateEntries
    BY <1>2, EntryType DEF TypeOK
  <2>2. DOMAIN private_channels' = DOMAIN list
    BY <1>1 DEF Invite
  <2>3. \/ private_channels'[p] = private_channels[p]
        \/ private_channels'[p] = [private_channels[p] EXCEPT !.invited = @ \cup {u}]
    BY <1>1, <1>4 DEF Invite
  <2> QED BY <1>2, <1>4, <2>1, <2>2, <2>3 DEF PrivateEntries
<1>7. /\ p \in DOMAIN private_file' /\ private_file'[p].name = EntryName(p)
      /\ v \in private_file'[p].invited
  BY <1>1, <1>5, <1>6 DEF Saved
<1> QED BY <1>2, <1>7 DEF SavedIn

(***************************************************************************)
(* No invitation is lost, by any end of the process or any request, unless *)
(* the list holds a NULL channel or the server is stopped inside a save:   *)
(* README:8 promises it without those conditions (channels.c:105-180).     *)
(***************************************************************************)
THEOREM InvitationsKept ==
    ASSUME "kill_in_save" \notin Behaviours
    PROVE  Spec /\ []Tidy => InvitesSurvive
<1>1. ASSUME TypeOK, StoreMatches, Tidy, [Next]_vars,
             NEW p \in DOMAIN private_file, NEW v \in private_file[p].invited
      PROVE  SavedIn(private_file', private_file[p].name, v)
  <2>1. CASE private_file' = private_file
    BY <2>1 DEF SavedIn
  <2>2. CASE private_file' # private_file
    <3>1. ~Ending
      <4>1. \A c \in Clients, u \in UserNames \cup {NoName} :
               ~FriendCrashes(c, u) /\ ~FriendInterrupted(c, u)
        BY <1>1 DEF FriendCrashes, FriendInterrupted, May, Tidy
      <4>2. \A why \in Faults : ~Dies(why)
        BY <2>2 DEF Dies
      <4> QED BY <4>1, <4>2 DEF Ending
    <3>2. ~(Launch \/ Select \/ ReadsEnd \/ WritesEnd \/ UNCHANGED vars)
      BY <2>2 DEF Launch, Select, ReadsEnd, WritesEnd, vars, diskVars
    <3>3. \A c \in Clients : ~Answers(c)
      BY <2>2, AnswersQueue DEF Queues, diskVars
    <3>4. \A c \in Clients :
             /\ ~Accept(c) /\ ~PeerCloses(c) /\ ~ReadFails(c) /\ ~Disconnect(c) /\ ~Leave(c)
             /\ ~Send(c) /\ ~Write(c) /\ ~WriteFails(c)
             /\ \A u \in UserNames \cup {NoName} : ~LogIn(c, u)
             /\ \A n \in ChannelNames : ~StartChannel(c, n)
             /\ \A n \in TypedNames : ~Join(c, n)
      BY <2>2 DEF Accept, PeerCloses, ReadFails, Disconnect, Leave, Send, Write,
                  WriteFails, LogIn, StartChannel, Join, diskVars
    <3>5. PICK c \in Clients, u \in UserNames \cup {NoName} : Befriend(c, u)
      BY <1>1, <3>1, <3>2, <3>3, <3>4, StepKinds
    <3> QED BY <1>1, <3>5, BefriendKeeps
  <2> QED BY <2>1, <2>2
<1> DEFINE NoneLost == \A p \in DOMAIN private_file : \A u \in private_file[p].invited :
                      SavedIn(private_file', private_file[p].name, u)
<1>2. TypeOK /\ StoreMatches /\ Tidy /\ [Next]_vars => [NoneLost]_vars
  BY <1>1
<1>3. Spec /\ []Tidy => [][NoneLost]_vars
  <2> HIDE DEF NoneLost
  <2> QED BY <1>2, TypeCorrect, FileMirrorsMemory, PTL DEF Spec
<1> QED BY <1>3 DEF InvitesSurvive

-----------------------------------------------------------------------------
(***************************************************************************)
(* The NULL channel has one cause: a restart that finds in the file the    *)
(* name of a channel that has no archive.                                  *)
(***************************************************************************)
FileBacked ==
    pc = "down" => \A p \in DOMAIN private_file : private_file[p].name \in DOMAIN archive

\* Every name in the file is found among the channels that were loaded.
LEMMA LaunchTidy == ASSUME TypeOK, FileBacked, Launch PROVE Tidy'
<1>1. PICK n \in 0 .. MaxChannels :
         \E files \in [1 .. n -> DOMAIN archive], bits \in [1 .. n -> FreshBitmaps] :
            Reload(n, files, bits)
  BY DEF Launch
<1>2. PICK files \in [1 .. n -> DOMAIN archive], bits \in [1 .. n -> FreshBitmaps] :
         Reload(n, files, bits)
  BY <1>1
<1>3. private_channels' = Loaded(files, private_file) /\ Lists(files, DOMAIN archive)
  BY <1>2 DEF Reload
<1>4. ASSUME NEW p \in DOMAIN private_file PROVE Loaded(files, private_file)[p].channel # 0
  <2> DEFINE hits == {k \in DOMAIN files : files[k] = private_file[p].name}
  <2>1. private_file[p].name \in DOMAIN archive
    BY DEF FileBacked, Launch
  <2>2. hits # {} /\ hits \subseteq 1 .. n
    BY <1>3, <2>1 DEF Lists
  <2>3. Loaded(files, private_file)[p].channel = FirstOf(hits)
    BY <2>2 DEF Loaded
  <2> HIDE DEF hits
  <2>4. FirstOf(hits) \in hits
    <3>1. hits \subseteq Nat
      BY <2>2
    <3> QED BY <2>2, <3>1, FirstIsOne
  <2> QED BY <2>2, <2>3, <2>4
<1>5. DOMAIN Loaded(files, private_file) = DOMAIN private_file
  BY DEF Loaded
<1> QED BY <1>3, <1>4, <1>5 DEF Tidy, Dangling, Entries

\* A friend request makes the channel of its entry first.
LEMMA BefriendTidy ==
    ASSUME TypeOK, Tidy, NEW c \in Clients, NEW u \in UserNames \cup {NoName}, Befriend(c, u)
    PROVE  Tidy'
<1>1. /\ private_channels' = Invite(WithRequest(c), channel_name', user_name[c] \o u, u)
      /\ num_channels < MaxChannels
  BY DEF Befriend, CanBefriend
<1>2. Listed(WithRequest(c), num_channels + 1)
  BY <1>1, WithRequestType DEF TypeOK, Tidy
<1>3. u \in Names
  BY FriendNameType DEF TypeOK
<1> DEFINE list == WithRequest(c)
<1> HIDE DEF list
<1>4. /\ DOMAIN private_channels' = DOMAIN list
      /\ \A p \in DOMAIN list : private_channels'[p].channel = list[p].channel
  BY <1>1, <1>2, <1>3, InviteType DEF list
<1>5. \A p \in DOMAIN list : list[p].channel # 0
  BY <1>2 DEF Listed, list
<1> QED BY <1>4, <1>5 DEF Tidy, Dangling, Entries

LEMMA TidyStep == ASSUME TypeOK, FileBacked, Tidy, [Next]_vars PROVE Tidy'
<1>1. ASSUME private_channels' = private_channels PROVE Tidy'
  BY <1>1 DEF Tidy, Dangling, Entries
<1>2. CASE Ending
  <2>1. PICK why \in Faults : Ends(why)
    BY <1>2, EndingEnds
  <2> QED BY <2>1 DEF Ends, Tidy, Entries
<1>3. CASE Launch
  BY <1>3, LaunchTidy
<1>4. CASE Select \/ ReadsEnd \/ WritesEnd \/ UNCHANGED vars
  BY <1>1, <1>4 DEF Select, ReadsEnd, WritesEnd, vars
<1>5. ASSUME NEW c \in Clients, NEW u \in UserNames \cup {NoName}, Befriend(c, u) PROVE Tidy'
  BY <1>5, BefriendTidy
<1>6. ASSUME NEW c \in Clients, Answers(c) PROVE Tidy'
  BY <1>1, <1>6, AnswersQueue DEF Queues
<1>7. ASSUME NEW c \in Clients,
             \/ Accept(c) \/ PeerCloses(c) \/ ReadFails(c) \/ Disconnect(c) \/ Leave(c)
             \/ Send(c) \/ Write(c) \/ WriteFails(c)
             \/ \E u \in UserNames \cup {NoName} : LogIn(c, u)
             \/ \E n \in ChannelNames : StartChannel(c, n)
             \/ \E n \in TypedNames : Join(c, n)
      PROVE  Tidy'
  BY <1>1, <1>7 DEF Accept, PeerCloses, ReadFails, Disconnect, Leave, Send, Write,
                    WriteFails, LogIn, StartChannel, Join
<1> QED BY <1>2, <1>3, <1>4, <1>5, <1>6, <1>7, StepKinds

\* Without a NULL channel no scan of the list ends the process.
LEMMA TidyScans ==
    ASSUME Tidy, [Next]_vars, NullChannelHandled PROVE NullChannelHandled'
<1> USE DEF NullChannelHandled
<1>1. \A hits : ~ScanCrashes(hits)
  BY DEF ScanCrashes, Tidy
<1>2. \A c \in Clients, n \in TypedNames : ~JoinCrashes(c, n)
  BY <1>1 DEF JoinCrashes
<1>3. \A c \in Clients : ~OnlineCrashes(c)
  BY <1>1 DEF OnlineCrashes
<1>4. \A c \in Clients, u \in UserNames \cup {NoName} : ~FriendCrashes(c, u)
  BY DEF FriendCrashes, Tidy
<1>5. ASSUME NEW c \in Clients, Request(c) PROVE fault' = fault
  <2>1. CASE Answers(c)
    BY <2>1, AnswersQueue DEF Queues, NextSlot, loopVars
  <2>2. CASE ~Answers(c)
    BY <1>2, <1>3, <1>4, <1>5, <2>2
       DEF Request, Answers, LogIn, StartChannel, Join, Befriend, Leave, Send, NextSlot, loopVars
  <2> QED BY <2>1, <2>2
<1>6. CASE ServerStep
  <2>1. CASE SelectCrashes \/ \E c \in Clients : WriteCrashes(c)
    BY <2>1 DEF SelectCrashes, WriteCrashes, Dies, Ends
  <2>2. CASE Select \/ ReadsEnd \/ WritesEnd
    BY <2>2 DEF Select, ReadsEnd, WritesEnd
  <2>3. ASSUME NEW c \in Clients,
               SkipRead(c) \/ ReadFails(c) \/ Disconnect(c) \/ Write(c) \/ WriteFails(c) \/ SkipWrite(c)
        PROVE  fault' = fault
    BY <2>3 DEF SkipRead, ReadFails, Disconnect, Write, WriteFails, SkipWrite, NextSlot, loopVars
  <2> QED BY <1>5, <1>6, <2>1, <2>2, <2>3 DEF ServerStep
<1>7. CASE Environment
  <2>1. CASE Kill \/ \E c \in Clients : \E u \in UserNames \cup {NoName} : FriendInterrupted(c, u)
    BY <2>1 DEF Kill, FriendInterrupted, Dies, Ends
  <2>2. CASE Launch \/ \E c \in Clients : Accept(c) \/ PeerCloses(c)
    BY <2>2 DEF Launch, Accept, PeerCloses, loopVars
  <2> QED BY <1>7, <2>1, <2>2 DEF Environment
<1>8. CASE UNCHANGED vars
  BY <1>8 DEF vars, loopVars
<1> QED BY <1>6, <1>7, <1>8 DEF Next

(***************************************************************************)
(* If every private channel in the file has an archive whenever the server *)
(* is down, no request ends the process on a NULL channel, whatever kills  *)
(* and interrupted saves there are: a friend channel without a message is  *)
(* the whole cause of the crash (channels.c:152-159).                      *)
(***************************************************************************)
THEOREM NullOnlyUnarchived == Spec /\ []FileBacked => []NullChannelHandled
<1>1. Init => Tidy /\ NullChannelHandled
  BY DEF Init, Tidy, Entries, NullChannelHandled
<1>2. TypeOK /\ FileBacked /\ Tidy /\ NullChannelHandled /\ [Next]_vars => Tidy' /\ NullChannelHandled'
  BY TidyStep, TidyScans
<1> QED BY <1>1, <1>2, TypeCorrect, PTL DEF Spec
=============================================================================
