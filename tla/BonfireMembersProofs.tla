------------------------ MODULE BonfireMembersProofs ------------------------
(***************************************************************************)
(* The membership bitmaps of BonfireServer.  From a state in which they    *)
(* are exact there are four ways out of it and no others, and in such a    *)
(* state messages reach the room: for every value of the constants,        *)
(* whatever the environment does.                                          *)
(***************************************************************************)
EXTENDS BonfireServerProofs, JoinLoop, FiniteSetTheorems, WellFoundedInduction

\* Connections stay up, and new bitmaps happen to be clear.
Connected ==
    /\ Behaviours \cap {"close", "reset"} = {}
    /\ FreshBitmaps \subseteq {{}}

\* What the environment must not do for the bitmaps to stay exact.
Orderly ==
    /\ Behaviours \cap {"rejoin", "leave", "close", "reset"} = {}
    /\ FreshBitmaps \subseteq {{}}

\* Two channels of one name come from a repeated friend request only.
NoTwins == "refriend" \notin Behaviours

OnlyOpen == \A c \in Clients : peer[c] \in {"none", "open"}

\* Whoever is in a channel has logged in, and so sits below count.
InsideNamed == \A c \in Clients : active_channel[c] # 0 => named[c]

UniqueChannels ==
    \A k, l \in 1 .. num_channels : channel_name[k] = channel_name[l] => k = l

Orders == TypeOK /\ Stopped /\ TableInv
MembersInv == OnlyOpen /\ InsideNamed /\ MembersExact

-----------------------------------------------------------------------------
\* Nobody closes, so nobody is disconnected.
LEMMA OpenStep ==
    ASSUME Connected, Orders, OnlyOpen, [Next]_vars
    PROVE  /\ OnlyOpen'
           /\ \A c \in Clients : /\ ~Disconnect(c) /\ ~PeerCloses(c)
                                 /\ ~ReadFails(c) /\ ~WriteFails(c)
<1>1. \A c \in Clients : ~PeerCloses(c)
  BY DEF PeerCloses, Connected, May
<1>2. \A c \in Clients : ~Disconnect(c) /\ ~ReadFails(c) /\ ~WriteFails(c)
  BY DEF Disconnect, ReadFails, WriteFails, OnlyOpen
<1>3. CASE Ending
  <2>1. PICK why \in Faults : Ends(why)
    BY <1>3, EndingEnds
  <2> QED BY <2>1, <1>1, <1>2 DEF Ends, OnlyOpen
<1>4. CASE Launch \/ Select \/ ReadsEnd \/ WritesEnd \/ UNCHANGED vars
  <2>1. peer' = peer
    BY <1>4 DEF Launch, Select, ReadsEnd, WritesEnd, vars, sessionVars
  <2> QED BY <2>1, <1>1, <1>2 DEF OnlyOpen
<1>5. ASSUME NEW c \in Clients, Accept(c) PROVE OnlyOpen'
  BY <1>5 DEF Accept, OnlyOpen, Orders, TypeOK, SessionType
<1>6. ASSUME NEW c \in Clients, Answers(c) PROVE OnlyOpen'
  BY <1>6, AnswersQueue DEF Queues, sessionVars, OnlyOpen
<1>7. ASSUME NEW c \in Clients,
             \/ Leave(c) \/ Send(c) \/ Write(c)
             \/ \E u \in UserNames \cup {NoName} : LogIn(c, u) \/ Befriend(c, u)
             \/ \E n \in ChannelNames : StartChannel(c, n)
             \/ \E n \in TypedNames : Join(c, n)
      PROVE  OnlyOpen'
  <2>1. peer' = peer
    BY <1>7 DEF Leave, Send, Write, LogIn, Befriend, StartChannel, Join, sessionVars, OnlyOpen
  <2> QED BY <2>1 DEF OnlyOpen
<1>8. \/ Ending \/ Launch \/ Select \/ ReadsEnd \/ WritesEnd \/ UNCHANGED vars
      \/ \E c \in Clients :
            \/ Accept(c) \/ Answers(c) \/ Leave(c) \/ Send(c) \/ Write(c)
            \/ \E u \in UserNames \cup {NoName} : LogIn(c, u) \/ Befriend(c, u)
            \/ \E n \in ChannelNames : StartChannel(c, n)
            \/ \E n \in TypedNames : Join(c, n)
  BY <1>1, <1>2, StepKinds
<1>9. OnlyOpen'
  BY <1>3, <1>4, <1>5, <1>6, <1>7, <1>8
<1> QED BY <1>1, <1>2, <1>9

-----------------------------------------------------------------------------
\* Every step keeps to the channel those who have logged in.
LEMMA InsideStep ==
    ASSUME Orders, InsideNamed, [Next]_vars
    PROVE  InsideNamed'
<1>1. /\ named \in [Clients -> BOOLEAN] /\ active_channel \in [Clients -> 0 .. MaxChannels]
  BY DEF Orders, TypeOK, SessionType
<1>2. CASE Ending
  <2>1. PICK why \in Faults : Ends(why)
    BY <1>2, EndingEnds
  <2> QED BY <2>1 DEF Ends, InsideNamed
<1>3. CASE Launch \/ Select \/ ReadsEnd \/ WritesEnd \/ UNCHANGED vars
  BY <1>3 DEF Launch, Select, ReadsEnd, WritesEnd, vars, sessionVars, InsideNamed
<1>4. ASSUME NEW c \in Clients, Answers(c) PROVE InsideNamed'
  BY <1>4, AnswersQueue DEF Queues, sessionVars, InsideNamed
<1>5. ASSUME NEW c \in Clients,
             \/ Accept(c) \/ PeerCloses(c) \/ ReadFails(c) \/ Send(c) \/ Write(c) \/ WriteFails(c)
             \/ \E u \in UserNames \cup {NoName} : Befriend(c, u)
      PROVE  InsideNamed'
  BY <1>5 DEF Accept, PeerCloses, ReadFails, Send, Write, WriteFails, Befriend, sessionVars,
              InsideNamed
<1>6. ASSUME NEW c \in Clients, Disconnect(c) PROVE InsideNamed'
  BY <1>1, <1>6 DEF Disconnect, InsideNamed
<1>7. ASSUME NEW c \in Clients, Leave(c) PROVE InsideNamed'
  BY <1>1, <1>7 DEF Leave, InsideNamed
<1>8. ASSUME NEW c \in Clients, NEW u, LogIn(c, u) PROVE InsideNamed'
  BY <1>1, <1>8 DEF LogIn, InsideNamed
<1>9. ASSUME NEW c \in Clients,
             \/ \E n \in ChannelNames : StartChannel(c, n)
             \/ \E n \in TypedNames : Join(c, n)
      PROVE  InsideNamed'
  <2>1. named[c] /\ named' = named
    BY <1>9 DEF StartChannel, Join, Requests
  <2>2. \A d \in Clients : d # c => active_channel'[d] = active_channel[d]
    BY <1>1, <1>9 DEF StartChannel, Join, Joins
  <2> QED BY <2>1, <2>2 DEF InsideNamed
<1> QED BY <1>2, <1>3, <1>4, <1>5, <1>6, <1>7, <1>8, <1>9, StepKinds

\* The four ways in which bitmaps that are exact stop being so.
Cause == DirtyBitmap \/ \E c \in Clients : Lingers(c) \/ SlotsMove(c) \/ Rejoins(c)

\* A turn that moves nobody and makes no channel.
LEMMA SameMembers ==
    ASSUME MembersExact, UNCHANGED <<clients, count, active_channel, num_channels, active_members>>
    PROVE  MembersExact'
BY DEF MembersExact, SitsIn

\* A client beyond count is in no channel.
LEMMA OutsideTail ==
    ASSUME Orders, InsideNamed, NEW s \in Slots, s >= count, clients[s] # NULL
    PROVE  active_channel[clients[s]] = 0
<1>1. clients[s] \in Clients
  BY DEF Orders, TypeOK, TableType
<1>2. \A t \in Slots : t < count => clients[t] # clients[s]
  BY DEF Orders, TypeOK, TableType, TableInv, OneSlot, Slots
<1> QED BY <1>1, <1>2 DEF InsideNamed, Orders, TableInv, NamedCounted

\* A restart makes channels that nobody is in.
LEMMA LaunchMembers ==
    ASSUME Orders, Launch, ~DirtyBitmap
    PROVE  MembersExact'
<1>1. num_channels = 0 /\ count' = 0 /\ \A c \in Clients : active_channel'[c] = 0
  BY DEF Launch, Orders, Stopped, tableVars, sessionVars
<1>2. PICK n \in 0 .. MaxChannels : num_channels' = n
  BY DEF Launch, Reload
<1>3. \A s \in Slots : \A k : ~SitsIn(s, k)'
  BY <1>1, BoundsAssumption DEF SitsIn, Slots
<1>4. \A k \in 1 .. num_channels' : \A s \in active_members'[k] : SitsIn(s, k)'
  BY <1>1, <1>2 DEF DirtyBitmap
<1> QED BY <1>3, <1>4 DEF MembersExact

\* The new connection is not counted, or it is counted and in no channel.
LEMMA TableMembers ==
    ASSUME Orders, InsideNamed, MembersExact, WritesEnd \/ \E c \in Clients : Accept(c)
    PROVE  MembersExact'
<1> USE BoundsAssumption DEF Slots
<1>1. CASE WritesEnd
  <2>1. /\ UNCHANGED <<clients, active_channel, num_channels, active_members>>
        /\ count' = count + num_new /\ count \in Nat /\ num_new \in {0, 1}
    BY <1>1 DEF WritesEnd, sessionVars, channelVars, Orders, TypeOK, LoopType, TableType
  <2>2. ASSUME NEW k \in 1 .. num_channels, NEW s \in Slots
        PROVE  SitsIn(s, k)' <=> SitsIn(s, k)
    <3>1. CASE s < count
      BY <3>1, <2>1 DEF SitsIn
    <3>2. CASE s >= count
      BY <3>2, <2>1, OutsideTail DEF SitsIn
    <3> QED BY <3>1, <3>2, <2>1
  <2> QED BY <2>1, <2>2 DEF MembersExact
<1>2. ASSUME NEW c \in Clients, Accept(c)
      PROVE  MembersExact'
  <2>1. /\ UNCHANGED <<count, active_channel, num_channels, active_members>>
        /\ clients' = [clients EXCEPT ![count] = c]
    BY <1>2 DEF Accept, channelVars
  <2>2. \A s \in Slots : s < count => clients'[s] = clients[s]
    BY <2>1 DEF Orders, TypeOK, TableType
  <2> QED BY <2>1, <2>2 DEF MembersExact, SitsIn
<1> QED BY <1>1, <1>2

-----------------------------------------------------------------------------
\* Nobody but the client in slot i moves.
LEMMA MovesOne ==
    ASSUME Orders, MembersExact, NEW c \in Clients, Requests(c), NEW last \in ChannelIds,
           NEW members, DOMAIN members = ChannelIds,
           \A k \in 1 .. num_channels : members[k] = active_members[k],
           NEW hits, last \in hits, hits # {active_channel[c]},
           active_members' = JoinBits(members, hits, last, active_channel[c], i),
           active_channel' = [active_channel EXCEPT ![c] = last],
           UNCHANGED <<clients, count>>
    PROVE  /\ \A k \in 1 .. num_channels : \A s \in Slots :
                 s \in active_members'[k] <=> SitsIn(s, k)'
           /\ i \in active_members'[last]
           /\ \A k : \A s \in Slots : SitsIn(s, k)' /\ k > num_channels => s = i /\ k = last
<1> USE BoundsAssumption, NullAssumption
<1>1. /\ i \in Slots /\ i < count /\ clients[i] = c
      /\ active_channel \in [Clients -> 0 .. MaxChannels]
      /\ num_channels \in Nat /\ num_channels <= MaxChannels
      /\ \A d \in Clients : active_channel[d] <= num_channels
      /\ \A s \in Slots : clients[s] # NULL => clients[s] \in Clients
  BY ReadSlot DEF Requests, Reading, Orders, TypeOK, SessionType, ChannelType, TableType
<1>2. \A s \in Slots : s # i => clients[s] # c
  BY <1>1 DEF Orders, TableInv, OneSlot
<1>3. \A d \in Clients : active_channel'[d] = IF d = c THEN last ELSE active_channel[d]
  BY <1>1
<1>4. \A s \in Slots : \A k : SitsIn(s, k)' <=> IF s = i THEN k = last ELSE SitsIn(s, k)
  BY <1>1, <1>2, <1>3 DEF SitsIn
<1>5. ASSUME NEW k \in 1 .. num_channels, NEW s \in Slots
      PROVE  s \in active_members'[k] <=> SitsIn(s, k)'
  <2>1. k \in ChannelIds /\ \A t \in Slots : t \in members[k] <=> SitsIn(t, k)
    BY <1>1 DEF ChannelIds, MembersExact
  <2>2. i \in members[k] => k = active_channel[c]
    BY <2>1, <1>1 DEF SitsIn
  <2>3. /\ i \in active_members'[k] <=> k = last
        /\ s # i => (s \in active_members'[k] <=> s \in members[k])
    <3>1. active_members'[k] =
             IF k = last THEN members[k] \cup {i}
             ELSE IF k \in hits \cup {active_channel[c]} THEN members[k] \ {i} ELSE members[k]
      BY <2>1 DEF JoinBits
    <3>2. CASE k = last
      BY <3>1, <3>2
    <3>3. CASE k # last /\ k \in hits \cup {active_channel[c]}
      BY <3>1, <3>3
    <3>4. CASE k # last /\ k \notin hits \cup {active_channel[c]}
      BY <2>2, <3>1, <3>4
    <3> QED BY <3>2, <3>3, <3>4
  <2> QED BY <2>1, <2>3, <1>4
<1>6. i \in active_members'[last]
  BY DEF JoinBits
<1>7. \A k : \A s \in Slots : SitsIn(s, k) => ~(k > num_channels)
  BY <1>1 DEF SitsIn
<1> QED BY <1>4, <1>5, <1>6, <1>7

\* START: the client that asked is the one member of the new channel.
LEMMA StartMembers ==
    ASSUME Orders, MembersExact, NEW c \in Clients, NEW n, StartChannel(c, n), ~DirtyBitmap
    PROVE  MembersExact'
<1> USE BoundsAssumption
<1>1. /\ num_channels \in Nat /\ active_channel[c] <= num_channels /\ active_channel[c] \in Nat
      /\ active_members \in [ChannelIds -> SUBSET Slots]
  BY DEF Orders, TypeOK, SessionType, ChannelType
<1>0. PICK new \in Nat : new = num_channels + 1
  BY <1>1
<1>2. PICK bits \in FreshBitmaps :
         active_members' = JoinBits([active_members EXCEPT ![new] = bits], {new}, new,
                                    active_channel[c], i)
  BY <1>0 DEF StartChannel
<1>3. /\ Requests(c) /\ num_channels < MaxChannels /\ num_channels' = new
      /\ active_channel' = [active_channel EXCEPT ![c] = new]
      /\ UNCHANGED <<clients, count>>
  BY <1>0 DEF StartChannel, tableVars
<1> DEFINE members == [active_members EXCEPT ![new] = bits]
<1>4. /\ new \in ChannelIds /\ DOMAIN members = ChannelIds
      /\ \A k \in 1 .. num_channels : members[k] = active_members[k]
      /\ {new} # {active_channel[c]}
  <2>1. new # active_channel[c]
    BY <1>0, <1>1
  <2>2. new \in ChannelIds /\ DOMAIN members = ChannelIds
    BY <1>0, <1>1, <1>3 DEF ChannelIds
  <2>3. \A k \in 1 .. num_channels : members[k] = active_members[k]
    BY <1>0, <1>1
  <2> QED BY <2>1, <2>2, <2>3
<1> HIDE DEF members
<1>5. /\ \A k \in 1 .. num_channels : \A s \in Slots :
            s \in active_members'[k] <=> SitsIn(s, k)'
      /\ i \in active_members'[new]
      /\ \A k : \A s \in Slots : SitsIn(s, k)' /\ k > num_channels => s = i /\ k = new
  BY <1>2, <1>3, <1>4, MovesOne DEF members
<1>6. ASSUME NEW s \in Slots PROVE s \in active_members'[new] <=> SitsIn(s, new)'
  <2>1. new \in num_channels + 1 .. num_channels' /\ new > num_channels
    BY <1>0, <1>1, <1>3
  <2>2. s \in active_members'[new] => SitsIn(s, new)'
    BY <2>1 DEF DirtyBitmap
  <2> QED BY <1>5, <2>1, <2>2
<1>7. \A k \in 1 .. num_channels' : k \in 1 .. num_channels \/ k = new
  BY <1>0, <1>1, <1>3
<1> QED BY <1>5, <1>6, <1>7 DEF MembersExact

\* JOIN moves the client that asked.
LEMMA JoinMembers ==
    ASSUME Orders, MembersExact, NEW c \in Clients, NEW n \in TypedNames, Join(c, n), ~Rejoins(c)
    PROVE  MembersExact'
<1> USE BoundsAssumption
<1> DEFINE target == Resolve(user_name[c], n)
<1>1. /\ num_channels \in Nat /\ num_channels <= MaxChannels
      /\ active_members \in [ChannelIds -> SUBSET Slots]
  BY DEF Orders, TypeOK, ChannelType
<1>2. PICK last \in ChannelsNamed(target) : Joins(c, target, last)
  BY DEF Join
<1>3. last \in ChannelIds /\ ChannelsNamed(target) # {active_channel[c]}
  BY <1>1 DEF ChannelsNamed, ChannelIds, Rejoins
<1>4. /\ active_members' = JoinBits(active_members, ChannelsNamed(target), last,
                                    active_channel[c], i)
      /\ active_channel' = [active_channel EXCEPT ![c] = last]
      /\ Requests(c) /\ UNCHANGED <<clients, count, num_channels>>
      /\ DOMAIN active_members = ChannelIds
  BY <1>1, <1>2 DEF Joins, Join, tableVars
<1> HIDE DEF target
<1>5. \A k \in 1 .. num_channels : \A s \in Slots : s \in active_members'[k] <=> SitsIn(s, k)'
  BY <1>2, <1>3, <1>4, MovesOne
<1> QED BY <1>4, <1>5 DEF MembersExact

\* A friend request makes a channel that nobody is in.
LEMMA BefriendMembers ==
    ASSUME Orders, MembersExact, NEW c \in Clients, NEW u, Befriend(c, u), ~DirtyBitmap
    PROVE  MembersExact'
<1> USE BoundsAssumption
<1>1. PICK bits \in FreshBitmaps :
         active_members' = [active_members EXCEPT ![num_channels + 1] = bits]
  BY DEF Befriend
<1>2. /\ num_channels' = num_channels + 1 /\ UNCHANGED <<clients, count, active_channel>>
  BY DEF Befriend, tableVars, sessionVars
<1>3. /\ active_members \in [ChannelIds -> SUBSET Slots] /\ num_channels \in Nat
      /\ \A d \in Clients : active_channel[d] <= num_channels /\ active_channel[d] \in Nat
      /\ \A s \in Slots : clients[s] # NULL => clients[s] \in Clients
  BY DEF Orders, TypeOK, SessionType, ChannelType, TableType
<1>4. \A s \in Slots : \A k : SitsIn(s, k)' <=> SitsIn(s, k)
  BY <1>2 DEF SitsIn
<1>5. ASSUME NEW k \in 1 .. num_channels', NEW s \in Slots
      PROVE  s \in active_members'[k] <=> SitsIn(s, k)'
  <2>1. CASE k <= num_channels
    <3>1. active_members'[k] = active_members[k] /\ k \in 1 .. num_channels
      BY <2>1, <1>1, <1>3
    <3> QED BY <3>1, <1>4 DEF MembersExact
  <2>2. CASE k = num_channels + 1
    <3>1. s \in active_members'[k] => SitsIn(s, k)'
      BY <2>2, <1>2, <1>3 DEF DirtyBitmap
    <3>2. ~SitsIn(s, k)
      BY <2>2, <1>3 DEF SitsIn
    <3> QED BY <3>1, <3>2, <1>4
  <2> QED BY <2>1, <2>2, <1>2, <1>3
<1> QED BY <1>5 DEF MembersExact

\* A disconnection that moves nobody who is in a channel.
LEMMA DisconnectMembers ==
    ASSUME Orders, MembersExact, NEW c \in Clients, Disconnect(c), ~SlotsMove(c)
    PROVE  MembersExact'
<1> USE BoundsAssumption, NullAssumption
<1>1. /\ i \in Slots /\ i < count /\ clients[i] = c /\ count \in Nat
      /\ active_channel \in [Clients -> 0 .. MaxChannels]
      /\ clients \in [Slots -> Clients \cup {NULL}]
      /\ num_channels \in Nat /\ num_channels <= MaxChannels
  BY ReadSlot DEF Disconnect, Reading, Orders, TypeOK, SessionType, TableType, ChannelType
<1>2. /\ clients' = ShiftDown(clients, i, count) /\ count' = count - 1
      /\ active_channel' = [active_channel EXCEPT ![c] = 0]
      /\ UNCHANGED <<num_channels, active_members>>
  BY DEF Disconnect, channelVars
<1>3. \A s \in Slots : s # i => clients[s] # c
  BY <1>1 DEF Orders, TableInv, OneSlot
<1>4. \A s \in Slots : \A k \in ChannelIds : s >= i => ~SitsIn(s, k)
  BY DEF SlotsMove
<1>5. ASSUME NEW k \in 1 .. num_channels, NEW s \in Slots
      PROVE  s \in active_members[k] <=> SitsIn(s, k)'
  <2>0. k \in ChannelIds /\ k # 0 /\ (s \in active_members[k] <=> SitsIn(s, k))
    BY <1>1 DEF ChannelIds, MembersExact
  <2>1. CASE s < i
    <3>1. clients'[s] = clients[s] /\ clients[s] # c /\ s < count /\ s < count'
      BY <2>1, <1>1, <1>2, <1>3 DEF ShiftDown, Slots
    <3>2. clients[s] # NULL => active_channel'[clients[s]] = active_channel[clients[s]]
      BY <3>1, <1>1, <1>2
    <3> QED BY <2>0, <3>1, <3>2 DEF SitsIn
  <2>2. CASE s >= i
    <3>1. ~SitsIn(s, k)
      BY <1>4, <2>0, <2>2
    <3>2. ASSUME SitsIn(s, k)' PROVE FALSE
      <4>1. s < count - 1 /\ s + 1 \in Slots /\ s + 1 >= i /\ s + 1 < count
        BY <3>2, <1>1, <1>2, <2>2 DEF SitsIn, Slots, Orders, TypeOK, TableType
      <4>2. clients'[s] = clients[s + 1]
        BY <4>1, <1>2, <2>2 DEF ShiftDown
      <4>3. clients[s + 1] # NULL /\ active_channel'[clients[s + 1]] = k
        BY <3>2, <4>2 DEF SitsIn
      <4>4. clients[s + 1] \in Clients
        BY <4>1, <4>3, <1>1
      <4>5. active_channel[clients[s + 1]] = k
        BY <4>3, <4>4, <1>1, <1>2, <2>0
      <4>6. SitsIn(s + 1, k)
        BY <4>1, <4>3, <4>5 DEF SitsIn
      <4> QED BY <4>1, <4>6, <1>4, <2>0
    <3> QED BY <2>0, <3>1, <3>2
  <2>3. s < i \/ s >= i
    BY <1>1 DEF Slots
  <2> QED BY <2>1, <2>2, <2>3
<1> QED BY <1>2, <1>5 DEF MembersExact

\* Every step keeps the bitmaps exact, but for the four.
LEMMA DriftStep ==
    ASSUME Orders, InsideNamed, MembersExact, [Next]_vars, ~Cause
    PROVE  MembersExact'
<1>1. ~DirtyBitmap /\ \A c \in Clients : ~Lingers(c) /\ ~SlotsMove(c) /\ ~Rejoins(c)
  BY DEF Cause
<1>2. CASE Ending
  <2>1. PICK why \in Faults : Ends(why)
    BY <1>2, EndingEnds
  <2>2. num_channels' = 0
    BY <2>1 DEF Ends
  <2> QED BY <2>2 DEF MembersExact
<1>3. CASE Launch
  BY <1>1, <1>3, LaunchMembers
<1>4. CASE WritesEnd \/ \E c \in Clients : Accept(c)
  BY <1>4, TableMembers
<1>5. CASE Select \/ ReadsEnd \/ UNCHANGED vars
  BY <1>5, SameMembers DEF Select, ReadsEnd, vars, tableVars, sessionVars, channelVars
<1>6. ASSUME NEW c \in Clients, Answers(c) PROVE MembersExact'
  BY <1>6, AnswersQueue, SameMembers DEF Queues, tableVars, sessionVars, channelVars
<1>7. ASSUME NEW c \in Clients, \/ PeerCloses(c) \/ ReadFails(c) \/ Send(c) \/ Write(c) \/ WriteFails(c)
                                \/ \E u \in UserNames \cup {NoName} : LogIn(c, u)
      PROVE  MembersExact'
  BY <1>7, SameMembers DEF PeerCloses, ReadFails, Send, Write, WriteFails, LogIn, tableVars,
                           sessionVars, channelVars
<1>8. ASSUME NEW c \in Clients, Leave(c) PROVE MembersExact'
  <2>1. active_channel[c] = 0
    BY <1>1, <1>8 DEF Lingers
  <2>2. UNCHANGED <<clients, count, active_channel, num_channels, active_members>>
    BY <1>8, <2>1 DEF Leave, tableVars, channelVars, Orders, TypeOK, SessionType
  <2> QED BY <2>2, SameMembers
<1>9. ASSUME NEW c \in Clients,
             \/ \E u \in UserNames \cup {NoName} : Befriend(c, u)
             \/ \E n \in ChannelNames : StartChannel(c, n)
             \/ \E n \in TypedNames : Join(c, n)
      PROVE  MembersExact'
  BY <1>1, <1>9, StartMembers, JoinMembers, BefriendMembers
<1>10. ASSUME NEW c \in Clients, Disconnect(c) PROVE MembersExact'
  BY <1>1, <1>10, DisconnectMembers
<1> QED BY <1>2, <1>3, <1>4, <1>5, <1>6, <1>7, <1>8, <1>9, <1>10, StepKinds

\* Whoever is in a channel sits below count, in every reachable state.
LEMMA SeatedAlways == Spec => [](Orders /\ InsideNamed)
<1>1. Init => Orders /\ InsideNamed
  BY InitType, EmptyTableInv DEF Init, Orders, Stopped, InsideNamed
<1>2. Orders /\ InsideNamed /\ [Next]_vars => (Orders /\ InsideNamed)'
  BY TypeStep, StoppedStep, TableStep, InsideStep DEF Orders
<1> QED BY <1>1, <1>2, PTL DEF Spec

(***************************************************************************)
(* A slot's bit is set exactly in the channel of the client there, until   *)
(* somebody leaves a channel, joins again the one it is in, disconnects    *)
(* below or in a slot whose client is in a channel, or gets a new channel  *)
(* whose bitmap malloc left dirty.  Nothing else that users, peers or the  *)
(* operator do, and no order of it, makes bitmaps wrong that were right    *)
(* (entities.h:28, channels.c:27-53, server.c:302-332).                    *)
(***************************************************************************)
THEOREM MembersTracked == Spec => DriftHasACause
<1> DEFINE Step == MembersExact /\ ~MembersExact' => Cause
<1>1. Orders /\ InsideNamed /\ [Next]_vars => [Step]_vars
  BY DriftStep
<1>2. Spec => [][Step]_vars
  BY <1>1, SeatedAlways, PTL DEF Spec
<1> QED BY <1>2 DEF DriftHasACause, Cause

-----------------------------------------------------------------------------
(***************************************************************************)
(* When the environment gives none of the four causes.                     *)
(***************************************************************************)
LEMMA NoCause ==
    ASSUME Orderly, Orders, OnlyOpen, [Next]_vars
    PROVE  ~Cause
<1> USE BoundsAssumption
<1>1. ASSUME NEW c \in Clients PROVE ~Lingers(c) /\ ~SlotsMove(c) /\ ~Rejoins(c)
  <2>1. ~Leave(c) /\ ~Disconnect(c)
    BY DEF Leave, Orderly, May, Disconnect, OnlyOpen
  <2>2. ~Rejoins(c)
    <3> SUFFICES ASSUME NEW n \in TypedNames, Join(c, n),
                        ChannelsNamed(Resolve(user_name[c], n)) = {active_channel[c]}
                 PROVE  FALSE
      BY DEF Rejoins
    <3>1. May("rejoin")
      BY DEF Join
    <3> QED BY <3>1 DEF Orderly, May
  <2> QED BY <2>1, <2>2 DEF Lingers, SlotsMove
<1>2. /\ num_channels \in Nat /\ num_channels <= MaxChannels
      /\ active_members \in [ChannelIds -> SUBSET Slots]
      /\ active_channel \in [Clients -> 0 .. MaxChannels]
      /\ \A d \in Clients : active_channel[d] <= num_channels
  BY DEF Orders, TypeOK, SessionType, ChannelType
<1>3. ASSUME num_channels' = num_channels PROVE ~DirtyBitmap
  BY <1>2, <1>3 DEF DirtyBitmap
<1>4. CASE Ending
  <2>1. PICK why \in Faults : Ends(why)
    BY <1>4, EndingEnds
  <2>2. num_channels' = 0
    BY <2>1 DEF Ends
  <2> QED BY <1>1, <1>2, <2>2 DEF Cause, DirtyBitmap
<1>5. CASE Launch
  <2>1. PICK n \in 0 .. MaxChannels :
           \E files \in [1 .. n -> DOMAIN archive], bits \in [1 .. n -> FreshBitmaps] :
              Reload(n, files, bits)
    BY <1>5 DEF Launch
  <2>2. PICK files \in [1 .. n -> DOMAIN archive], bits \in [1 .. n -> FreshBitmaps] :
           Reload(n, files, bits)
    BY <2>1
  <2>3. num_channels' = n /\ \A k \in 1 .. n : active_members'[k] = {}
    BY <2>2 DEF Reload, ChannelIds, Orderly
  <2> QED BY <1>1, <1>2, <2>3 DEF Cause, DirtyBitmap
<1>6. CASE Select \/ ReadsEnd \/ WritesEnd \/ UNCHANGED vars
  <2>1. num_channels' = num_channels
    BY <1>6 DEF Select, ReadsEnd, WritesEnd, vars, channelVars
  <2> QED BY <1>1, <1>3, <2>1 DEF Cause
<1>7. ASSUME NEW c \in Clients, Answers(c) PROVE ~Cause
  BY <1>1, <1>3, <1>7, AnswersQueue DEF Queues, channelVars, Cause
<1>8. ASSUME NEW c \in Clients,
             \/ Accept(c) \/ PeerCloses(c) \/ ReadFails(c) \/ Disconnect(c) \/ Leave(c)
             \/ Send(c) \/ Write(c) \/ WriteFails(c)
             \/ \E u \in UserNames \cup {NoName} : LogIn(c, u)
             \/ \E n \in TypedNames : Join(c, n)
      PROVE  ~Cause
  <2>1. num_channels' = num_channels
    BY <1>8 DEF Accept, PeerCloses, ReadFails, Disconnect, Leave, Send, Write, WriteFails,
                LogIn, Join, channelVars
  <2> QED BY <1>1, <1>3, <2>1 DEF Cause
<1>9. ASSUME NEW c \in Clients, NEW n, StartChannel(c, n) PROVE ~Cause
  <2>0. PICK new \in Nat : new = num_channels + 1
    BY <1>2
  <2>1. PICK bits \in FreshBitmaps :
           active_members' = JoinBits([active_members EXCEPT ![new] = bits], {new}, new,
                                      active_channel[c], i)
    BY <1>9, <2>0 DEF StartChannel
  <2>2. /\ num_channels' = new /\ new \in ChannelIds /\ clients' = clients /\ count' = count
        /\ active_channel' = [active_channel EXCEPT ![c] = new]
        /\ i < count /\ clients[i] = c
    BY <1>2, <1>9, <2>0 DEF StartChannel, tableVars, Requests, Reading, ChannelIds
  <2>3. bits = {} /\ active_channel[c] # new
    BY <1>2, <2>0 DEF Orderly
  <2> PICK s \in Slots : s = i
    BY <1>2, <1>9, ReadSlot DEF StartChannel, Requests, Reading, Orders
  <2>4. active_members'[new] \subseteq {s}
    BY <1>2, <2>1, <2>2, <2>3 DEF JoinBits
  <2>5. SitsIn(s, new)'
    <3>1. active_channel'[c] = new /\ c # NULL
      BY <1>2, <2>2, NullAssumption
    <3> QED BY <2>2, <3>1 DEF SitsIn
  <2>6. \A k \in num_channels + 1 .. num_channels' : k = new
    BY <1>2, <2>0, <2>2
  <2> QED BY <1>1, <2>4, <2>5, <2>6 DEF Cause, DirtyBitmap
<1>10. ASSUME NEW c \in Clients, NEW u, Befriend(c, u) PROVE ~Cause
  <2>1. PICK bits \in FreshBitmaps :
           active_members' = [active_members EXCEPT ![num_channels + 1] = bits]
    BY <1>10 DEF Befriend
  <2>2. num_channels' = num_channels + 1 /\ num_channels + 1 \in ChannelIds
    BY <1>2, <1>10 DEF Befriend, CanBefriend, ChannelIds
  <2>3. \A k \in num_channels + 1 .. num_channels' : active_members'[k] = {}
    BY <1>2, <2>1, <2>2 DEF Orderly
  <2> QED BY <1>1, <2>3 DEF Cause, DirtyBitmap
<1> QED BY <1>4, <1>5, <1>6, <1>7, <1>8, <1>9, <1>10, StepKinds

\* Then every step keeps the bitmaps exact.
LEMMA MembersStep ==
    ASSUME Orderly, Orders, MembersInv, [Next]_vars
    PROVE  MembersInv'
<1>1. Connected
  BY DEF Orderly, Connected
<1>2. OnlyOpen' /\ InsideNamed'
  BY <1>1, OpenStep, InsideStep DEF MembersInv
<1>3. MembersExact'
  BY NoCause, DriftStep DEF MembersInv
<1> QED BY <1>2, <1>3 DEF MembersInv

-----------------------------------------------------------------------------
(***************************************************************************)
(* Messages.  The bitmap asked is that of the first channel of the name;   *)
(* it is the sender's channel when names are unique.                       *)
(***************************************************************************)

\* A new name is one that no channel has.
LEMMA FreshName ==
    ASSUME TypeOK, UniqueChannels, NEW n, ~Exists(n), num_channels < MaxChannels,
           num_channels' = num_channels + 1,
           channel_name' = [channel_name EXCEPT ![num_channels + 1] = n]
    PROVE  UniqueChannels'
<1> USE BoundsAssumption
<1>1. num_channels \in Nat /\ channel_name \in [ChannelIds -> Names]
  BY DEF TypeOK, ChannelType
<1>2. \A k \in 1 .. num_channels' : k # num_channels + 1 => k \in 1 .. num_channels
  BY <1>1
<1>3. /\ channel_name'[num_channels + 1] = n
      /\ \A k \in 1 .. num_channels : channel_name'[k] = channel_name[k]
  BY <1>1 DEF ChannelIds
<1>4. \A k \in 1 .. num_channels : channel_name[k] # n
  BY DEF Exists, ChannelsNamed
<1> QED BY <1>2, <1>3, <1>4 DEF UniqueChannels

\* Only START and FRIEND name a channel; a restart names one for each archive.
LEMMA UniqueStep ==
    ASSUME NoTwins, TypeOK, UniqueChannels, [Next]_vars
    PROVE  UniqueChannels'
<1> USE BoundsAssumption
<1>1. CASE Ending
  <2>1. PICK why \in Faults : Ends(why)
    BY <1>1, EndingEnds
  <2> QED BY <2>1 DEF Ends, UniqueChannels
<1>2. CASE Launch
  <2>1. PICK n \in 0 .. MaxChannels :
           \E files \in [1 .. n -> DOMAIN archive], bits \in [1 .. n -> FreshBitmaps] :
              Reload(n, files, bits)
    BY <1>2 DEF Launch
  <2>2. PICK files \in [1 .. n -> DOMAIN archive], bits \in [1 .. n -> FreshBitmaps] :
           Reload(n, files, bits)
    BY <2>1
  <2>3. num_channels' = n /\ \A k \in 1 .. n : channel_name'[k] = files[k]
    BY <2>2 DEF Reload, ChannelIds
  <2>4. \A k, l \in 1 .. n : files[k] = files[l] => k = l
    BY <2>2 DEF Reload, Lists
  <2> QED BY <2>3, <2>4 DEF UniqueChannels
<1>3. CASE Select \/ ReadsEnd \/ WritesEnd \/ UNCHANGED vars
  BY <1>3 DEF Select, ReadsEnd, WritesEnd, vars, channelVars, UniqueChannels
<1>4. ASSUME NEW c \in Clients, NEW n, StartChannel(c, n) PROVE UniqueChannels'
  <2>1. /\ ~Exists(n) /\ num_channels < MaxChannels /\ num_channels' = num_channels + 1
        /\ channel_name' = [channel_name EXCEPT ![num_channels + 1] = n]
    BY <1>4 DEF StartChannel
  <2> QED BY <2>1, FreshName
<1>5. ASSUME NEW c \in Clients, NEW u, Befriend(c, u) PROVE UniqueChannels'
  <2>1. /\ ~Exists(user_name[c] \o u) /\ num_channels < MaxChannels
        /\ num_channels' = num_channels + 1
        /\ channel_name' = [channel_name EXCEPT ![num_channels + 1] = user_name[c] \o u]
    BY <1>5 DEF Befriend, CanBefriend, May, NoTwins
  <2> QED BY <2>1, FreshName
<1>6. ASSUME NEW c \in Clients, Answers(c) PROVE UniqueChannels'
  BY <1>6, AnswersQueue DEF Queues, channelVars, UniqueChannels
<1>7. ASSUME NEW c \in Clients,
             \/ Accept(c) \/ PeerCloses(c) \/ ReadFails(c) \/ Disconnect(c) \/ Leave(c)
             \/ Send(c) \/ Write(c) \/ WriteFails(c)
             \/ \E u \in UserNames \cup {NoName} : LogIn(c, u)
             \/ \E n \in TypedNames : Join(c, n)
      PROVE  UniqueChannels'
  BY <1>7 DEF Accept, PeerCloses, ReadFails, Disconnect, Leave, Send, Write, WriteFails,
              LogIn, Join, channelVars, UniqueChannels
<1> QED BY <1>1, <1>2, <1>3, <1>4, <1>5, <1>6, <1>7, StepKinds

\* The first hit of a scan is a hit.
LEMMA FirstIsOne ==
    ASSUME NEW S, S \subseteq Nat, S # {}
    PROVE  FirstOf(S) \in S
<1> DEFINE R == OpToRel(<, Nat)
<1>1. IsWellFoundedOn(R, Nat)
  BY NatLessThanWellFounded
<1>2. \A x, y \in Nat : <<y, x>> \notin R => x <= y
  BY DEF OpToRel
<1> HIDE DEF R
<1>3. PICK x \in S : \A y \in S : <<y, x>> \notin R
  BY <1>1, WFMin
<1>4. \A y \in S : x <= y
  BY <1>2, <1>3
<1> QED BY <1>4 DEF FirstOf

RoomHears ==
    sent' # sent /\ MembersExact =>
        \A c \in Clients :
            IF HearsFirst(c, ActiveName(clients[i])) /\ HasRoom(out_buf[c])
            THEN Gains(c, [action |-> "SEND", id |-> sent'])
            ELSE out_buf'[c] = out_buf[c]

\* The receivers are those in the first channel of the name.
LEMMA SendReaches ==
    ASSUME Orders, NEW a \in Clients, Send(a)
    PROVE  RoomHears
<1> USE BoundsAssumption
<1> SUFFICES ASSUME MembersExact PROVE RoomHears
  BY DEF RoomHears
<1> DEFINE n == ActiveName(a)
           k == FirstOf(ChannelsNamed(n))
<1>1. /\ clients[i] = a /\ active_channel[a] \in 1 .. num_channels /\ num_channels \in Nat
      /\ num_channels <= MaxChannels
      /\ out_buf' = Broadcast(out_buf, Receivers(active_members[k], {}),
                              [action |-> "SEND", id |-> sent'])
  BY DEF Send, Requests, Reading, Orders, TypeOK, SessionType, ChannelType
<1>2. k \in 1 .. num_channels
  <2>1. ChannelsNamed(n) \subseteq 1 .. num_channels /\ active_channel[a] \in ChannelsNamed(n)
    BY <1>1 DEF ChannelsNamed, ActiveName
  <2>2. ChannelsNamed(n) \subseteq Nat
    BY <2>1
  <2> QED BY <2>1, <2>2, FirstIsOne
<1> HIDE DEF n, k
<1>3. ASSUME NEW c \in Clients
      PROVE  c \in Receivers(active_members[k], {}) <=> HearsFirst(c, n)
  <2>1. active_members[k] \subseteq Slots
    BY <1>1, <1>2 DEF Orders, TypeOK, ChannelType, ChannelIds
  <2>2. c \in Receivers(active_members[k], {}) <=>
           \E s \in Slots : s < count /\ s \in active_members[k] /\ clients[s] = c
    BY <2>1 DEF Receivers
  <2>3. \A s \in Slots : s < count /\ clients[s] = c =>
           (s \in active_members[k] <=> active_channel[c] = k)
    BY <1>2, NullAssumption DEF MembersExact, SitsIn
  <2> QED BY <2>2, <2>3 DEF HearsFirst, Tabled, k
<1>4. \A c \in Clients :
         out_buf'[c] = IF HearsFirst(c, n) /\ HasRoom(out_buf[c])
                       THEN Append(out_buf[c], [action |-> "SEND", id |-> sent'])
                       ELSE out_buf[c]
  BY <1>1, <1>3 DEF Broadcast
<1> QED BY <1>1, <1>4 DEF RoomHears, Gains, n

(***************************************************************************)
(* Whenever the bitmaps are right, whatever happened before, a message     *)
(* goes to everybody in the first channel of the sender's channel name     *)
(* whose buffer has room, once, and to nobody else (README:72,             *)
(* server.c:192-227).                                                      *)
(***************************************************************************)
THEOREM RoomsHear == Spec => BroadcastReachesRoom
<1>1. Orders /\ [Next]_vars => RoomHears
  BY SendReaches, OnlySendArchives DEF RoomHears
<1>2. Orders /\ [Next]_vars => [RoomHears]_vars
  BY <1>1
<1>3. Spec => [][RoomHears]_vars
  BY <1>2, SeatedAlways, PTL DEF Spec
<1> QED BY <1>3 DEF RoomHears, BroadcastReachesRoom

-----------------------------------------------------------------------------
(***************************************************************************)
(* The loop of handle_join_channel as it is written.  What it computes is  *)
(* a matter of induction over its turns, which the pigeonhole principle    *)
(* for finite intervals stands in for.                                     *)
(***************************************************************************)
(***************************************************************************)
(* A set that holds 0 and the successor of each of its numbers holds them  *)
(* all: otherwise the numbers up to a missing one could be moved up by one *)
(* where they are in the set, into one place less.                         *)
(***************************************************************************)
LEMMA SetInduction ==
    ASSUME NEW T, 0 \in T, \A n \in Nat : n \in T => n + 1 \in T
    PROVE  Nat \subseteq T
<1> SUFFICES ASSUME NEW k \in Nat, k \notin T PROVE FALSE
  OBVIOUS
<1> DEFINE A == 0 .. k
           B == 1 .. k
           g == [x \in A |-> IF x \in T THEN x + 1 ELSE x]
<1>1. ASSUME NEW x \in A PROVE g[x] \in B
  <2>1. CASE x \in T
    <3>1. x # k /\ x + 1 \in B
      BY <2>1
    <3> QED BY <2>1, <3>1
  <2>2. CASE x \notin T
    <3>1. x # 0
      BY <2>2
    <3> QED BY <2>2, <3>1
  <2> QED BY <2>1, <2>2
<1>2. \A x, y \in A : x # y => g[x] # g[y]
  <2> SUFFICES ASSUME NEW x \in A, NEW y \in A, g[x] = g[y] PROVE x = y
    OBVIOUS
  <2> QED OBVIOUS
<1>3. g \in [A -> B]
  BY <1>1
<1>4. IsFiniteSet(A) /\ IsFiniteSet(B) /\ Cardinality(A) = k + 1 /\ Cardinality(B) = k
  BY FS_Interval
<1> HIDE DEF g, A, B
<1>5. \E x, y \in A : x # y /\ g[x] = g[y]
  BY <1>3, <1>4, FS_PigeonHole
<1> QED BY <1>2, <1>5

\* The turns of the loop, one after the other, exist up to any channel.
Turns(g, m, n, s, old) ==
    g = [k \in 0 .. m |-> IF k = 0 THEN [members |-> active_members, active |-> old]
                                   ELSE Turn(g[k - 1], k, n, s)]

LEMMA TurnsExist ==
    ASSUME NEW m \in Nat, NEW n, NEW s, NEW old
    PROVE  \E g : Turns(g, m, n, s, old)
<1> DEFINE T == {x \in Nat : \E g : Turns(g, x, n, s, old)}
           start == [members |-> active_members, active |-> old]
<1>1. 0 \in T
  <2> DEFINE g == [k \in 0 .. 0 |-> start]
  <2>1. g = [k \in 0 .. 0 |-> IF k = 0 THEN start ELSE Turn(g[k - 1], k, n, s)]
    OBVIOUS
  <2> HIDE DEF g
  <2> QED BY <2>1 DEF Turns
<1>2. ASSUME NEW x \in Nat, x \in T PROVE x + 1 \in T
  <2>1. PICK g : g = [k \in 0 .. x |-> IF k = 0 THEN start ELSE Turn(g[k - 1], k, n, s)]
    BY <1>2 DEF Turns
  <2> DEFINE h == [k \in 0 .. x + 1 |-> IF k = x + 1 THEN Turn(g[x], x + 1, n, s) ELSE g[k]]
             t(k) == IF k = 0 THEN start ELSE Turn(h[k - 1], k, n, s)
  <2>2. ASSUME NEW k \in 0 .. x + 1 PROVE h[k] = t(k)
    <3>1. CASE k = x + 1
      <4>1. k # 0 /\ k - 1 = x /\ x \in 0 .. x + 1 /\ x # x + 1
        BY <3>1
      <4>2. h[k - 1] = g[x] /\ h[k] = Turn(g[x], k, n, s)
        BY <3>1, <4>1
      <4> HIDE DEF h
      <4> QED BY <4>1, <4>2
    <3>2. CASE k # x + 1
      <4>1. k \in 0 .. x /\ h[k] = g[k]
        BY <3>2
      <4>2. k # 0 => k - 1 \in 0 .. x /\ h[k - 1] = g[k - 1]
        BY <3>2
      <4>3. g[k] = IF k = 0 THEN start ELSE Turn(g[k - 1], k, n, s)
        BY <2>1, <4>1
      <4> HIDE DEF h
      <4> QED BY <4>1, <4>2, <4>3
    <3> QED BY <3>1, <3>2
  <2>3. h = [k \in 0 .. x + 1 |-> t(k)]
    <3>1. h = [k \in 0 .. x + 1 |-> h[k]]
      OBVIOUS
    <3> HIDE DEF h, t
    <3> QED BY <2>2, <3>1
  <2> HIDE DEF h
  <2> QED BY <2>3 DEF Turns
<1> HIDE DEF T
<1>3. Nat \subseteq T
  BY <1>1, <1>2, SetInduction
<1> QED BY <1>3 DEF T

LEMMA LoopTurns ==
    ASSUME NEW n, NEW s, NEW old, num_channels \in Nat
    PROVE  \E g : Turns(g, num_channels, n, s, old) /\ handle_join_channel(old, n, s) = g[num_channels]
<1> DEFINE after == CHOOSE g : Turns(g, num_channels, n, s, old)
<1>1. Turns(after, num_channels, n, s, old)
  BY TurnsExist
<1>2. handle_join_channel(old, n, s) = after[num_channels]
  BY DEF handle_join_channel, Turns
<1> HIDE DEF after
<1> QED BY <1>1, <1>2

\* After the turn of channel k the bitmaps are as JoinBits has them for the
\* channels of that name up to k.
Visited(n, k) == {j \in 1 .. k : channel_name[j] = n}
TurnedRight(st, k, n, s, old) ==
    \/ Visited(n, k) = {} /\ st = [members |-> active_members, active |-> old]
    \/ \E last \in Visited(n, k) :
          /\ IsLast(last, Visited(n, k))
          /\ st = [members |-> JoinBits(active_members, Visited(n, k), last, old, s),
                   active |-> last]

LEMMA FirstTurn ==
    ASSUME TypeOK, NEW n, NEW s, NEW old \in 0 .. num_channels, NEW k \in 1 .. num_channels,
           NEW st, st = [members |-> active_members, active |-> old],
           Visited(n, k) = {k}, channel_name[k] = n
    PROVE  TurnedRight(Turn(st, k, n, s), k, n, s, old)
<1> DEFINE set == [active_members EXCEPT ![k] = @ \cup {s}]
           bits == IF old = 0 THEN set ELSE [set EXCEPT ![old] = @ \ {s}]
<1>1. /\ DOMAIN active_members = ChannelIds /\ active_members \in [ChannelIds -> SUBSET Slots]
      /\ k \in ChannelIds /\ (old # 0 => old \in ChannelIds) /\ 0 \notin ChannelIds
  BY BoundsAssumption DEF TypeOK, ChannelType, ChannelIds
<1>2. Turn(st, k, n, s) = [members |-> bits, active |-> k]
  BY DEF Turn
<1>3. bits = JoinBits(active_members, {k}, k, old, s)
  <2>1. DOMAIN bits = ChannelIds
    BY <1>1
  <2>2. ASSUME NEW j \in ChannelIds
        PROVE  bits[j] = IF j = k /\ {k} # {old} THEN active_members[j] \cup {s}
                         ELSE IF j \in {k} \cup {old} THEN active_members[j] \ {s}
                         ELSE active_members[j]
    BY <1>1
  <2>3. bits = [j \in ChannelIds |-> bits[j]]
    BY <2>1, <1>1
  <2> HIDE DEF bits
  <2> QED BY <1>1, <2>2, <2>3 DEF JoinBits
<1> HIDE DEF bits
<1> QED BY <1>2, <1>3 DEF TurnedRight, IsLast

LEMMA NextTurn ==
    ASSUME TypeOK, NEW n, NEW s, NEW old \in 0 .. num_channels, NEW k \in 1 .. num_channels,
           NEW H, NEW last \in H, H \subseteq 1 .. k - 1,
           NEW st, st = [members |-> JoinBits(active_members, H, last, old, s), active |-> last],
           Visited(n, k) = H \cup {k}, channel_name[k] = n
    PROVE  TurnedRight(Turn(st, k, n, s), k, n, s, old)
<1> DEFINE m == JoinBits(active_members, H, last, old, s)
           set == [m EXCEPT ![k] = @ \cup {s}]
           bits == [set EXCEPT ![last] = @ \ {s}]
           V == H \cup {k}
<1>1. /\ DOMAIN active_members = ChannelIds /\ active_members \in [ChannelIds -> SUBSET Slots]
      /\ k \in ChannelIds /\ last \in ChannelIds /\ last # 0 /\ last # k /\ k \notin H
  BY BoundsAssumption DEF TypeOK, ChannelType, ChannelIds
<1>2. Turn(st, k, n, s) = [members |-> bits, active |-> k]
  BY <1>1 DEF Turn
<1>3. /\ DOMAIN m = ChannelIds
      /\ \A j \in ChannelIds :
            m[j] = IF j = last /\ H # {old} THEN active_members[j] \cup {s}
                   ELSE IF j \in H \cup {old} THEN active_members[j] \ {s}
                   ELSE active_members[j]
  BY <1>1 DEF JoinBits
<1> HIDE DEF m
<1>4. bits = JoinBits(active_members, V, k, old, s)
  <2>1. DOMAIN bits = ChannelIds
    BY <1>3
  <2>2. V # {old}
    BY <1>1
  <2>3. ASSUME NEW j \in ChannelIds
        PROVE  bits[j] = IF j = k /\ V # {old} THEN active_members[j] \cup {s}
                         ELSE IF j \in V \cup {old} THEN active_members[j] \ {s}
                         ELSE active_members[j]
    <3>1. CASE j = k
      <4>1. bits[j] = m[j] \cup {s}
        BY <1>1, <1>3, <3>1
      <4>2. m[j] \in {active_members[j], active_members[j] \ {s}}
        BY <1>1, <1>3, <3>1
      <4> QED BY <2>2, <3>1, <4>1, <4>2
    <3>2. CASE j = last
      <4>1. bits[j] = m[j] \ {s}
        BY <1>1, <1>3, <3>2
      <4>2. m[j] \in {active_members[j] \cup {s}, active_members[j] \ {s}}
        BY <1>1, <1>3, <3>2
      <4> QED BY <1>1, <3>2, <4>1, <4>2
    <3>3. CASE j # k /\ j # last
      <4>1. bits[j] = m[j]
        BY <1>1, <1>3, <3>3
      <4> QED BY <1>3, <3>3, <4>1
    <3> QED BY <3>1, <3>2, <3>3
  <2>4. bits = [j \in ChannelIds |-> bits[j]]
    BY <2>1, <1>3
  <2> HIDE DEF bits, V
  <2> QED BY <1>1, <2>3, <2>4 DEF JoinBits
<1>5. IsLast(k, V)
  BY DEF IsLast
<1> HIDE DEF bits
<1>6. Visited(n, k) = V /\ k \in V
  OBVIOUS
<1> HIDE DEF V
<1> QED BY <1>2, <1>4, <1>5, <1>6 DEF TurnedRight

LEMMA TurnRight ==
    ASSUME TypeOK, NEW n, NEW s, NEW old \in 0 .. num_channels, NEW k \in 1 .. num_channels,
           NEW st, TurnedRight(st, k - 1, n, s, old)
    PROVE  TurnedRight(Turn(st, k, n, s), k, n, s, old)
<1>1. num_channels \in Nat
  BY BoundsAssumption DEF TypeOK, ChannelType
<1>2. /\ channel_name[k] # n => Visited(n, k) = Visited(n, k - 1)
      /\ channel_name[k] = n => Visited(n, k) = Visited(n, k - 1) \cup {k}
      /\ Visited(n, k - 1) \subseteq 1 .. k - 1
  BY <1>1 DEF Visited
<1>3. CASE channel_name[k] # n
  <2>1. Turn(st, k, n, s) = st
    BY <1>3 DEF Turn
  <2> QED BY <1>2, <1>3, <2>1 DEF TurnedRight
<1>4. CASE channel_name[k] = n
  <2>1. CASE Visited(n, k - 1) = {} /\ st = [members |-> active_members, active |-> old]
    BY <1>2, <1>4, <2>1, FirstTurn
  <2>2. ASSUME NEW last \in Visited(n, k - 1),
               st = [members |-> JoinBits(active_members, Visited(n, k - 1), last, old, s),
                     active |-> last]
        PROVE  TurnedRight(Turn(st, k, n, s), k, n, s, old)
    BY <1>2, <1>4, <2>2, NextTurn
  <2> QED BY <2>1, <2>2 DEF TurnedRight
<1> QED BY <1>3, <1>4

LEMMA AllTurnsRight ==
    ASSUME TypeOK, NEW n, NEW s, NEW old \in 0 .. num_channels, NEW g,
           Turns(g, num_channels, n, s, old)
    PROVE  TurnedRight(g[num_channels], num_channels, n, s, old)
<1> DEFINE T == {x \in Nat : x <= num_channels => TurnedRight(g[x], x, n, s, old)}
<1>1. num_channels \in Nat
  BY BoundsAssumption DEF TypeOK, ChannelType
<1>2. 0 \in T
  <2>1. g[0] = [members |-> active_members, active |-> old]
    BY <1>1 DEF Turns
  <2>2. Visited(n, 0) = {}
    BY DEF Visited
  <2> QED BY <2>1, <2>2 DEF TurnedRight
<1>3. ASSUME NEW x \in Nat, x \in T PROVE x + 1 \in T
  <2> SUFFICES ASSUME x + 1 <= num_channels PROVE TurnedRight(g[x + 1], x + 1, n, s, old)
    OBVIOUS
  <2>1. x + 1 \in 1 .. num_channels /\ x + 1 - 1 = x /\ TurnedRight(g[x], x, n, s, old)
    BY <1>1, <1>3
  <2>2. g[x + 1] = Turn(g[x], x + 1, n, s)
    <3> DEFINE k == x + 1
    <3>1. k \in 0 .. num_channels /\ k # 0 /\ k - 1 = x
      BY <2>1
    <3> HIDE DEF k
    <3>2. g[k] = IF k = 0 THEN [members |-> active_members, active |-> old]
                          ELSE Turn(g[k - 1], k, n, s)
      BY <3>1 DEF Turns
    <3>3. g[k] = Turn(g[x], k, n, s)
      BY <3>1, <3>2
    <3> QED BY <3>3 DEF k
  <2>3. TurnedRight(g[x], x + 1 - 1, n, s, old)
    BY <2>1
  <2>4. TurnedRight(Turn(g[x], x + 1, n, s), x + 1, n, s, old)
    BY <2>1, <2>3, TurnRight
  <2> QED BY <2>2, <2>4
<1> HIDE DEF T
<1>4. Nat \subseteq T
  BY <1>2, <1>3, SetInduction
<1> QED BY <1>1, <1>4 DEF T

(***************************************************************************)
(* The loop of handle_join_channel, run over any number of channels, twins *)
(* of one name among them, leaves in the bitmaps what JoinBits says in one *)
(* formula (channels.c:37-53): what is proved of Join is true of the loop. *)
(***************************************************************************)
THEOREM JoinLoopClosed == Spec => []LoopIsJoinBits
<1>1. TypeOK => LoopIsJoinBits
  <2> SUFFICES ASSUME TypeOK, NEW n \in {channel_name[k] : k \in 1 .. num_channels},
                      NEW s \in Slots, NEW old \in 0 .. num_channels
               PROVE  \E last \in ChannelsNamed(n) :
                         /\ IsLast(last, ChannelsNamed(n))
                         /\ handle_join_channel(old, n, s) =
                               [members |-> JoinBits(active_members, ChannelsNamed(n), last, old, s),
                                active |-> last]
    BY DEF LoopIsJoinBits
  <2>1. num_channels \in Nat
    BY BoundsAssumption DEF TypeOK, ChannelType
  <2>2. PICK g : /\ Turns(g, num_channels, n, s, old)
                 /\ handle_join_channel(old, n, s) = g[num_channels]
    BY <2>1, LoopTurns
  <2>3. TurnedRight(g[num_channels], num_channels, n, s, old)
    BY <2>2, AllTurnsRight
  <2>4. Visited(n, num_channels) = ChannelsNamed(n) /\ ChannelsNamed(n) # {}
    BY DEF Visited, ChannelsNamed
  <2> QED BY <2>2, <2>3, <2>4 DEF TurnedRight
<1> QED BY <1>1, TypeCorrect, PTL
=============================================================================
