-------------------------- MODULE BonfireRoomsProofs --------------------------
(***************************************************************************)
(* BonfireServer implements ChatRoom as long as connections stay up, new   *)
(* bitmaps are clear and no friend request is repeated: with any number of *)
(* clients, channels and messages, through leaves, rejoins, refusals,      *)
(* relogins, friend requests, stalls, kills and restarts.                  *)
(***************************************************************************)
EXTENDS BonfireMembersProofs, BonfireRooms

\* The bits that are set belong to clients that are counted.
BitsCounted ==
    \A k \in 1 .. num_channels : \A s \in active_members[k] : s < count

\* Whoever has logged in has a name that was typed.
NamedUsers == \A c \in Clients : named[c] => user_name[c] \in UserNames

NoRoomsDown == pc = "down" => num_channels = 0

Calm == /\ OnlyOpen /\ InsideNamed /\ UniqueChannels
        /\ BitsCounted /\ NamedUsers /\ NoRoomsDown

-----------------------------------------------------------------------------
\* The bits that a client in slot s leaves and sets are bits of slots below n.
LEMMA JoinBitsCounted ==
    ASSUME NEW members, NEW hits, NEW last, NEW old, NEW s, NEW n,
           s < n, NEW k \in DOMAIN members, \A t \in members[k] : t < n
    PROVE  \A t \in JoinBits(members, hits, last, old, s)[k] : t < n
<1>1. JoinBits(members, hits, last, old, s)[k] \subseteq members[k] \cup {s}
  BY DEF JoinBits
<1> QED BY <1>1

\* A step that makes no channel and sets no bit.
LEMMA SameChannelsCalm ==
    ASSUME InsideNamed, BitsCounted, NoRoomsDown, NamedUsers,
           UNCHANGED <<num_channels, active_members, user_name, active_channel, named>>,
           count \in Nat, count' \in Nat, count' >= count, TypeOK,
           pc' = "down" => pc = "down"
    PROVE  InsideNamed' /\ BitsCounted' /\ NoRoomsDown' /\ NamedUsers'
<1>1. \A k \in 1 .. num_channels : active_members[k] \subseteq Slots
  BY BoundsAssumption DEF TypeOK, ChannelType, ChannelIds
<1>2. BitsCounted'
  BY <1>1 DEF BitsCounted, Slots
<1> QED BY <1>2 DEF InsideNamed, NoRoomsDown, NamedUsers

LEMMA LaunchCalm ==
    ASSUME Connected, Orders, Launch
    PROVE  InsideNamed' /\ BitsCounted' /\ NoRoomsDown' /\ NamedUsers'
<1>1. PICK n \in 0 .. MaxChannels :
         \E files \in [1 .. n -> DOMAIN archive], bits \in [1 .. n -> FreshBitmaps] :
            Reload(n, files, bits)
  BY DEF Launch
<1>2. PICK files \in [1 .. n -> DOMAIN archive], bits \in [1 .. n -> FreshBitmaps] :
         Reload(n, files, bits)
  BY <1>1
<1>3. num_channels' = n /\ \A k \in 1 .. n : active_members'[k] = {}
  BY <1>2, BoundsAssumption DEF Reload, ChannelIds, Connected
<1>4. pc' # "down" /\ \A c \in Clients : active_channel'[c] = 0 /\ ~named'[c]
  BY DEF Launch, Orders, Stopped, sessionVars
<1> QED BY <1>3, <1>4 DEF InsideNamed, BitsCounted, NoRoomsDown, NamedUsers

\* A connection that was not there has no name yet.
LEMMA AcceptCalm ==
    ASSUME Orders, Calm, NEW c \in Clients, Accept(c)
    PROVE  /\ InsideNamed' /\ BitsCounted' /\ NoRoomsDown' /\ NamedUsers'
           /\ ~named[c]
<1>1. ~named[c]
  <2>1. ASSUME named[c] PROVE FALSE
    <3>1. PICK s \in Slots : s < count /\ clients[s] = c
      BY <2>1 DEF Orders, TableInv, NamedCounted
    <3>2. peer[c] # "none"
      BY <3>1, NullAssumption DEF Orders, TableInv, NoDangling
    <3> QED BY <3>2 DEF Accept
  <2> QED BY <2>1
<1>2. /\ UNCHANGED <<count, named, active_channel, num_channels, active_members>>
      /\ pc' = "read" /\ \A d \in Clients : d # c => user_name'[d] = user_name[d]
  BY DEF Accept, channelVars, Orders, TypeOK, SessionType
<1> QED BY <1>1, <1>2 DEF Calm, InsideNamed, BitsCounted, NoRoomsDown, NamedUsers

LEMMA LogInCalm ==
    ASSUME Orders, Calm, NEW c \in Clients, NEW u \in UserNames \cup {NoName}, LogIn(c, u)
    PROVE  InsideNamed' /\ BitsCounted' /\ NoRoomsDown' /\ NamedUsers'
<1>1. /\ UNCHANGED <<pc, count, active_channel, num_channels, active_members>>
      /\ user_name' = [user_name EXCEPT ![c] = u] /\ u \in UserNames
      /\ named' = [named EXCEPT ![c] = TRUE]
  BY DEF LogIn, NextSlot, loopVars, tableVars, channelVars
<1>2. \A d \in Clients : /\ user_name'[d] = IF d = c THEN u ELSE user_name[d]
                         /\ named'[d] <=> d = c \/ named[d]
  BY <1>1 DEF Orders, TypeOK, SessionType
<1> QED BY <1>1, <1>2 DEF Calm, InsideNamed, BitsCounted, NoRoomsDown, NamedUsers

LEMMA MovingCalm ==
    ASSUME Connected, Orders, Calm, NEW c \in Clients,
           \/ \E n \in ChannelNames : StartChannel(c, n)
           \/ \E n \in TypedNames : Join(c, n)
    PROVE  InsideNamed' /\ BitsCounted' /\ NoRoomsDown' /\ NamedUsers'
<1> USE BoundsAssumption
<1>1. /\ num_channels \in Nat /\ num_channels <= MaxChannels
      /\ active_members \in [ChannelIds -> SUBSET Slots]
      /\ active_channel \in [Clients -> 0 .. MaxChannels]
      /\ \A k \in 1 .. num_channels : k \in ChannelIds
  BY DEF Orders, TypeOK, SessionType, ChannelType, ChannelIds
<1>2. ASSUME NEW n \in ChannelNames, StartChannel(c, n)
      PROVE  InsideNamed' /\ BitsCounted' /\ NoRoomsDown' /\ NamedUsers'
  <2>1. PICK bits \in FreshBitmaps :
           active_members' = JoinBits([active_members EXCEPT ![num_channels + 1] = bits],
                                      {num_channels + 1}, num_channels + 1,
                                      active_channel[c], i)
    BY <1>2 DEF StartChannel
  <2> DEFINE members == [active_members EXCEPT ![num_channels + 1] = {}]
  <2>2. active_members' = JoinBits(members, {num_channels + 1}, num_channels + 1,
                                   active_channel[c], i)
    BY <2>1 DEF Connected
  <2>3. /\ named[c] /\ i < count /\ pc' = pc /\ pc = "read"
        /\ num_channels < MaxChannels /\ num_channels' = num_channels + 1
        /\ active_channel' = [active_channel EXCEPT ![c] = num_channels + 1]
        /\ UNCHANGED <<count, named, user_name>>
    BY <1>2 DEF StartChannel, Requests, Reading, NextSlot, loopVars, tableVars
  <2>4. ASSUME NEW k \in 1 .. num_channels' PROVE \A t \in active_members'[k] : t < count
    <3>1. k \in DOMAIN members
      BY <2>3, <1>1 DEF ChannelIds
    <3>2. \A t \in members[k] : t < count
      BY <2>3, <1>1 DEF Calm, BitsCounted, ChannelIds
    <3> HIDE DEF members
    <3> QED BY <3>1, <3>2, <2>2, <2>3, JoinBitsCounted
  <2> QED BY <2>3, <2>4, <1>1 DEF Calm, InsideNamed, BitsCounted, NoRoomsDown, NamedUsers
<1>3. ASSUME NEW n \in TypedNames, Join(c, n)
      PROVE  InsideNamed' /\ BitsCounted' /\ NoRoomsDown' /\ NamedUsers'
  <2> DEFINE target == Resolve(user_name[c], n)
  <2>1. PICK last \in ChannelsNamed(target) : Joins(c, target, last)
    BY <1>3 DEF Join
  <2>2. /\ active_members' = JoinBits(active_members, ChannelsNamed(target), last,
                                      active_channel[c], i)
        /\ active_channel' = [active_channel EXCEPT ![c] = last]
    BY <2>1 DEF Joins
  <2>3. /\ named[c] /\ i < count /\ pc' = pc /\ pc = "read"
        /\ UNCHANGED <<count, named, user_name, num_channels>>
    BY <1>3 DEF Join, Requests, Reading, NextSlot, loopVars, tableVars
  <2>4. ASSUME NEW k \in 1 .. num_channels PROVE \A t \in active_members'[k] : t < count
    <3>1. k \in DOMAIN active_members
      BY <1>1
    <3>2. \A t \in active_members[k] : t < count
      BY DEF Calm, BitsCounted
    <3> QED BY <3>1, <3>2, <2>2, <2>3, JoinBitsCounted
  <2> HIDE DEF target
  <2> QED BY <2>2, <2>3, <2>4, <1>1 DEF Calm, InsideNamed, BitsCounted, NoRoomsDown, NamedUsers
<1> QED BY <1>2, <1>3

LEMMA BefriendCalm ==
    ASSUME Connected, Orders, Calm, NEW c \in Clients, NEW u, Befriend(c, u)
    PROVE  InsideNamed' /\ BitsCounted' /\ NoRoomsDown' /\ NamedUsers'
<1> USE BoundsAssumption
<1>1. PICK bits \in FreshBitmaps :
         active_members' = [active_members EXCEPT ![num_channels + 1] = bits]
  BY DEF Befriend
<1>2. /\ active_members' = [active_members EXCEPT ![num_channels + 1] = {}]
      /\ num_channels' = num_channels + 1 /\ num_channels < MaxChannels
      /\ UNCHANGED <<pc, count, active_channel, named, user_name>> /\ pc = "read"
  BY <1>1 DEF Befriend, CanBefriend, Requests, Reading, Connected, NextSlot, loopVars,
              tableVars, sessionVars
<1>3. active_members \in [ChannelIds -> SUBSET Slots] /\ num_channels \in Nat
  BY DEF Orders, TypeOK, ChannelType
<1>4. ASSUME NEW k \in 1 .. num_channels' PROVE \A s \in active_members'[k] : s < count
  BY <1>2, <1>3 DEF Calm, BitsCounted, ChannelIds
<1> QED BY <1>2, <1>4 DEF Calm, InsideNamed, BitsCounted, NoRoomsDown, NamedUsers

\* Every step keeps what the refinement needs.
LEMMA CalmStep ==
    ASSUME Connected, NoTwins, Orders, Calm, [Next]_vars
    PROVE  Calm'
<1> DEFINE Others == InsideNamed' /\ BitsCounted' /\ NoRoomsDown' /\ NamedUsers'
<1>1. /\ OnlyOpen' /\ UniqueChannels'
      /\ \A c \in Clients : ~Disconnect(c) /\ ~PeerCloses(c) /\ ~ReadFails(c) /\ ~WriteFails(c)
  BY OpenStep, UniqueStep DEF Calm, Orders
<1>2. CASE Ending
  <2>1. PICK why \in Faults : Ends(why)
    BY <1>2, EndingEnds
  <2>2. num_channels' = 0 /\ \A c \in Clients : active_channel'[c] = 0 /\ ~named'[c]
    BY <2>1 DEF Ends
  <2> QED BY <2>2, <1>1 DEF Calm, InsideNamed, BitsCounted, NoRoomsDown, NamedUsers
<1>3. CASE Launch
  BY <1>1, <1>3, LaunchCalm DEF Calm
<1>4. ASSUME NEW c \in Clients, Accept(c) PROVE Others
  BY <1>4, AcceptCalm
<1>5. count \in Nat /\ TypeOK
  BY BoundsAssumption DEF Orders, TypeOK, TableType
<1>6. CASE WritesEnd \/ Select \/ ReadsEnd \/ UNCHANGED vars
  <2>1. /\ UNCHANGED <<num_channels, active_members, user_name, active_channel, named>>
        /\ pc' = "down" => pc = "down"
    BY <1>6 DEF WritesEnd, Select, ReadsEnd, vars, loopVars, sessionVars, channelVars
  <2>2. count' \in Nat /\ count' >= count
    <3>1. CASE WritesEnd
      BY <3>1, <1>5 DEF WritesEnd, TypeOK, LoopType
    <3>2. CASE ~WritesEnd
      BY <3>2, <1>5, <1>6 DEF Select, ReadsEnd, vars, tableVars
    <3> QED BY <3>1, <3>2
  <2>3. Others
    BY <2>1, <2>2, <1>5, SameChannelsCalm DEF Calm
  <2> QED BY <2>3, <1>1 DEF Calm
<1>7. ASSUME NEW c \in Clients, Answers(c) \/ Leave(c) \/ Send(c) \/ Write(c)
      PROVE  Others
  <2>1. /\ UNCHANGED <<num_channels, active_members, user_name, named, count>>
        /\ pc' = pc
    <3>1. CASE Answers(c)
      BY <3>1, AnswersQueue DEF Queues, NextSlot, loopVars, tableVars, sessionVars, channelVars
    <3>2. CASE ~Answers(c)
      BY <3>2, <1>7 DEF Leave, Send, Write, NextSlot, loopVars, tableVars, sessionVars, channelVars
    <3> QED BY <3>1, <3>2
  <2>2. \A d \in Clients : active_channel'[d] # 0 => active_channel[d] # 0
    <3>1. CASE Answers(c)
      BY <3>1, AnswersQueue DEF Queues, sessionVars
    <3>2. CASE Leave(c)
      BY <3>2, <1>5 DEF Leave, TypeOK, SessionType
    <3>3. CASE Send(c) \/ Write(c)
      BY <3>3 DEF Send, Write, sessionVars
    <3> QED BY <3>1, <3>2, <3>3, <1>7
  <2> QED BY <2>1, <2>2 DEF Calm, InsideNamed, BitsCounted, NoRoomsDown, NamedUsers
<1>8. ASSUME NEW c \in Clients, NEW u \in UserNames \cup {NoName}, LogIn(c, u) \/ Befriend(c, u)
      PROVE  Others
  BY <1>8, LogInCalm, BefriendCalm
<1>9. ASSUME NEW c \in Clients,
             \/ \E n \in ChannelNames : StartChannel(c, n)
             \/ \E n \in TypedNames : Join(c, n)
      PROVE  Others
  BY <1>9, MovingCalm
<1>10. Others => Calm'
  BY <1>1 DEF Calm
<1> HIDE DEF Others
<1> QED BY <1>1, <1>2, <1>3, <1>4, <1>6, <1>7, <1>8, <1>9, <1>10, StepKinds

-----------------------------------------------------------------------------
(***************************************************************************)
(* Who is told: a bitmap that is asked through the first channel of a name *)
(* is the audience of the room of that name.                               *)
(***************************************************************************)
LEMMA TellBroadcast ==
    ASSUME NEW buf, NEW S, NEW m PROVE Room!Tell(buf, S, m) = Broadcast(buf, S, m)
BY DEF Room!Tell, Broadcast, HasRoom

LEMMA SameAudience ==
    ASSUME NEW buf, NEW S, NEW T, NEW m, \A d \in Clients : d \in S <=> d \in T
    PROVE  Broadcast(buf, S, m) = Broadcast(buf, T, m)
BY DEF Broadcast

LEMMA RespondTell ==
    ASSUME NEW buf, BufOK(buf), NEW c \in Clients, NEW m
    PROVE  Respond(buf, c, m) = Broadcast(buf, {c}, m)
<1>1. buf \in [Clients -> Seq(Messages)]
  BY DEF BufOK
<1>2. ASSUME NEW d \in Clients
      PROVE  Respond(buf, c, m)[d] = Broadcast(buf, {c}, m)[d]
  BY <1>1 DEF Respond, Broadcast
<1>3. /\ DOMAIN Respond(buf, c, m) = Clients
      /\ Respond(buf, c, m) = [d \in DOMAIN Respond(buf, c, m) |-> Respond(buf, c, m)[d]]
  BY <1>1 DEF Respond
<1>4. Broadcast(buf, {c}, m) = [d \in Clients |-> Broadcast(buf, {c}, m)[d]]
  BY DEF Broadcast
<1> QED BY <1>2, <1>3, <1>4

LEMMA NobodyTold ==
    ASSUME NEW buf, BufOK(buf), NEW S, NEW m, \A d \in Clients : d \notin S
    PROVE  Broadcast(buf, S, m) = buf
BY DEF Broadcast, BufOK

\* The channel of a name, and its audience.
LEMMA ChannelOfName ==
    ASSUME TypeOK, UniqueChannels, NEW k \in 1 .. num_channels
    PROVE  /\ ChannelsNamed(channel_name[k]) = {k}
           /\ FirstOf(ChannelsNamed(channel_name[k])) = k
           /\ \A d \in Clients : channel_name[k] \in Hearing[d] <=> k \in HeardChannels(d)
<1>1. ChannelsNamed(channel_name[k]) = {k}
  BY DEF ChannelsNamed, UniqueChannels
<1>2. FirstOf({k}) = k
  BY DEF FirstOf
<1>3. ASSUME NEW d \in Clients PROVE channel_name[k] \in Hearing[d] <=> k \in HeardChannels(d)
  BY DEF Hearing, HeardChannels, UniqueChannels
<1> QED BY <1>1, <1>2, <1>3

LEMMA Audience ==
    ASSUME TypeOK, UniqueChannels, NEW k \in 1 .. num_channels, NEW d \in Clients
    PROVE  d \in Room!Listeners({channel_name[k]}) <=> d \in Receivers(active_members[k], {})
<1>1. d \in Receivers(active_members[k], {}) <=> k \in HeardChannels(d)
  BY DEF Receivers, HeardChannels
<1>2. d \in Room!Listeners({channel_name[k]}) <=> channel_name[k] \in Hearing[d]
  BY DEF Room!Listeners
<1> QED BY <1>1, <1>2, ChannelOfName

LEMMA NoticeTell ==
    ASSUME TypeOK, UniqueChannels, NEW buf, BufOK(buf), NEW c \in Clients
    PROVE  LeaveNotice(buf, c) = Broadcast(buf, Room!Others(c), Sys)
<1>1. active_channel[c] \in 0 .. num_channels
  BY DEF TypeOK, SessionType, ChannelType
<1>2. CASE active_channel[c] = 0
  <2>1. Within[c] = {}
    BY <1>2 DEF Within
  <2>2. \A d \in Clients : d \notin Room!Others(c)
    BY <2>1 DEF Room!Others, Room!Listeners
  <2>3. LeaveNotice(buf, c) = buf
    BY <1>2 DEF LeaveNotice
  <2> QED BY <2>2, <2>3, NobodyTold
<1>3. CASE active_channel[c] # 0
  <2> DEFINE k == active_channel[c]
  <2>1. k \in 1 .. num_channels
    BY <1>1, <1>3
  <2>2. Within[c] = {channel_name[k]}
    BY <1>3 DEF Within
  <2>3. LeaveNotice(buf, c) = Broadcast(buf, Receivers(active_members[k], {c}), Sys)
    BY <2>1, <1>3, ChannelOfName DEF LeaveNotice
  <2>4. ASSUME NEW d \in Clients
        PROVE  d \in Receivers(active_members[k], {c}) <=> d \in Room!Others(c)
    <3>1. d \in Receivers(active_members[k], {c}) <=>
             d \in Receivers(active_members[k], {}) /\ d # c
      BY DEF Receivers
    <3>2. d \in Room!Others(c) <=> d \in Room!Listeners({channel_name[k]}) /\ d # c
      BY <2>2 DEF Room!Others
    <3> HIDE DEF k
    <3> QED BY <3>1, <3>2, <2>1, Audience
  <2> QED BY <2>3, <2>4, SameAudience
<1> QED BY <1>2, <1>3

-----------------------------------------------------------------------------
(***************************************************************************)
(* What is heard: bits that nobody of those counted has do not matter.     *)
(***************************************************************************)

\* Nothing that is heard changes when the counted slots and the bits do not.
LEMMA SameHearing ==
    ASSUME num_channels \in Nat, num_channels' \in Nat, num_channels <= num_channels',
           \A k \in 1 .. num_channels : /\ channel_name'[k] = channel_name[k]
                                        /\ active_members'[k] = active_members[k]
                                        /\ \A s \in active_members[k] : s < count,
           \A k \in 1 .. num_channels' : k > num_channels => active_members'[k] = {},
           count <= count', count \in Nat, count' \in Nat,
           \A k \in 1 .. num_channels : \A s \in active_members[k] : clients'[s] = clients[s],
           \A k \in 1 .. num_channels : active_members[k] \subseteq Slots
    PROVE  Hearing' = Hearing
<1>1. ASSUME NEW d \in Clients PROVE HeardChannels(d)' = HeardChannels(d)
  <2>1. \A k \in 1 .. num_channels' : k \notin 1 .. num_channels => active_members'[k] = {}
    OBVIOUS
  <2>2. \A k \in 1 .. num_channels : \A s \in active_members'[k] : s < count'
    BY DEF Slots
  <2> QED BY <2>1, <2>2 DEF HeardChannels
<1>2. \A d \in Clients : \A k \in HeardChannels(d) : channel_name'[k] = channel_name[k]
  BY DEF HeardChannels
<1> QED BY <1>1, <1>2 DEF Hearing

\* A function that changed at one point.
LEMMA OneChanged ==
    ASSUME NEW S, NEW f, NEW g, f = [x \in S |-> f[x]], g = [x \in S |-> g[x]],
           NEW c \in S, NEW v, g[c] = v, \A d \in S : d # c => g[d] = f[d]
    PROVE  g = [f EXCEPT ![c] = v]
<1>1. DOMAIN f = S /\ DOMAIN g = S
  OBVIOUS
<1>2. \A d \in S : g[d] = [f EXCEPT ![c] = v][d]
  BY <1>1
<1>3. [f EXCEPT ![c] = v] = [x \in S |-> [f EXCEPT ![c] = v][x]]
  BY <1>1
<1> QED BY <1>2, <1>3

\* A client that enters a channel: its bit is set there and cleared where it
\* was, or only cleared when it was there already.
LEMMA EnteringHears ==
    ASSUME Orders, Calm, UniqueChannels', NEW c \in Clients, Requests(c),
           num_channels' \in Nat, num_channels <= num_channels', num_channels' <= MaxChannels,
           \A k \in 1 .. num_channels : channel_name'[k] = channel_name[k],
           NEW last \in 1 .. num_channels',
           NEW members, DOMAIN members = ChannelIds,
           \A k \in 1 .. num_channels : members[k] = active_members[k],
           \A k \in 1 .. num_channels' : k > num_channels => members[k] = {},
           active_members' = JoinBits(members, {last}, last, active_channel[c], i),
           UNCHANGED <<clients, count>>
    PROVE  /\ channel_name'[last] \in Within[c] =>
                  Hearing' = [Hearing EXCEPT ![c] = @ \ {channel_name'[last]}]
           /\ channel_name'[last] \notin Within[c] =>
                  Hearing' = [Hearing EXCEPT ![c] = (@ \ Within[c]) \cup {channel_name'[last]}]
<1> USE BoundsAssumption
<1> DEFINE n == channel_name'[last]
           old == active_channel[c]
           bits == JoinBits(members, {last}, last, old, i)
<1>1. /\ i \in Slots /\ i < count /\ clients[i] = c
      /\ num_channels \in Nat /\ old \in 0 .. num_channels
      /\ \A k \in 1 .. num_channels' : k \in ChannelIds
  BY ReadSlot DEF Requests, Reading, Orders, TypeOK, SessionType, ChannelType, ChannelIds
<1>2. \A s \in Slots : s < count /\ clients[s] = c => s = i
  BY <1>1, NullAssumption DEF Orders, TableInv, OneSlot
<1>3. \A k \in 1 .. num_channels : active_members[k] \subseteq Slots
  BY <1>1 DEF Orders, TypeOK, ChannelType, ChannelIds
<1>4. ASSUME NEW k \in 1 .. num_channels', NEW s
      PROVE  s \in bits[k] <=>
               IF s = i THEN (k = last /\ last # old) \/ (i \in members[k] /\ k \notin {last, old})
               ELSE s \in members[k]
  <2>1. k \in DOMAIN members
    BY <1>1
  <2>2. bits[k] = IF k = last /\ {last} # {old} THEN members[k] \cup {i}
                  ELSE IF k \in {last} \cup {old} THEN members[k] \ {i} ELSE members[k]
    BY <2>1 DEF JoinBits
  <2> HIDE DEF bits, old
  <2>3. CASE k = last /\ last # old
    BY <2>2, <2>3
  <2>4. CASE ~(k = last /\ last # old) /\ k \in {last, old}
    BY <2>2, <2>4
  <2>5. CASE k \notin {last, old}
    BY <2>2, <2>5
  <2> QED BY <2>3, <2>4, <2>5
<1>5. ASSUME NEW d \in Clients, d # c PROVE HeardChannels(d)' = HeardChannels(d)
  <2>1. ASSUME NEW k \in 1 .. num_channels'
        PROVE  k \in HeardChannels(d)' <=> k \in HeardChannels(d)
    <3>1. CASE k \in 1 .. num_channels
      <4>1. members[k] = active_members[k] /\ active_members' = bits
        BY <3>1
      <4> HIDE DEF bits
      <4>2. \A s : s \in active_members'[k] /\ clients[s] = d <=>
                   s \in active_members[k] /\ clients[s] = d
        BY <4>1, <1>1, <1>4, <1>5
      <4> QED BY <3>1, <4>2 DEF HeardChannels
    <3>2. CASE k \notin 1 .. num_channels
      <4>1. members[k] = {} /\ active_members' = bits
        BY <3>2, <1>1
      <4> HIDE DEF bits
      <4>2. \A s : s \in active_members'[k] => s = i
        BY <4>1, <1>4
      <4>3. \A s \in active_members'[k] : clients'[s] # d
        BY <4>2, <1>1, <1>5
      <4>4. k \notin HeardChannels(d)'
        BY <4>3 DEF HeardChannels
      <4> QED BY <3>2, <4>4 DEF HeardChannels
    <3> QED BY <3>1, <3>2
  <2>2. HeardChannels(d) \subseteq 1 .. num_channels' /\ HeardChannels(d)' \subseteq 1 .. num_channels'
    BY <1>1 DEF HeardChannels
  <2> QED BY <2>1, <2>2
<1>6. HeardChannels(c)' = IF last = old THEN HeardChannels(c) \ {last}
                          ELSE (HeardChannels(c) \ {old}) \cup {last}
  <2>1. ASSUME NEW k \in 1 .. num_channels'
        PROVE  k \in HeardChannels(c)' <=>
                  (k = last /\ last # old) \/ (k \in HeardChannels(c) /\ k \notin {last, old})
    <3>1. k \in HeardChannels(c)' <=> i \in active_members'[k]
      <4>1. k \in HeardChannels(c)' <=>
               \E s \in active_members'[k] : s < count /\ clients[s] = c
        BY DEF HeardChannels
      <4>2. \A s \in active_members'[k] : s \in Slots
        <5>1. members[k] \subseteq Slots
          <6>1. CASE k <= num_channels
            BY <6>1, <1>3
          <6>2. CASE k > num_channels
            BY <6>2
          <6> QED BY <6>1, <6>2, <1>1
        <5>2. active_members' = bits
          OBVIOUS
        <5> HIDE DEF bits
        <5> QED BY <5>1, <5>2, <1>1, <1>4
      <4> QED BY <4>1, <4>2, <1>1, <1>2
    <3>2. k \in HeardChannels(c) <=> k \in 1 .. num_channels /\ i \in active_members[k]
      BY <1>1, <1>2, <1>3 DEF HeardChannels
    <3>3. k \in HeardChannels(c) <=> i \in members[k]
      <4>1. CASE k \in 1 .. num_channels
        BY <4>1, <3>2
      <4>2. CASE k \notin 1 .. num_channels
        BY <4>2, <3>2, <1>1
      <4> QED BY <4>1, <4>2
    <3>4. i \in active_members'[k] <=>
             (k = last /\ last # old) \/ (i \in members[k] /\ k \notin {last, old})
      BY <1>4
    <3> QED BY <3>1, <3>3, <3>4
  <2>2. HeardChannels(c) \subseteq 1 .. num_channels' /\ HeardChannels(c)' \subseteq 1 .. num_channels'
    BY <1>1 DEF HeardChannels
  <2> HIDE DEF old
  <2> QED BY <2>1, <2>2
<1>7. \A d \in Clients : HeardChannels(d) \subseteq 1 .. num_channels
  BY DEF HeardChannels
<1>8. \A d \in Clients : HeardChannels(d)' \subseteq 1 .. num_channels'
  BY DEF HeardChannels
<1>9. \A d \in Clients : d # c => Hearing'[d] = Hearing[d]
  BY <1>5, <1>7 DEF Hearing
<1>10. \A k \in 1 .. num_channels' : \A l \in 1 .. num_channels' :
          channel_name'[k] = channel_name'[l] => k = l
  BY DEF UniqueChannels
<1>11. Within[c] = IF old = 0 THEN {} ELSE {channel_name'[old]}
  BY <1>1 DEF Within
<1>12. Hearing[c] = {channel_name'[k] : k \in HeardChannels(c)}
  BY <1>7 DEF Hearing
<1>13. Hearing'[c] = {channel_name'[k] : k \in HeardChannels(c)'}
  BY DEF Hearing
<1> HIDE DEF old, bits
<1>14. Hearing = [x \in Clients |-> Hearing[x]] /\ Hearing' = [x \in Clients |-> Hearing'[x]]
  BY DEF Hearing
<1>15. CASE last = old
  <2>1. n \in Within[c]
    BY <1>11, <1>15
  <2>2. Hearing'[c] = Hearing[c] \ {n}
    BY <1>6, <1>7, <1>10, <1>12, <1>13, <1>15, <1>1
  <2> HIDE DEF n
  <2>3. Hearing' = [Hearing EXCEPT ![c] = Hearing[c] \ {n}]
    BY <2>2, <1>9, <1>14, OneChanged
  <2> QED BY <2>1, <2>3 DEF n
<1>16. CASE last # old
  <2>1. n \notin Within[c]
    BY <1>1, <1>10, <1>11, <1>16
  <2>2. Hearing'[c] = (Hearing[c] \ Within[c]) \cup {n}
    BY <1>1, <1>6, <1>7, <1>10, <1>11, <1>12, <1>13, <1>16
  <2> HIDE DEF n
  <2>3. Hearing' = [Hearing EXCEPT ![c] = (Hearing[c] \ Within[c]) \cup {n}]
    BY <2>2, <1>9, <1>14, OneChanged
  <2> QED BY <2>1, <2>3 DEF n
<1> QED BY <1>15, <1>16

-----------------------------------------------------------------------------
(***************************************************************************)
(* Every step is a step of the rooms, or one that the users do not see.    *)
(***************************************************************************)
LEMMA SameNames == UNCHANGED <<named, user_name>> => LoginName' = LoginName
BY DEF LoginName

LEMMA SameRooms == UNCHANGED channelVars => RoomNames' = RoomNames
BY DEF RoomNames, channelVars

LEMMA SameWithin == UNCHANGED <<active_channel, channel_name>> => Within' = Within
BY DEF Within

LEMMA SameBits == UNCHANGED <<channelVars, tableVars>> => Hearing' = Hearing
BY DEF Hearing, HeardChannels, channelVars, tableVars

\* The message constructors are the same.
LEMMA SameMessages ==
    /\ \A a : Room!Notice(a) = Reply(a)
    /\ Room!Notice("SYS") = Sys
    /\ \A a, id : Room!Chat(a, id) = [action |-> a, id |-> id]
BY DEF Room!Notice, Room!Chat, Reply, Sys

LEMMA RoomsInit == Init => Room!RoomInit
<1> SUFFICES ASSUME Init PROVE Room!RoomInit
  OBVIOUS
<1>1. LoginName = [c \in Clients |-> NoName] /\ Within = [c \in Clients |-> {}]
  BY DEF Init, LoginName, Within
<1>2. num_channels = 0 /\ RoomNames = {} /\ Hearing = [c \in Clients |-> {}]
  BY DEF Init, RoomNames, Hearing, HeardChannels
<1> QED BY <1>1, <1>2 DEF Init, Room!RoomInit, Room!Down

\* The end of a process is seen once.
LEMMA EndStops ==
    ASSUME Orders, Calm, NEW why, Ends(why)
    PROVE  Room!Stop \/ UNCHANGED Room!roomVars
<1>1. LoginName' = [c \in Clients |-> NoName] /\ Within' = [c \in Clients |-> {}]
  BY DEF Ends, LoginName, Within
<1>2. num_channels' = 0 /\ RoomNames' = {} /\ Hearing' = [c \in Clients |-> {}]
  BY DEF Ends, RoomNames, Hearing, HeardChannels
<1>3. CASE pc = "down"
  <2>1. /\ named = [c \in Clients |-> FALSE] /\ active_channel = [c \in Clients |-> 0]
        /\ out_buf = [c \in Clients |-> <<>>] /\ num_channels = 0
    BY <1>3 DEF Orders, Stopped, Calm, NoRoomsDown
  <2>2. LoginName = [c \in Clients |-> NoName] /\ Within = [c \in Clients |-> {}]
    BY <2>1 DEF LoginName, Within
  <2>3. RoomNames = {} /\ Hearing = [c \in Clients |-> {}]
    BY <2>1 DEF RoomNames, Hearing, HeardChannels
  <2> QED BY <1>1, <1>2, <1>3, <2>1, <2>2, <2>3 DEF Ends, Room!roomVars
<1>4. CASE pc # "down"
  BY <1>1, <1>2, <1>4 DEF Ends, Room!Stop, Room!Down
<1> QED BY <1>3, <1>4

LEMMA LaunchStarts == ASSUME Connected, Orders, Calm, Launch PROVE Room!Start
<1>1. PICK n \in 0 .. MaxChannels :
         \E files \in [1 .. n -> DOMAIN archive], bits \in [1 .. n -> FreshBitmaps] :
            Reload(n, files, bits)
  BY DEF Launch
<1>2. PICK files \in [1 .. n -> DOMAIN archive], bits \in [1 .. n -> FreshBitmaps] :
         Reload(n, files, bits)
  BY <1>1
<1>3. /\ num_channels' = n /\ Lists(files, DOMAIN archive)
      /\ \A k \in 1 .. n : active_members'[k] = {} /\ channel_name'[k] = files[k]
  BY <1>2, BoundsAssumption DEF Reload, ChannelIds, Connected
<1>4. RoomNames' = DOMAIN archive
  <2>1. RoomNames' \subseteq DOMAIN archive
    BY <1>3 DEF RoomNames
  <2>2. ASSUME NEW x \in DOMAIN archive PROVE x \in RoomNames'
    <3>1. PICK j \in DOMAIN files : files[j] = x
      BY <1>3 DEF Lists
    <3> QED BY <3>1, <1>3 DEF RoomNames
  <2> QED BY <2>1, <2>2
<1>5. Hearing = [c \in Clients |-> {}]
  BY DEF Hearing, HeardChannels, Calm, NoRoomsDown, Launch
<1>6. Hearing' = [c \in Clients |-> {}]
  BY <1>3 DEF Hearing, HeardChannels
<1>7. LoginName' = LoginName /\ Within' = Within
  <2>1. named' = named /\ user_name' = user_name
        /\ active_channel' = active_channel /\ active_channel = [c \in Clients |-> 0]
    BY DEF Launch, sessionVars, Orders, Stopped
  <2> QED BY <2>1 DEF LoginName, Within
<1> QED BY <1>4, <1>5, <1>6, <1>7 DEF Launch, Room!Start, diskVars

\* What is not seen: the turns of the loops and the connections.
LEMMA HiddenStep ==
    ASSUME Orders, Calm, Select \/ ReadsEnd \/ WritesEnd \/ UNCHANGED vars
    PROVE  UNCHANGED Room!roomVars
<1>1. /\ UNCHANGED <<named, user_name, active_channel, channelVars, out_buf, archive, sent, clients>>
      /\ (pc' # "down") = (pc # "down")
  BY DEF Select, ReadsEnd, WritesEnd, vars, loopVars, tableVars, sessionVars, channelVars, diskVars
<1>2. Hearing' = Hearing
  <2>1. CASE ~WritesEnd
    BY <2>1, <1>1, SameBits DEF Select, ReadsEnd, vars, tableVars
  <2>2. CASE WritesEnd
    <3>1. /\ num_channels \in Nat /\ count \in Nat /\ count' \in Nat /\ count <= count'
          /\ \A k \in 1 .. num_channels : active_members[k] \subseteq Slots
      BY <2>2, BoundsAssumption
         DEF WritesEnd, Orders, TypeOK, LoopType, TableType, ChannelType, ChannelIds
    <3> QED BY <3>1, <1>1, SameHearing DEF channelVars, Calm, BitsCounted
  <2> QED BY <2>1, <2>2
<1> QED BY <1>1, <1>2, SameNames, SameRooms, SameWithin DEF Room!roomVars, channelVars

LEMMA AcceptHidden ==
    ASSUME Orders, Calm, NEW c \in Clients, Accept(c)
    PROVE  UNCHANGED Room!roomVars
<1>1. /\ ~named[c] /\ ~HasHole /\ pc' = "read" /\ pc = "select"
      /\ UNCHANGED <<named, active_channel, channelVars, out_buf, archive, sent, count>>
      /\ clients' = [clients EXCEPT ![count] = c]
  BY AcceptCalm DEF Accept, diskVars
<1>2. \A d \in Clients : d # c => user_name'[d] = user_name[d]
  BY DEF Accept, Orders, TypeOK, SessionType
<1>3. LoginName' = LoginName
  BY <1>1, <1>2 DEF LoginName
<1>4. Hearing' = Hearing
  <2>1. /\ num_channels \in Nat /\ count \in Nat
        /\ \A k \in 1 .. num_channels : active_members[k] \subseteq Slots
    BY BoundsAssumption DEF Orders, TypeOK, TableType, ChannelType, ChannelIds
  <2>2. \A k \in 1 .. num_channels : \A s \in active_members[k] : clients'[s] = clients[s]
    BY <1>1, <2>1 DEF Calm, BitsCounted, Orders, TypeOK, TableType, Slots
  <2> QED BY <2>1, <2>2, <1>1, SameHearing DEF channelVars, Calm, BitsCounted
<1> QED BY <1>1, <1>3, <1>4, SameRooms, SameWithin DEF Room!roomVars, channelVars

LEMMA RespondAnswer ==
    ASSUME TypeOK, NEW c \in Clients, NEW a
    PROVE  Respond(out_buf, c, Reply(a)) = Room!Tell(out_buf, {c}, Room!Notice(a))
<1>1. BufOK(out_buf)
  BY DEF TypeOK, BufferType, BufOK
<1> QED BY <1>1, RespondTell, TellBroadcast, SameMessages

\* A turn of a loop that leaves table, sessions and channels as they are.
LEMMA SameView ==
    ASSUME NextSlot,
           UNCHANGED <<tableVars, named, user_name, active_channel, channelVars>>
    PROVE  /\ LoginName' = LoginName /\ RoomNames' = RoomNames
           /\ Within' = Within /\ Hearing' = Hearing
           /\ pc' = pc
BY SameNames, SameRooms, SameWithin, SameBits DEF NextSlot, loopVars, channelVars

LEMMA AnswersTell ==
    ASSUME Orders, NEW c \in Clients, Answers(c)
    PROVE  \/ UNCHANGED Room!roomVars
           \/ \E a \in Room!Refusals \cup {"ONLINE"} : Room!Tells(c, a)
<1>1. /\ LoginName' = LoginName /\ RoomNames' = RoomNames
      /\ Within' = Within /\ Hearing' = Hearing
      /\ pc' = pc /\ UNCHANGED <<archive, sent>>
  BY AnswersQueue, SameView DEF Queues, sessionVars, diskVars
<1>2. pc # "down"
  BY DEF Answers, SkipRead, Online, SendNowhere, SkipWrite, LogInFails, FriendUnknown,
         StartFails, JoinFails, Requests, Logs, Reading, Writing
<1>3. \/ out_buf' = out_buf
      \/ \E a \in Room!Refusals \cup {"ONLINE"} : out_buf' = Respond(out_buf, c, Reply(a))
  BY DEF Answers, SkipRead, Online, SendNowhere, SkipWrite, LogInFails, FriendUnknown,
         StartFails, JoinFails, Room!Refusals
<1>4. CASE out_buf' = out_buf
  BY <1>1, <1>4 DEF Room!roomVars
<1>5. ASSUME NEW a \in Room!Refusals \cup {"ONLINE"}, out_buf' = Respond(out_buf, c, Reply(a))
      PROVE  Room!Tells(c, a)
  BY <1>1, <1>2, <1>5, RespondAnswer DEF Room!Tells, Room!Answer, Orders
<1> QED BY <1>3, <1>4, <1>5

LEMMA LogInLogsIn ==
    ASSUME Orders, NEW c \in Clients, NEW u \in UserNames \cup {NoName}, LogIn(c, u)
    PROVE  Room!LogsIn(c, u) /\ u \in UserNames
<1>1. /\ u # NoName /\ ~NameTaken(u) /\ pc = "read" /\ pc' = pc
      /\ out_buf' = Respond(out_buf, c, Reply("LOGN:S"))
      /\ user_name' = [user_name EXCEPT ![c] = u] /\ named' = [named EXCEPT ![c] = TRUE]
      /\ UNCHANGED <<tableVars, active_channel, channelVars, archive, sent>>
  BY DEF LogIn, Logs, Reading, NextSlot, loopVars, diskVars
<1>2. \A d \in Clients : LoginName[d] # u
  <2>1. \A d \in Clients : named[d] => user_name[d] # u
    BY <1>1 DEF NameTaken, Orders, TableInv, NamedCounted
  <2> QED BY <1>1, <2>1 DEF LoginName
<1>3. LoginName' = [LoginName EXCEPT ![c] = u]
  <2>1. \A d \in Clients : LoginName'[d] = IF d = c THEN u ELSE LoginName[d]
    BY <1>1 DEF LoginName, Orders, TypeOK, SessionType
  <2>2. LoginName = [x \in Clients |-> LoginName[x]] /\ LoginName' = [x \in Clients |-> LoginName'[x]]
    BY DEF LoginName
  <2> QED BY <2>1, <2>2, OneChanged
<1>4. Room!Answer(c, "LOGN:S")
  BY <1>1, RespondAnswer DEF Room!Answer, Orders
<1>5. RoomNames' = RoomNames /\ Within' = Within /\ Hearing' = Hearing
  BY <1>1, SameRooms, SameWithin, SameBits DEF channelVars
<1> QED BY <1>1, <1>2, <1>3, <1>4, <1>5 DEF Room!LogsIn

LEMMA LeaveLeaves ==
    ASSUME Orders, Calm, NEW c \in Clients, Leave(c)
    PROVE  Room!Leaves(c)
<1>1. /\ pc = "read" /\ pc' = pc
      /\ out_buf' = Respond(LeaveNotice(out_buf, c), c, Reply("LEAVE:S"))
      /\ active_channel' = [active_channel EXCEPT ![c] = 0]
      /\ UNCHANGED <<tableVars, named, user_name, channelVars, archive, sent>>
  BY DEF Leave, Requests, Reading, NextSlot, loopVars, diskVars
<1>2. BufOK(out_buf) /\ BufOK(LeaveNotice(out_buf, c))
  BY LeaveNoticeType DEF BufOK, Orders, TypeOK, BufferType
<1>3. LeaveNotice(out_buf, c) = Room!Tell(out_buf, Room!Others(c), Room!Notice("SYS"))
  BY <1>2, NoticeTell, TellBroadcast, SameMessages DEF Orders, Calm
<1>4. out_buf' = Room!Tell(LeaveNotice(out_buf, c), {c}, Room!Notice("LEAVE:S"))
  BY <1>1, <1>2, RespondTell, TellBroadcast, SameMessages
<1>5. Within' = [Within EXCEPT ![c] = {}]
  <2>1. \A d \in Clients : Within'[d] = IF d = c THEN {} ELSE Within[d]
    BY <1>1 DEF Within, channelVars, Orders, TypeOK, SessionType
  <2>2. Within = [x \in Clients |-> Within[x]] /\ Within' = [x \in Clients |-> Within'[x]]
    BY DEF Within
  <2> QED BY <2>1, <2>2, OneChanged
<1>6. LoginName' = LoginName /\ RoomNames' = RoomNames /\ Hearing' = Hearing
  BY <1>1, SameNames, SameRooms, SameBits
<1> QED BY <1>1, <1>3, <1>4, <1>5, <1>6 DEF Room!Leaves

LEMMA WriteDelivers ==
    ASSUME NEW c \in Clients, Write(c)
    PROVE  Room!Delivers(c)
<1>1. /\ LoginName' = LoginName /\ RoomNames' = RoomNames
      /\ Within' = Within /\ Hearing' = Hearing /\ pc' = pc
  BY SameView DEF Write
<1> QED BY <1>1 DEF Write, Writing, Room!Delivers, diskVars

LEMMA SendSays ==
    ASSUME Orders, Calm, NEW c \in Clients, Send(c)
    PROVE  Room!Says(c)
<1> DEFINE k == active_channel[c]
           n == channel_name[k]
<1>1. /\ LoginName' = LoginName /\ RoomNames' = RoomNames
      /\ Within' = Within /\ Hearing' = Hearing /\ pc' = pc
  BY SameView DEF Send, sessionVars
<1>2. /\ k # 0 /\ sent < MaxMessages /\ sent' = sent + 1 /\ pc = "read"
      /\ archive_message(n, sent + 1)
      /\ out_buf' = Broadcast(out_buf, Receivers(active_members[FirstOf(ChannelsNamed(n))], {}),
                              [action |-> "SEND", id |-> sent + 1])
  BY DEF Send, Requests, Reading, ActiveName
<1>3. k \in 1 .. num_channels
  BY <1>2 DEF Orders, TypeOK, SessionType, ChannelType
<1>4. Within[c] = {n}
  BY <1>2 DEF Within
<1>5. FirstOf(ChannelsNamed(n)) = k
  BY <1>3, ChannelOfName DEF Orders, Calm
<1>6. \A d \in Clients : d \in Receivers(active_members[k], {}) <=> d \in Room!Listeners({n})
  BY <1>3, Audience DEF Orders, Calm
<1> HIDE DEF k, n
<1>7. out_buf' = Room!Tell(out_buf, Room!Listeners({n}), Room!Chat("SEND", sent + 1))
  <2> DEFINE m == [action |-> "SEND", id |-> sent + 1]
             S == Receivers(active_members[k], {})
             T == Room!Listeners({n})
  <2>1. Room!Chat("SEND", sent + 1) = m
    BY SameMessages
  <2>2. out_buf' = Broadcast(out_buf, S, m)
    BY <1>2, <1>5
  <2> HIDE DEF m, S, T
  <2>3. Broadcast(out_buf, S, m) = Broadcast(out_buf, T, m)
    BY <1>6, SameAudience DEF S, T
  <2>4. Room!Tell(out_buf, T, m) = Broadcast(out_buf, T, m)
    BY TellBroadcast
  <2> QED BY <2>1, <2>2, <2>3, <2>4 DEF T
<1>8. archive' = IF n \in Unfiled THEN archive
                 ELSE [m \in DOMAIN archive \cup {n} |->
                          IF m = n THEN Append(Room!Told(n), sent + 1) ELSE archive[m]]
  BY <1>2 DEF archive_message, Archived, Room!Told
<1> QED BY <1>1, <1>2, <1>4, <1>7, <1>8 DEF Room!Says

\* A friend channel is called by the name of a pair.
LEMMA PairName ==
    ASSUME NEW a \in UserNames, NEW b \in UserNames \cup {NoName}
    PROVE  a \o b \in PairNames
BY DEF PairNames

LEMMA BefriendBefriends ==
    ASSUME Connected, Orders, Calm, NEW c \in Clients, NEW u \in UserNames \cup {NoName},
           Befriend(c, u)
    PROVE  \E d \in Clients, n \in PairNames : Room!Befriends(c, d, n)
<1> USE BoundsAssumption
<1> DEFINE n == user_name[c] \o u
<1>1. PICK s \in Holders(u) :
         out_buf' = Respond(Respond(out_buf, clients[s], Sys), c, Sys)
  BY DEF Befriend
<1>2. PICK bits \in FreshBitmaps :
         active_members' = [active_members EXCEPT ![num_channels + 1] = bits]
  BY DEF Befriend
<1>3. /\ pc = "read" /\ pc' = pc /\ named[c] /\ num_channels < MaxChannels
      /\ num_channels' = num_channels + 1
      /\ channel_name' = [channel_name EXCEPT ![num_channels + 1] = n]
      /\ active_members' = [active_members EXCEPT ![num_channels + 1] = {}]
      /\ UNCHANGED <<tableVars, named, user_name, active_channel, archive, sent>>
  BY <1>2 DEF Befriend, CanBefriend, Requests, Reading, NextSlot, loopVars, sessionVars,
              Connected
<1>4. /\ num_channels \in Nat /\ count \in Nat
      /\ channel_name \in [ChannelIds -> Names]
      /\ active_members \in [ChannelIds -> SUBSET Slots]
      /\ active_channel \in [Clients -> 0 .. MaxChannels]
      /\ \A d \in Clients : active_channel[d] <= num_channels
  BY DEF Orders, TypeOK, TableType, SessionType, ChannelType
<1>5. n \in PairNames
  <2>1. user_name[c] \in UserNames
    BY <1>3 DEF Calm, NamedUsers
  <2> QED BY <2>1, PairName DEF n
<1>6. clients[s] \in Clients
  BY DEF Holders, Orders, TypeOK, TableType, TableInv, Filled, HasHole,
         Befriend, CanBefriend, Requests, Reading
<1> HIDE DEF n
<1>7. RoomNames' = RoomNames \cup {n}
  BY <1>3, <1>4 DEF RoomNames, ChannelIds
<1>8. Within' = Within
  <2>1. \A d \in Clients : active_channel[d] # 0 =>
           channel_name'[active_channel[d]] = channel_name[active_channel[d]]
    BY <1>3, <1>4 DEF ChannelIds
  <2> QED BY <2>1, <1>3 DEF Within
<1>9. Hearing' = Hearing
  <2>1. \A k \in 1 .. num_channels : /\ channel_name'[k] = channel_name[k]
                                     /\ active_members'[k] = active_members[k]
                                     /\ active_members[k] \subseteq Slots
    BY <1>3, <1>4 DEF ChannelIds
  <2>2. \A k \in 1 .. num_channels' : k > num_channels => active_members'[k] = {}
    BY <1>3, <1>4 DEF ChannelIds
  <2> QED BY <2>1, <2>2, <1>3, <1>4, SameHearing DEF tableVars, Calm, BitsCounted
<1>10. BufOK(out_buf) /\ BufOK(Respond(out_buf, clients[s], Sys))
  BY <1>6, RespondType, SysType DEF BufOK, Orders, TypeOK, BufferType
<1>11. out_buf' = Room!Tell(Room!Tell(out_buf, {clients[s]}, Room!Notice("SYS")),
                            {c}, Room!Notice("SYS"))
  BY <1>1, <1>6, <1>10, RespondTell, TellBroadcast, SameMessages
<1>12. Room!Befriends(c, clients[s], n)
  BY <1>3, <1>7, <1>8, <1>9, <1>11, SameNames DEF Room!Befriends
<1> QED BY <1>5, <1>6, <1>12

LEMMA StartCreates ==
    ASSUME Connected, Orders, Calm, UniqueChannels', NEW c \in Clients,
           NEW n \in ChannelNames, StartChannel(c, n)
    PROVE  Room!Creates(c, n)
<1> USE BoundsAssumption
<1> DEFINE last == num_channels + 1
           members == [active_members EXCEPT ![last] = {}]
<1>1. PICK bits \in FreshBitmaps :
         active_members' = JoinBits([active_members EXCEPT ![num_channels + 1] = bits],
                                    {num_channels + 1}, num_channels + 1, active_channel[c], i)
  BY DEF StartChannel
<1>2. active_members' = JoinBits(members, {last}, last, active_channel[c], i)
  BY <1>1 DEF Connected
<1>3. /\ Requests(c) /\ ~Exists(n) /\ pc = "read" /\ pc' = pc
      /\ num_channels < MaxChannels /\ num_channels' = last
      /\ channel_name' = [channel_name EXCEPT ![last] = n]
      /\ active_channel' = [active_channel EXCEPT ![c] = last]
      /\ out_buf' = LeaveNotice(Respond(out_buf, c, Reply("START:S")), c)
      /\ UNCHANGED <<clients, count, named, user_name, archive, sent>>
  BY DEF StartChannel, Requests, Reading, NextSlot, loopVars, tableVars, diskVars
<1>4. /\ num_channels \in Nat /\ last \in ChannelIds
      /\ channel_name \in [ChannelIds -> Names]
      /\ active_members \in [ChannelIds -> SUBSET Slots]
      /\ active_channel \in [Clients -> 0 .. MaxChannels]
      /\ \A d \in Clients : active_channel[d] <= num_channels
  BY <1>3 DEF Orders, TypeOK, SessionType, ChannelType, ChannelIds
<1>5. /\ \A k \in 1 .. num_channels : k \in ChannelIds /\ channel_name'[k] = channel_name[k]
      /\ channel_name'[last] = n
  BY <1>3, <1>4 DEF ChannelIds
<1>6. n \notin RoomNames
  BY <1>3 DEF RoomNames, Exists, ChannelsNamed
<1>7. n \notin Within[c]
  BY <1>4, <1>6 DEF Within, RoomNames
<1>8. Hearing' = [Hearing EXCEPT ![c] = (@ \ Within[c]) \cup {n}]
  <2>1. /\ DOMAIN members = ChannelIds
        /\ \A k \in 1 .. num_channels : members[k] = active_members[k]
        /\ \A k \in 1 .. num_channels' : k > num_channels => members[k] = {}
    BY <1>3, <1>4 DEF ChannelIds
  <2>2. last \in 1 .. num_channels' /\ num_channels' \in Nat /\ num_channels <= num_channels'
        /\ num_channels' <= MaxChannels
    BY <1>3, <1>4 DEF ChannelIds
  <2> HIDE DEF members, last
  <2> QED BY <2>1, <2>2, <1>2, <1>3, <1>5, <1>7, EnteringHears
<1>9. RoomNames' = RoomNames \cup {n}
  BY <1>3, <1>4, <1>5 DEF RoomNames
<1>10. Within' = [Within EXCEPT ![c] = {n}]
  <2>1. \A d \in Clients : active_channel[d] # 0 =>
           channel_name'[active_channel[d]] = channel_name[active_channel[d]]
    BY <1>4, <1>5
  <2>2. \A d \in Clients : d # c => Within'[d] = Within[d]
    BY <2>1, <1>3, <1>4 DEF Within
  <2>3. Within'[c] = {n}
    BY <1>3, <1>4, <1>5 DEF Within, ChannelIds
  <2>4. Within = [x \in Clients |-> Within[x]] /\ Within' = [x \in Clients |-> Within'[x]]
    BY DEF Within
  <2> QED BY <2>2, <2>3, <2>4, OneChanged
<1>11. out_buf' = Room!Tell(Room!Tell(out_buf, {c}, Room!Notice("START:S")),
                            Room!Others(c), Room!Notice("SYS"))
  <2>1. BufOK(out_buf)
    BY DEF BufOK, Orders, TypeOK, BufferType
  <2>2. BufOK(Respond(out_buf, c, Reply("START:S")))
    BY <2>1, RespondType, ReplyType DEF Actions
  <2> QED BY <2>2, <1>3, NoticeTell, RespondAnswer, TellBroadcast, SameMessages DEF Orders, Calm
<1> HIDE DEF last, members
<1> QED BY <1>3, <1>6, <1>8, <1>9, <1>10, <1>11, SameNames DEF Room!Creates

\* The history is recounted in as many messages as the buffer takes.
LEMMA HistoryRecounts ==
    ASSUME NEW buf, NEW c, NEW n PROVE History(buf, c, n) = Room!Recount(buf, c, n)
BY SameMessages DEF History, Room!Recount, Smaller, Archived, Room!Told

LEMMA JoinEnters ==
    ASSUME Orders, Calm, UniqueChannels', NEW c \in Clients, NEW t \in TypedNames, Join(c, t)
    PROVE  \E n \in RoomNames : Room!Enters(c, n)
<1> USE BoundsAssumption
<1> DEFINE n == Resolve(user_name[c], t)
           old == active_channel[c]
           buf == LeaveNotice(Respond(out_buf, c, Reply("JOIN:S")), c)
<1>1. PICK last \in ChannelsNamed(n) : Joins(c, n, last)
  BY DEF Join
<1>2. /\ Requests(c) /\ pc = "read" /\ pc' = pc
      /\ UNCHANGED <<clients, count, named, user_name, num_channels, channel_name, archive, sent>>
  BY DEF Join, Requests, Reading, NextSlot, loopVars, tableVars, diskVars
<1>3. last \in 1 .. num_channels /\ channel_name[last] = n
  BY DEF ChannelsNamed
<1>4. ChannelsNamed(n) = {last} /\ FirstOf({last}) = last
  BY <1>3, ChannelOfName DEF Orders, Calm
<1> HIDE DEF n, old
<1>5. /\ active_members' = JoinBits(active_members, {last}, last, old, i)
      /\ active_channel' = [active_channel EXCEPT ![c] = last]
      /\ out_buf' = Broadcast(History(buf, c, n), Receivers(active_members'[last], {c}), Sys)
  BY <1>1, <1>4 DEF Joins, old
<1>6. /\ num_channels \in Nat /\ num_channels <= MaxChannels
      /\ active_members \in [ChannelIds -> SUBSET Slots]
      /\ active_channel \in [Clients -> 0 .. MaxChannels]
      /\ last \in ChannelIds
  BY <1>3 DEF Orders, TypeOK, SessionType, ChannelType, ChannelIds
<1>7. /\ n \in Within[c] => Hearing' = [Hearing EXCEPT ![c] = @ \ {n}]
      /\ n \notin Within[c] => Hearing' = [Hearing EXCEPT ![c] = (@ \ Within[c]) \cup {n}]
  <2>1. /\ DOMAIN active_members = ChannelIds /\ num_channels' = num_channels
        /\ channel_name' = channel_name /\ channel_name'[last] = n
        /\ active_members' = JoinBits(active_members, {last}, last, active_channel[c], i)
    BY <1>2, <1>3, <1>5, <1>6 DEF old
  <2> QED BY <2>1, <1>2, <1>3, <1>6, EnteringHears
<1>8. RoomNames' = RoomNames /\ n \in RoomNames /\ LoginName' = LoginName
  BY <1>2, <1>3, SameNames DEF RoomNames
<1>9. Within' = [Within EXCEPT ![c] = {n}]
  <2>1. \A d \in Clients : d # c => Within'[d] = Within[d]
    BY <1>2, <1>5, <1>6 DEF Within
  <2>2. Within'[c] = {n}
    BY <1>2, <1>3, <1>5, <1>6 DEF Within
  <2>3. Within = [x \in Clients |-> Within[x]] /\ Within' = [x \in Clients |-> Within'[x]]
    BY DEF Within
  <2> QED BY <2>1, <2>2, <2>3, OneChanged
<1>10. buf = Room!Tell(Room!Tell(out_buf, {c}, Room!Notice("JOIN:S")),
                       Room!Others(c), Room!Notice("SYS"))
  <2>1. BufOK(out_buf)
    BY DEF BufOK, Orders, TypeOK, BufferType
  <2>2. BufOK(Respond(out_buf, c, Reply("JOIN:S")))
    BY <2>1, RespondType, ReplyType DEF Actions
  <2> QED BY <2>2, NoticeTell, RespondAnswer, TellBroadcast, SameMessages DEF Orders, Calm
<1> HIDE DEF buf
<1>11. ASSUME NEW d \in Clients
       PROVE  d \in Receivers(active_members'[last], {c}) <=> d \in Room!Listeners({n}) \ {c}
  <2>1. clients[i] = c
    BY <1>2 DEF Requests, Reading
  <2>2. \A s : s # i => (s \in active_members'[last] <=> s \in active_members[last])
    BY <1>5, <1>6 DEF JoinBits
  <2>3. d # c => (d \in Receivers(active_members'[last], {c}) <=>
                  d \in Receivers(active_members[last], {}))
    BY <2>1, <2>2 DEF Receivers
  <2>4. d \in Receivers(active_members[last], {}) <=> d \in Room!Listeners({n})
    BY <1>3, Audience DEF Orders, Calm
  <2>5. c \notin Receivers(active_members'[last], {c})
    BY DEF Receivers
  <2> QED BY <2>3, <2>4, <2>5
<1>12. out_buf' = Room!Tell(Room!Recount(buf, c, n), Room!Listeners({n}) \ {c}, Room!Notice("SYS"))
  <2> DEFINE hearers == Room!Listeners({n}) \ {c}
             receivers == Receivers(active_members'[last], {c})
             recounted == History(buf, c, n)
  <2>1. \A d \in Clients : d \in receivers <=> d \in hearers
    BY <1>11
  <2>2. out_buf' = Broadcast(recounted, receivers, Sys)
    BY <1>5
  <2> HIDE DEF hearers, receivers, recounted
  <2>3. Broadcast(recounted, receivers, Sys) = Broadcast(recounted, hearers, Sys)
    BY <2>1, SameAudience
  <2>4. out_buf' = Room!Tell(recounted, hearers, Room!Notice("SYS"))
    BY <2>2, <2>3, TellBroadcast, SameMessages
  <2> QED BY <2>4, HistoryRecounts DEF hearers, recounted
<1>13. Hearing' = [Hearing EXCEPT ![c] = IF n \in Within[c] THEN @ \ {n}
                                         ELSE (@ \ Within[c]) \cup {n}]
  BY <1>7
<1>14. Room!Enters(c, n)
  BY <1>2, <1>8, <1>9, <1>10, <1>12, <1>13 DEF Room!Enters
<1> QED BY <1>8, <1>14

-----------------------------------------------------------------------------
LEMMA RoomsStep ==
    ASSUME Connected, NoTwins, Orders, Calm, [Next]_vars
    PROVE  [Room!RoomNext]_(Room!roomVars)
<1>1. /\ UniqueChannels'
      /\ \A c \in Clients : ~Disconnect(c) /\ ~PeerCloses(c) /\ ~ReadFails(c) /\ ~WriteFails(c)
  BY OpenStep, UniqueStep DEF Calm, Orders
<1>2. CASE Ending
  <2>1. PICK why \in Faults : Ends(why)
    BY <1>2, EndingEnds
  <2> QED BY <2>1, EndStops DEF Room!RoomNext
<1>3. CASE Launch
  BY <1>3, LaunchStarts DEF Room!RoomNext
<1>4. CASE Select \/ ReadsEnd \/ WritesEnd \/ UNCHANGED vars
  BY <1>4, HiddenStep
<1>5. ASSUME NEW c \in Clients, Accept(c) PROVE UNCHANGED Room!roomVars
  BY <1>5, AcceptHidden
<1>6. ASSUME NEW c \in Clients, Answers(c) PROVE [Room!RoomNext]_(Room!roomVars)
  BY <1>6, AnswersTell DEF Room!RoomNext
<1>7. ASSUME NEW c \in Clients, Leave(c) \/ Send(c) \/ Write(c) PROVE Room!RoomNext
  BY <1>7, LeaveLeaves, SendSays, WriteDelivers DEF Room!RoomNext
<1>8. ASSUME NEW c \in Clients, NEW u \in UserNames \cup {NoName}, LogIn(c, u)
      PROVE  Room!RoomNext
  BY <1>8, LogInLogsIn DEF Room!RoomNext
<1>9. ASSUME NEW c \in Clients, NEW u \in UserNames \cup {NoName}, Befriend(c, u)
      PROVE  Room!RoomNext
  BY <1>9, BefriendBefriends DEF Room!RoomNext
<1>10. ASSUME NEW c \in Clients, NEW n \in ChannelNames, StartChannel(c, n) PROVE Room!RoomNext
  BY <1>1, <1>10, StartCreates DEF Room!RoomNext
<1>11. ASSUME NEW c \in Clients, NEW n \in TypedNames, Join(c, n) PROVE Room!RoomNext
  BY <1>1, <1>11, JoinEnters DEF Room!RoomNext
<1> QED BY <1>1, <1>2, <1>3, <1>4, <1>5, <1>6, <1>7, <1>8, <1>9, <1>10, <1>11, StepKinds

(***************************************************************************)
(* The event loop, the slot table, the bitmaps and the lookups by name     *)
(* come to rooms with listeners (README:69-73, server.c, channels.c), with *)
(* any number of clients, channels and messages, as long as connections    *)
(* stay up, new bitmaps are clear and no friend request is repeated.       *)
(***************************************************************************)
THEOREM ServerImplementsRooms ==
    ASSUME Connected, NoTwins PROVE Spec => ImplementsRooms
<1> DEFINE Inv == Orders /\ Calm
<1>1. Init => Inv
  BY InitType, EmptyTableInv
     DEF Init, Orders, Stopped, Calm, OnlyOpen, InsideNamed, UniqueChannels, BitsCounted,
         NamedUsers, NoRoomsDown
<1>2. Inv /\ [Next]_vars => Inv'
  BY TypeStep, StoppedStep, TableStep, CalmStep DEF Orders
<1>3. Inv /\ [Next]_vars => [Room!RoomNext]_(Room!roomVars)
  BY RoomsStep
<1> QED BY <1>1, <1>2, <1>3, RoomsInit, PTL DEF Spec, ImplementsRooms, Room!RoomSpec
=============================================================================
