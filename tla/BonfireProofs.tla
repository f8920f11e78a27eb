----------------------------- MODULE BonfireProofs -----------------------------
(***************************************************************************)
(* What a client believes and where the server has it, for any number of   *)
(* clients, rooms, commands and requests on their way.  The client does    *)
(* not wait for answers, so the proof follows the requests in flight: the  *)
(* last of them that enters or leaves says where the client will be when   *)
(* the server comes to the end of the wire.                                *)
(***************************************************************************)
EXTENDS Bonfire, SequenceTheorems, TLAPS

Entering == {"JOIN", "START"}
Moving   == Entering \cup {"LEAVE"}

(***************************************************************************)
(* Types, and what TypeOK needs: rooms are asked for by a name of a room,  *)
(* an inbox is not overfull, archives hold numbers.                        *)
(***************************************************************************)
ClientType ==
    /\ at \in [Clients -> Places]
    /\ username \in [Clients -> UserNames \cup {NoName}]
    /\ in_channel \in [Clients -> BOOLEAN]
    /\ current_channel \in [Clients -> RoomNames \cup {NoName}]
    /\ channels_loaded \in [Clients -> BOOLEAN]
    /\ confused \in [Clients -> BOOLEAN]
    /\ told \in [Clients -> Entries \cup {"none"}]
    /\ refused \in [Clients -> BOOLEAN]
    /\ \A c \in Clients : in_channel[c] => current_channel[c] \in RoomNames

Addressed(q) ==
    \A j \in DOMAIN q : q[j].action \in Entering \cup {"SEND"} => q[j].data \in RoomNames
WireType ==
    /\ up \in [Clients -> Seq(Requests)] /\ \A c \in Clients : Addressed(up[c])
    /\ down \in [Clients -> Seq(Answers)]

Boxes(b) == b \in [Clients -> Seq(Answers)] /\ \A c \in Clients : Len(b[c]) <= Capacity
RoomType ==
    /\ Boxes(inbox)
    /\ inside \in [Clients -> SUBSET RoomNames]
    /\ \A n \in DOMAIN archive : archive[n] \in Seq(Nat)
    /\ said \in Nat

TypeInv == ClientType /\ WireType /\ RoomType

(***************************************************************************)
(* A client whose room is here, and who was refused last if no is TRUE, is *)
(* in d before the request at j is taken, or was refused there: the last   *)
(* request before j that moves the client enters d, or none moves it.      *)
(***************************************************************************)
Meant(here, no, q, j, d) ==
    \/ \E l \in DOMAIN q :
          /\ l < j /\ q[l].action \in Entering /\ q[l].data = d
          /\ \A m \in DOMAIN q : l < m /\ m < j => q[m].action \notin Moving
    \/ /\ \A m \in DOMAIN q : m < j => q[m].action \notin Moving
       /\ d \in here \/ no

\* After all of q is taken, a client whose room is here is in no room.
Out(here, q) ==
    \/ \E l \in DOMAIN q :
          /\ q[l].action = "LEAVE"
          /\ \A m \in DOMAIN q : l < m => q[m].action \notin Entering
    \/ (\A m \in DOMAIN q : q[m].action \notin Entering) /\ here = {}

Follows(c) ==
    /\ \A j \in DOMAIN up[c] : up[c][j].action = "SEND" =>
          Meant(inside[c], refused[c], up[c], j, up[c][j].data)
    /\ in_channel[c] =>
          Meant(inside[c], refused[c], up[c], Len(up[c]) + 1, current_channel[c])
    /\ ~in_channel[c] => Out(inside[c], up[c])
Beliefs == \A c \in Clients : Follows(c)

-----------------------------------------------------------------------------
\* The first of a queue, and the rest.
LEMMA TailFacts ==
    ASSUME NEW S, NEW q \in Seq(S), q # <<>>
    PROVE  /\ Tail(q) \in Seq(S) /\ Len(q) \in Nat \ {0} /\ DOMAIN q = 1 .. Len(q)
           /\ DOMAIN Tail(q) = 1 .. Len(q) - 1
           /\ \A j \in 1 .. Len(q) - 1 : Tail(q)[j] = q[j + 1]
           /\ Head(q) = q[1] /\ Head(q) \in S /\ Len(Tail(q)) = Len(q) - 1
BY HeadTailProperties, LenProperties, EmptySeq

\* Requests are put at the end of the wire, and nothing before them moves.
LEMMA AddFacts ==
    ASSUME NEW S, NEW q \in Seq(S), NEW r \in Seq(S)
    PROVE  /\ q \o r \in Seq(S) /\ Len(q) \in Nat /\ Len(r) \in Nat
           /\ DOMAIN q = 1 .. Len(q) /\ DOMAIN r = 1 .. Len(r)
           /\ DOMAIN (q \o r) = 1 .. Len(q) + Len(r) /\ Len(q \o r) = Len(q) + Len(r)
           /\ \A j \in 1 .. Len(q) : (q \o r)[j] = q[j]
           /\ \A j \in 1 .. Len(r) : (q \o r)[Len(q) + j] = r[j]
<1>1. q \o r \in Seq(S) /\ Len(q \o r) = Len(q) + Len(r)
  BY ConcatProperties
<1>2. /\ Len(q) \in Nat /\ Len(r) \in Nat
      /\ DOMAIN q = 1 .. Len(q) /\ DOMAIN r = 1 .. Len(r)
      /\ DOMAIN (q \o r) = 1 .. Len(q \o r)
  BY <1>1, LenProperties
<1>3. \A j \in 1 .. Len(q) + Len(r) :
         (q \o r)[j] = IF j <= Len(q) THEN q[j] ELSE r[j - Len(q)]
  BY ConcatProperties
<1>4. \A j \in 1 .. Len(q) : (q \o r)[j] = q[j]
  BY <1>2, <1>3
<1>5. ASSUME NEW j \in 1 .. Len(r) PROVE (q \o r)[Len(q) + j] = r[j]
  <2>1. Len(q) + j \in 1 .. Len(q) + Len(r) /\ ~(Len(q) + j <= Len(q)) /\ Len(q) + j - Len(q) = j
    BY <1>2
  <2> QED BY <2>1, <1>3
<1> QED BY <1>1, <1>2, <1>4, <1>5

LEMMA TwoAdded ==
    ASSUME NEW S, NEW q \in Seq(S), NEW r \in Seq(S)
    PROVE  Len(r) = 2 =>
              /\ Len(q) \in Nat /\ DOMAIN (q \o r) = 1 .. Len(q) + 2 /\ Len(q \o r) = Len(q) + 2
              /\ (q \o r)[Len(q) + 1] = r[1] /\ (q \o r)[Len(q) + 2] = r[2]
<1> DEFINE s == q \o r
           n == Len(q)
           m == Len(r)
<1>1. /\ n \in Nat /\ DOMAIN s = 1 .. n + m /\ Len(s) = n + m
      /\ \A j \in 1 .. m : s[n + j] = r[j]
  BY AddFacts
<1> HIDE DEF s, n, m
<1>2. m = 2 => s[n + 1] = r[1] /\ s[n + 2] = r[2]
  BY <1>1
<1>3. m = 2 => n \in Nat /\ DOMAIN s = 1 .. n + 2 /\ Len(s) = n + 2
  BY <1>1
<1> QED BY <1>2, <1>3 DEF s, n, m

-----------------------------------------------------------------------------
(***************************************************************************)
(* Types of the rooms.                                                     *)
(***************************************************************************)
Actions == {"LOGN:S", "LOGN:F", "SYS", "ONLINE", "FRIEND", "LEAVE:S", "SEND", "HIST"} \cup Entries

LEMMA MessageTypes ==
    /\ \A a \in Actions : Notice(a) \in Answers
    /\ \A a \in Actions, id \in Nat : Chat(a, id) \in Answers
BY DEF Notice, Chat, Answers, Actions

LEMMA TellType ==
    ASSUME NEW b, Boxes(b), NEW S, NEW m \in Answers
    PROVE  Boxes(Tell(b, S, m))
<1> USE CapacityAssumption
<1>1. ASSUME NEW c \in Clients
      PROVE  Tell(b, S, m)[c] \in Seq(Answers) /\ Len(Tell(b, S, m)[c]) <= Capacity
  <2>1. b[c] \in Seq(Answers) /\ Len(b[c]) <= Capacity
    BY DEF Boxes
  <2>2. Append(b[c], m) \in Seq(Answers) /\ Len(Append(b[c], m)) = Len(b[c]) + 1 /\ Len(b[c]) \in Nat
    BY <2>1, AppendProperties, LenProperties
  <2> QED BY <2>1, <2>2 DEF Tell
<1> QED BY <1>1 DEF Boxes, Tell

\* A function on 1 .. n is a sequence of length n.
LEMMA FunctionIsSequence ==
    ASSUME NEW S, NEW n \in Nat, NEW f \in [1 .. n -> S]
    PROVE  f \in Seq(S) /\ Len(f) = n
<1>1. f \in Seq(S)
  BY SeqDef
<1>2. DOMAIN f = 1 .. n /\ DOMAIN f = 1 .. Len(f) /\ Len(f) \in Nat
  BY <1>1, LenProperties
<1> QED BY <1>1, <1>2

LEMMA RecountType ==
    ASSUME RoomType, NEW b, Boxes(b), NEW c \in Clients, NEW n
    PROVE  Boxes(Recount(b, c, n))
<1> USE CapacityAssumption
<1> DEFINE free == Capacity - Len(b[c])
           take == IF Len(Told(n)) < free THEN Len(Told(n)) ELSE free
           hist == [j \in 1 .. take |-> Chat("HIST", Told(n)[j])]
<1>1. Told(n) \in Seq(Nat) /\ b[c] \in Seq(Answers) /\ Len(b[c]) <= Capacity
  BY DEF RoomType, Told, Boxes
<1>2. /\ Len(Told(n)) \in Nat /\ Len(b[c]) \in Nat
      /\ \A j \in 1 .. Len(Told(n)) : Told(n)[j] \in Nat
  BY <1>1, LenProperties
<1>3. take \in Nat /\ take <= Len(Told(n)) /\ Len(b[c]) + take <= Capacity
  <2>1. CASE Len(Told(n)) < free
    BY <1>1, <1>2, <2>1
  <2>2. CASE ~(Len(Told(n)) < free)
    <3>1. take = free
      BY <2>2
    <3>2. free \in Nat /\ free <= Len(Told(n)) /\ Len(b[c]) + free <= Capacity
      BY <1>1, <1>2, <2>2
    <3> QED BY <3>1, <3>2
  <2> QED BY <2>1, <2>2
<1> HIDE DEF take
<1>4. \A j \in 1 .. take : Chat("HIST", Told(n)[j]) \in Answers
  BY <1>2, <1>3, MessageTypes DEF Actions
<1>5. hist \in Seq(Answers) /\ Len(hist) = take
  BY <1>3, <1>4, FunctionIsSequence
<1>6. Recount(b, c, n) = [b EXCEPT ![c] = @ \o hist]
  BY DEF Recount, take
<1> HIDE DEF hist
<1>7. b[c] \o hist \in Seq(Answers) /\ Len(b[c] \o hist) <= Capacity
  BY <1>1, <1>3, <1>5, ConcatProperties
<1> QED BY <1>6, <1>7 DEF Boxes

\* What a step does to the rooms.
Rooming ==
    \/ UNCHANGED roomVars \/ Start
    \/ \E c \in Clients :
          \/ \E a \in Actions : Tells(c, a)
          \/ \E u : LogsIn(c, u)
          \/ \E n \in RoomNames : Creates(c, n) \/ Enters(c, n)
          \/ \E d, n : Befriends(c, d, n)
          \/ Leaves(c) \/ Says(c) \/ Delivers(c)

LEMMA RoomingType == ASSUME RoomType, Rooming PROVE RoomType'
<1> USE MessageTypes DEF Actions
<1> DEFINE Quiet == inside' = inside /\ archive' = archive /\ said' = said
<1>0. ASSUME Quiet, Boxes(inbox') PROVE RoomType'
  BY <1>0 DEF RoomType
<1>1. CASE UNCHANGED roomVars \/ Start
  BY <1>0, <1>1 DEF roomVars, Start, RoomType
<1>2. ASSUME NEW c \in Clients, NEW a \in Actions, Tells(c, a) PROVE RoomType'
  BY <1>0, <1>2, TellType DEF Tells, Answer, RoomType
<1>3. ASSUME NEW c \in Clients, NEW u, LogsIn(c, u) PROVE RoomType'
  BY <1>0, <1>3, TellType DEF LogsIn, Answer, RoomType
<1>4. ASSUME NEW c \in Clients, NEW n \in RoomNames, Creates(c, n) PROVE RoomType'
  <2>1. Boxes(Tell(inbox, {c}, Notice("START:S")))
    BY TellType DEF RoomType, Entries
  <2>2. Boxes(inbox')
    BY <1>4, <2>1, TellType DEF Creates
  <2>3. inside' = [inside EXCEPT ![c] = {n}] /\ archive' = archive /\ said' = said
    BY <1>4 DEF Creates
  <2> QED BY <2>2, <2>3 DEF RoomType
<1>5. ASSUME NEW c \in Clients, NEW n \in RoomNames, Enters(c, n) PROVE RoomType'
  <2> DEFINE entered == Tell(Tell(inbox, {c}, Notice("JOIN:S")), Others(c), Notice("SYS"))
  <2>1. Boxes(Tell(inbox, {c}, Notice("JOIN:S")))
    BY TellType DEF RoomType, Entries
  <2>2. Boxes(entered)
    BY <2>1, TellType
  <2>3. PICK S : inbox' = Tell(Recount(entered, c, n), S, Notice("SYS"))
    BY <1>5 DEF Enters
  <2> HIDE DEF entered
  <2>4. Boxes(inbox')
    BY <2>2, <2>3, RecountType, TellType
  <2>5. inside' = [inside EXCEPT ![c] = {n}] /\ archive' = archive /\ said' = said
    BY <1>5 DEF Enters
  <2> QED BY <2>4, <2>5 DEF RoomType
<1>6. ASSUME NEW c \in Clients, NEW d, NEW n, Befriends(c, d, n) PROVE RoomType'
  <2>1. Boxes(Tell(inbox, {d}, Notice("SYS")))
    BY TellType DEF RoomType
  <2> QED BY <1>0, <1>6, <2>1, TellType DEF Befriends
<1>7. ASSUME NEW c \in Clients, Leaves(c) PROVE RoomType'
  <2>1. Boxes(Tell(inbox, Others(c), Notice("SYS")))
    BY TellType DEF RoomType
  <2>2. Boxes(inbox')
    BY <1>7, <2>1, TellType DEF Leaves
  <2>3. inside' = [inside EXCEPT ![c] = {}] /\ archive' = archive /\ said' = said
    BY <1>7 DEF Leaves
  <2> QED BY <2>2, <2>3 DEF RoomType
<1>8. ASSUME NEW c \in Clients, Says(c) PROVE RoomType'
  <2>1. said' = said + 1 /\ said' \in Nat /\ inside' = inside
    BY <1>8 DEF Says, RoomType
  <2>2. PICK n \in inside[c] :
           /\ archive' = IF n \in Unfiled THEN archive
                         ELSE [m \in DOMAIN archive \cup {n} |->
                                  IF m = n THEN Append(Told(n), said + 1) ELSE archive[m]]
           /\ inbox' = Tell(inbox, Listeners({n}), Chat("SEND", said + 1))
    BY <1>8 DEF Says
  <2>3. Boxes(inbox')
    BY <2>1, <2>2, TellType DEF RoomType
  <2>4. Told(n) \in Seq(Nat)
    BY DEF Told, RoomType
  <2>5. Append(Told(n), said + 1) \in Seq(Nat)
    BY <2>1, <2>4, AppendProperties
  <2>6. \A m \in DOMAIN archive' : archive'[m] \in Seq(Nat)
    BY <2>2, <2>5 DEF RoomType
  <2> QED BY <2>1, <2>3, <2>6 DEF RoomType
<1>9. ASSUME NEW c \in Clients, Delivers(c) PROVE RoomType'
  <2>1. Boxes(inbox')
    BY <1>9, CapacityAssumption DEF Delivers, RoomType, Boxes
  <2> QED BY <1>0, <1>9, <2>1 DEF Delivers
<1> HIDE DEF Quiet
<1> QED BY <1>1, <1>2, <1>3, <1>4, <1>5, <1>6, <1>7, <1>8, <1>9 DEF Rooming

LEMMA RoomingStep == ASSUME TypeInv, [Next]_vars PROVE Rooming
<1>1. ASSUME NEW c \in Clients, NEW a, Takes(c, a), a \in {"START", "JOIN"}
      PROVE  Asked(c) \in RoomNames
  <2>1. up[c] \in Seq(Requests) /\ up[c] # <<>> /\ Head(up[c]).action = a
    BY <1>1 DEF Takes, TypeInv, WireType
  <2>2. 1 \in DOMAIN up[c] /\ Head(up[c]) = up[c][1]
    BY <2>1, TailFacts
  <2> QED BY <2>1, <2>2, <1>1 DEF Asked, TypeInv, WireType, Addressed, Entering
<1>2. ASSUME NEW c \in Clients, Serve(c) PROVE Rooming
  <2>1. CASE TakesLogin(c)
    BY <2>1 DEF TakesLogin, Rooming, Actions
  <2>2. CASE TakesStart(c)
    BY <1>1, <2>2 DEF TakesStart, Rooming, Actions, Entries
  <2>3. CASE TakesJoin(c)
    BY <1>1, <2>3 DEF TakesJoin, Rooming, Actions, Entries
  <2>4. CASE TakesLeave(c) \/ TakesOnline(c) \/ TakesSend(c)
    BY <2>4 DEF TakesLeave, TakesOnline, TakesSend, Rooming, Actions
  <2>5. CASE TakesFriend(c)
    BY <2>5 DEF TakesFriend, Rooming, Actions
  <2> QED BY <1>2, <2>1, <2>2, <2>3, <2>4, <2>5 DEF Serve
<1>3. ASSUME NEW c \in Clients, Write(c) PROVE Rooming
  BY <1>3 DEF Write, Rooming
<1>4. ASSUME NEW c \in Clients,
             \/ setup_socket(c) \/ handle_login(c) \/ render_menu(c) \/ handle_server_message(c)
             \/ Users(c)
      PROVE  Rooming
  BY <1>4 DEF setup_socket, handle_login, render_menu, handle_server_message, Users, Command,
              Types, JoinCommand, CreateCommand, LeaveCommand, ChannelsCommand, Line,
              FriendCommand, get_username, Rooming
<1>5. CASE Launch \/ UNCHANGED vars
  BY <1>5 DEF Launch, vars, Rooming
<1> QED BY <1>2, <1>3, <1>4, <1>5 DEF Next, Programs

-----------------------------------------------------------------------------
(***************************************************************************)
(* Types of the clients and of the wires.                                  *)
(***************************************************************************)
LEMMA AddType ==
    ASSUME WireType, NEW c \in Clients, NEW r \in Seq(Requests), Addressed(r), Sends(c, r)
    PROVE  up' \in [Clients -> Seq(Requests)] /\ \A d \in Clients : Addressed(up'[d])
<1>1. up[c] \in Seq(Requests) /\ Addressed(up[c])
  BY DEF WireType
<1>2. up[c] \o r \in Seq(Requests)
  BY <1>1, AddFacts
<1>3. Addressed(up[c] \o r)
  <2>1. ASSUME NEW j \in 1 .. Len(up[c]) + Len(r)
        PROVE  \/ j \in DOMAIN up[c] /\ (up[c] \o r)[j] = up[c][j]
               \/ j - Len(up[c]) \in DOMAIN r /\ (up[c] \o r)[j] = r[j - Len(up[c])]
    <3>1. Len(up[c]) \in Nat /\ Len(r) \in Nat
      BY <1>1, AddFacts
    <3>2. CASE j <= Len(up[c])
      BY <1>1, <3>1, <3>2, AddFacts
    <3>3. CASE j > Len(up[c])
      <4>1. j - Len(up[c]) \in 1 .. Len(r) /\ Len(up[c]) + (j - Len(up[c])) = j
        BY <3>1, <3>3
      <4> QED BY <4>1, <1>1, AddFacts
    <3>4. j <= Len(up[c]) \/ j > Len(up[c])
      BY <3>1
    <3> QED BY <3>2, <3>3, <3>4
  <2>2. DOMAIN (up[c] \o r) = 1 .. Len(up[c]) + Len(r)
    BY <1>1, AddFacts
  <2> QED BY <1>1, <2>1, <2>2 DEF Addressed
<1> QED BY <1>2, <1>3 DEF Sends, WireType

LEMMA DropType ==
    ASSUME WireType, NEW c \in Clients, up[c] # <<>>, up' = [up EXCEPT ![c] = Tail(@)]
    PROVE  up' \in [Clients -> Seq(Requests)] /\ \A d \in Clients : Addressed(up'[d])
<1>1. up[c] \in Seq(Requests) /\ Addressed(up[c])
  BY DEF WireType
<1>2. Tail(up[c]) \in Seq(Requests) /\ Addressed(Tail(up[c]))
  BY <1>1, TailFacts DEF Addressed
<1> QED BY <1>2 DEF WireType

\* What is sent for a command.
LEMMA RequestType ==
    \A a \in {"LOGIN", "START", "JOIN", "LEAVE", "ONLINE", "SEND", "FRIEND"}, d \in AllNames :
        Request(a, d) \in Requests
BY DEF Request, Requests

LEMMA OneRequest ==
    ASSUME NEW a \in {"LOGIN", "START", "JOIN", "LEAVE", "ONLINE", "SEND", "FRIEND"},
           NEW d \in AllNames, a \in Entering \cup {"SEND"} => d \in RoomNames
    PROVE  <<Request(a, d)>> \in Seq(Requests) /\ Addressed(<<Request(a, d)>>)
BY RequestType DEF Addressed, Request

LEMMA TwoRequests ==
    ASSUME NEW a \in {"LOGIN", "START", "JOIN", "LEAVE", "ONLINE", "SEND", "FRIEND"},
           NEW d \in AllNames, a \in Entering \cup {"SEND"} => d \in RoomNames,
           NEW b \in {"LOGIN", "START", "JOIN", "LEAVE", "ONLINE", "SEND", "FRIEND"},
           NEW e \in AllNames, b \in Entering \cup {"SEND"} => e \in RoomNames
    PROVE  /\ <<Request(a, d), Request(b, e)>> \in Seq(Requests)
           /\ Addressed(<<Request(a, d), Request(b, e)>>)
BY RequestType DEF Addressed, Request

LEMMA TwoLong ==
    ASSUME NEW x, NEW y
    PROVE  /\ DOMAIN <<x, y>> = {1, 2} /\ Len(<<x, y>>) = 2
           /\ <<x, y>>[1] = x /\ <<x, y>>[2] = y
OBVIOUS

\* What a step does to the wires.
Adding(c) ==
    \/ \E u \in UserNames \cup {NoName} : Sends(c, <<Request("LOGIN", u)>>)
    \/ \E a \in {"JOIN", "START"}, n \in RoomNames :
          Sends(c, <<Request("ONLINE", NoName), Request(a, n)>>)
    \/ Sends(c, LeaveRequests(c))
    \/ Sends(c, <<Request("ONLINE", NoName)>>)
    \/ in_channel[c] /\ Sends(c, <<Request("SEND", current_channel[c])>>)
    \/ \E u \in UserNames : Sends(c, <<Request("FRIEND", u)>>)

LEMMA AddingType ==
    ASSUME ClientType, WireType, NEW c \in Clients, Adding(c)
    PROVE  up' \in [Clients -> Seq(Requests)] /\ \A d \in Clients : Addressed(up'[d])
<1> USE DEF Entering, AllNames
<1>1. ASSUME NEW u \in UserNames \cup {NoName}, Sends(c, <<Request("LOGIN", u)>>)
      PROVE  up' \in [Clients -> Seq(Requests)] /\ \A d \in Clients : Addressed(up'[d])
  BY <1>1, OneRequest, AddType
<1>2. ASSUME NEW a \in {"JOIN", "START"}, NEW n \in RoomNames,
             Sends(c, <<Request("ONLINE", NoName), Request(a, n)>>)
      PROVE  up' \in [Clients -> Seq(Requests)] /\ \A d \in Clients : Addressed(up'[d])
  BY <1>2, TwoRequests, AddType
<1>3. CASE Sends(c, <<Request("ONLINE", NoName)>>)
  BY <1>3, OneRequest, AddType
<1>4. CASE Sends(c, <<Request("LEAVE", NoName), Request("ONLINE", NoName)>>)
  BY <1>4, TwoRequests, AddType
<1>5. CASE in_channel[c] /\ Sends(c, <<Request("SEND", current_channel[c])>>)
  BY <1>5, OneRequest, AddType DEF ClientType
<1>6. ASSUME NEW u \in UserNames, Sends(c, <<Request("FRIEND", u)>>)
      PROVE  up' \in [Clients -> Seq(Requests)] /\ \A d \in Clients : Addressed(up'[d])
  BY <1>6, OneRequest, AddType
<1> QED BY <1>1, <1>2, <1>3, <1>4, <1>5, <1>6 DEF Adding, LeaveRequests

LEMMA WireStep == ASSUME TypeInv, [Next]_vars PROVE WireType'
<1> USE DEF TypeInv
<1>1. \A c \in Clients : inbox[c] \in Seq(Answers) /\ down[c] \in Seq(Answers)
  BY DEF RoomType, Boxes, WireType
<1>2. ASSUME NEW c \in Clients, Serve(c) PROVE WireType'
  <2>1. PICK a : Takes(c, a)
    BY <1>2 DEF Serve, TakesLogin, TakesStart, TakesJoin, TakesLeave, TakesOnline, TakesSend,
                TakesFriend
  <2>2. up[c] # <<>> /\ up' = [up EXCEPT ![c] = Tail(@)] /\ down' = down
    BY <2>1 DEF Takes
  <2> QED BY <2>2, DropType DEF WireType
<1>3. ASSUME NEW c \in Clients, Write(c) PROVE WireType'
  <2>1. down[c] \o inbox[c] \in Seq(Answers)
    BY <1>1, ConcatProperties
  <2>2. down' = [down EXCEPT ![c] = down[c] \o inbox[c]] /\ up' = up
    BY <1>3 DEF Write
  <2> QED BY <2>1, <2>2 DEF WireType
<1>4. ASSUME NEW c \in Clients, setup_socket(c) \/ render_menu(c) PROVE WireType'
  BY <1>4 DEF setup_socket, render_menu, WireType
<1>5. ASSUME NEW c \in Clients, down[c] # <<>>, down' = [down EXCEPT ![c] = Tail(@)]
      PROVE  down' \in [Clients -> Seq(Answers)]
  <2>1. Tail(down[c]) \in Seq(Answers)
    BY <1>1, <1>5, TailFacts
  <2> QED BY <1>5, <2>1 DEF WireType
<1>6. ASSUME NEW c \in Clients, handle_server_message(c) PROVE WireType'
  BY <1>5, <1>6 DEF handle_server_message, WireType
<1>7. ASSUME NEW c \in Clients, handle_login(c) PROVE WireType'
  <2>1. down' \in [Clients -> Seq(Answers)]
    BY <1>5, <1>7 DEF handle_login
  <2>2. Adding(c) \/ up' = up
    BY <1>7 DEF handle_login, Adding
  <2> QED BY <2>1, <2>2, AddingType DEF WireType
<1>8. ASSUME NEW c \in Clients, Users(c) PROVE WireType'
  <2>1. Adding(c) \/ up' = up
    BY <1>8 DEF Users, Command, Types, JoinCommand, CreateCommand, EnterCommand, LeaveCommand,
                ChannelsCommand, Line, FriendCommand, get_username, Adding
  <2>2. down' = down
    BY <1>8 DEF Users, Command, Types, JoinCommand, CreateCommand, LeaveCommand,
                ChannelsCommand, Line, FriendCommand, get_username
  <2> QED BY <2>1, <2>2, AddingType DEF WireType
<1>9. CASE Launch \/ UNCHANGED vars
  BY <1>9 DEF Launch, vars, WireType
<1> QED BY <1>2, <1>3, <1>4, <1>6, <1>7, <1>8, <1>9 DEF Next, Programs

LEMMA ClientStep == ASSUME TypeInv, [Next]_vars PROVE ClientType'
<1> USE DEF TypeInv, clientVars
<1>1. ASSUME NEW c \in Clients, Serve(c) PROVE ClientType'
  <2>1. UNCHANGED <<clientVars, confused, told>>
    BY <1>1 DEF Serve, TakesLogin, TakesStart, TakesJoin, TakesLeave, TakesOnline, TakesSend,
                TakesFriend, Takes
  <2>2. refused' \in [Clients -> BOOLEAN]
    <3>1. refused' = refused \/ \E no \in BOOLEAN : refused' = [refused EXCEPT ![c] = no]
      <4>1. (Asked(c) \in rooms) \in BOOLEAN /\ (Asked(c) \notin rooms) \in BOOLEAN
        OBVIOUS
      <4> QED BY <1>1, <4>1, Zenon
              DEF Serve, TakesLogin, TakesStart, TakesJoin, TakesLeave, TakesOnline, TakesSend,
                  TakesFriend, Answered
    <3> QED BY <3>1, Zenon DEF ClientType
  <2> QED BY <2>1, <2>2 DEF ClientType
<1>2. ASSUME NEW c \in Clients, Write(c) \/ setup_socket(c) \/ render_menu(c) PROVE ClientType'
  BY <1>2 DEF Write, setup_socket, render_menu, ClientType, Places
<1>3. ASSUME NEW c \in Clients, handle_login(c) PROVE ClientType'
  <2>1. at' \in [Clients -> Places] /\ confused' \in [Clients -> BOOLEAN]
    BY <1>3 DEF handle_login, ClientType, Places
  <2> QED BY <1>3, <2>1 DEF handle_login, ClientType
<1>4. ASSUME NEW c \in Clients, handle_server_message(c) PROVE ClientType'
  <2>1. channels_loaded' \in [Clients -> BOOLEAN] /\ told' \in [Clients -> Entries \cup {"none"}]
    BY <1>4 DEF handle_server_message, ClientType
  <2> QED BY <1>4, <2>1 DEF handle_server_message, ClientType
<1>5. ASSUME NEW c \in Clients, NEW u \in UserNames \cup {NoName}, get_username(c, u)
      PROVE  ClientType'
  BY <1>5 DEF get_username, ClientType, Places
<1>6. ASSUME NEW c \in Clients, Command(c) PROVE ClientType'
  <2>1. /\ UNCHANGED <<at, username, channels_loaded, confused, told, refused>>
        /\ \/ UNCHANGED <<in_channel, current_channel>>
           \/ \E n \in RoomNames : /\ in_channel' = [in_channel EXCEPT ![c] = TRUE]
                                   /\ current_channel' = [current_channel EXCEPT ![c] = n]
           \/ /\ in_channel' = [in_channel EXCEPT ![c] = FALSE]
              /\ current_channel' = [current_channel EXCEPT ![c] = NoName]
    BY <1>6 DEF Command, Types, JoinCommand, CreateCommand, EnterCommand, LeaveCommand,
                ChannelsCommand, Line, FriendCommand
  <2> QED BY <2>1 DEF ClientType
<1>7. CASE Launch \/ UNCHANGED vars
  BY <1>7 DEF Launch, vars, ClientType
<1> QED BY <1>1, <1>2, <1>3, <1>4, <1>5, <1>6, <1>7 DEF Next, Programs, Users

LEMMA TypeInvInit == Init => TypeInv
<1> SUFFICES ASSUME Init PROVE TypeInv
  OBVIOUS
<1>1. ClientType
  BY DEF Init, ClientType, Places
<1>2. WireType
  BY DEF Init, WireType, Addressed
<1>3. RoomType
  BY CapacityAssumption DEF Init, RoomInit, Down, RoomType, Boxes
<1> QED BY <1>1, <1>2, <1>3 DEF TypeInv

LEMMA TypeInvHolds == Spec => []TypeInv
<1>1. TypeInv /\ [Next]_vars => TypeInv'
  BY RoomingStep, RoomingType, WireStep, ClientStep DEF TypeInv
<1> QED BY <1>1, TypeInvInit, PTL DEF Spec

(***************************************************************************)
(* Every variable keeps its type: whatever is typed, a request for a room  *)
(* names a room, and an answer is one that handle_server_message knows     *)
(* (client.c:215-306, 592-700).                                            *)
(***************************************************************************)
THEOREM ChatTypeCorrect == Spec => []TypeOK
<1>1. TypeInv => TypeOK
  BY DEF TypeInv, ClientType, WireType, RoomType, Boxes, TypeOK
<1> QED BY <1>1, TypeInvHolds, PTL

-----------------------------------------------------------------------------
(***************************************************************************)
(* Requests in flight.  What is added at the end moves no belief; what is  *)
(* taken from the front moves the client as it was believed.               *)
(***************************************************************************)
LEMMA MeantAdds ==
    ASSUME NEW q \in Seq(Requests), NEW r \in Seq(Requests), NEW here, NEW no, NEW d,
           NEW j \in 1 .. Len(q) + 1, Meant(here, no, q, j, d)
    PROVE  Meant(here, no, q \o r, j, d)
<1>1. /\ DOMAIN q = 1 .. Len(q) /\ Len(q) \in Nat /\ Len(r) \in Nat
      /\ DOMAIN (q \o r) = 1 .. Len(q) + Len(r)
      /\ \A l \in 1 .. Len(q) : (q \o r)[l] = q[l]
  BY AddFacts
<1> DEFINE s == q \o r
<1>2. \A l \in DOMAIN s : l < j => l \in DOMAIN q /\ s[l] = q[l]
  BY <1>1
<1>3. \A l \in DOMAIN q : l \in DOMAIN s /\ s[l] = q[l]
  BY <1>1
<1> HIDE DEF s
<1>4. Meant(here, no, s, j, d)
  BY <1>1, <1>2, <1>3 DEF Meant
<1> QED BY <1>4 DEF s

LEMMA MeantPasts ==
    ASSUME NEW q \in Seq(Requests), NEW r \in Seq(Requests), NEW here, NEW no, NEW d,
           Meant(here, no, q, Len(q) + 1, d), \A j \in DOMAIN r : r[j].action \notin Moving
    PROVE  Meant(here, no, q \o r, Len(q \o r) + 1, d)
<1>1. /\ DOMAIN q = 1 .. Len(q) /\ DOMAIN r = 1 .. Len(r) /\ Len(q) \in Nat /\ Len(r) \in Nat
      /\ DOMAIN (q \o r) = 1 .. Len(q) + Len(r) /\ Len(q \o r) = Len(q) + Len(r)
      /\ \A l \in 1 .. Len(q) : (q \o r)[l] = q[l]
      /\ \A l \in 1 .. Len(r) : (q \o r)[Len(q) + l] = r[l]
  BY AddFacts
<1> DEFINE s == q \o r
<1>2. \A l \in DOMAIN q : l \in DOMAIN s /\ s[l] = q[l] /\ l < Len(q) + 1 /\ l < Len(s) + 1
  BY <1>1
<1>3. ASSUME NEW l \in DOMAIN s, l \notin DOMAIN q PROVE s[l].action \notin Moving
  <2>1. l - Len(q) \in 1 .. Len(r) /\ Len(q) + (l - Len(q)) = l
    BY <1>1, <1>3
  <2> QED BY <2>1, <1>1
<1> HIDE DEF s
<1>4. Meant(here, no, s, Len(s) + 1, d)
  BY <1>2, <1>3 DEF Meant
<1> QED BY <1>4 DEF s

LEMMA OutAdds ==
    ASSUME NEW q \in Seq(Requests), NEW r \in Seq(Requests), NEW here,
           Out(here, q), \A j \in DOMAIN r : r[j].action \notin Entering
    PROVE  Out(here, q \o r)
<1>1. /\ DOMAIN q = 1 .. Len(q) /\ DOMAIN r = 1 .. Len(r) /\ Len(q) \in Nat /\ Len(r) \in Nat
      /\ DOMAIN (q \o r) = 1 .. Len(q) + Len(r)
      /\ \A l \in 1 .. Len(q) : (q \o r)[l] = q[l]
      /\ \A l \in 1 .. Len(r) : (q \o r)[Len(q) + l] = r[l]
  BY AddFacts
<1> DEFINE s == q \o r
<1>2. \A l \in DOMAIN q : l \in DOMAIN s /\ s[l] = q[l]
  BY <1>1
<1>3. ASSUME NEW l \in DOMAIN s, l \notin DOMAIN q PROVE s[l].action \notin Entering
  <2>1. l - Len(q) \in 1 .. Len(r) /\ Len(q) + (l - Len(q)) = l
    BY <1>1, <1>3
  <2> QED BY <2>1, <1>1
<1> HIDE DEF s
<1>4. Out(here, s)
  BY <1>2, <1>3 DEF Out
<1> QED BY <1>4 DEF s

\* The SENDs that were there, and one that is new.
LEMMA SendsMeant ==
    ASSUME NEW q \in Seq(Requests), NEW r \in Seq(Requests), NEW here, NEW no,
           \A j \in DOMAIN q : q[j].action = "SEND" => Meant(here, no, q, j, q[j].data),
           \A j \in DOMAIN r : r[j].action = "SEND" =>
              j = 1 /\ Meant(here, no, q, Len(q) + 1, r[j].data)
    PROVE  \A j \in DOMAIN (q \o r) : (q \o r)[j].action = "SEND" =>
              Meant(here, no, q \o r, j, (q \o r)[j].data)
<1>1. /\ DOMAIN q = 1 .. Len(q) /\ DOMAIN r = 1 .. Len(r) /\ Len(q) \in Nat /\ Len(r) \in Nat
      /\ DOMAIN (q \o r) = 1 .. Len(q) + Len(r)
      /\ \A l \in 1 .. Len(q) : (q \o r)[l] = q[l]
      /\ \A l \in 1 .. Len(r) : (q \o r)[Len(q) + l] = r[l]
  BY AddFacts
<1> SUFFICES ASSUME NEW j \in 1 .. Len(q) + Len(r), (q \o r)[j].action = "SEND"
             PROVE  Meant(here, no, q \o r, j, (q \o r)[j].data)
  BY <1>1
<1>2. CASE j <= Len(q)
  <2>1. j \in DOMAIN q /\ (q \o r)[j] = q[j] /\ j \in 1 .. Len(q) + 1
    BY <1>1, <1>2
  <2>2. Meant(here, no, q, j, q[j].data)
    BY <2>1
  <2> QED BY <2>1, <2>2, MeantAdds
<1>3. CASE j > Len(q)
  <2>1. j - Len(q) \in 1 .. Len(r) /\ Len(q) + (j - Len(q)) = j
    BY <1>1, <1>3
  <2>2. (q \o r)[j] = r[j - Len(q)]
    BY <2>1, <1>1
  <2>3. j - Len(q) = 1 /\ Meant(here, no, q, Len(q) + 1, r[j - Len(q)].data)
    BY <2>1, <2>2, <1>1
  <2>4. j = Len(q) + 1 /\ j \in 1 .. Len(q) + 1
    BY <2>1, <2>3, <1>1
  <2>5. Meant(here, no, q \o r, Len(q) + 1, r[j - Len(q)].data)
    BY <2>3, <2>4, MeantAdds
  <2> QED BY <2>2, <2>4, <2>5
<1> QED BY <1>1, <1>2, <1>3

-----------------------------------------------------------------------------
\* The server takes the first request.
LEMMA MeantTaken ==
    ASSUME NEW q \in Seq(Requests), q # <<>>, NEW here, NEW no, NEW here2, NEW no2, NEW d,
           NEW j \in 2 .. Len(q) + 1, Meant(here, no, q, j, d),
           Head(q).action \in Entering => here2 = {Head(q).data} \/ no2,
           Head(q).action \notin Moving => here2 = here /\ (no2 <=> no)
    PROVE  Meant(here2, no2, Tail(q), j - 1, d)
<1>1. /\ Len(q) \in Nat \ {0} /\ DOMAIN q = 1 .. Len(q) /\ DOMAIN Tail(q) = 1 .. Len(q) - 1
      /\ \A l \in 1 .. Len(q) - 1 : Tail(q)[l] = q[l + 1]
      /\ Head(q) = q[1]
  BY TailFacts
<1> DEFINE t == Tail(q)
<1>2. \A l \in DOMAIN t : l + 1 \in DOMAIN q /\ t[l] = q[l + 1] /\ (l < j - 1 <=> l + 1 < j)
  BY <1>1
<1>3. 1 \in DOMAIN q /\ 1 < j
  BY <1>1
<1> HIDE DEF t
<1>4. ASSUME NEW l \in DOMAIN q, l < j, q[l].action \in Entering, q[l].data = d,
             \A m \in DOMAIN q : l < m /\ m < j => q[m].action \notin Moving
      PROVE  Meant(here2, no2, t, j - 1, d)
  <2>1. CASE l = 1
    <3>1. \A m \in DOMAIN t : m < j - 1 => t[m].action \notin Moving
      <4> TAKE m \in DOMAIN t
      <4>1. m + 1 \in DOMAIN q /\ l < m + 1 /\ t[m] = q[m + 1] /\ (m < j - 1 <=> m + 1 < j)
        BY <1>1, <1>2, <2>1 DEF t
      <4> QED BY <4>1, <1>4
    <3>2. d \in here2 \/ no2
      BY <1>1, <1>4, <2>1
    <3> QED BY <3>1, <3>2 DEF Meant
  <2>2. CASE l # 1
    <3>1. l - 1 \in DOMAIN t /\ t[l - 1] = q[l] /\ l - 1 < j - 1
      <4>1. l - 1 \in 1 .. Len(q) - 1 /\ l - 1 < j - 1 /\ l - 1 + 1 = l
        BY <1>1, <1>4, <2>2
      <4> QED BY <4>1, <1>1 DEF t
    <3>2. \A m \in DOMAIN t : l - 1 < m /\ m < j - 1 => t[m].action \notin Moving
      <4> TAKE m \in DOMAIN t
      <4>1. /\ m + 1 \in DOMAIN q /\ t[m] = q[m + 1] /\ (m < j - 1 <=> m + 1 < j)
            /\ (l - 1 < m <=> l < m + 1)
        BY <1>1, <1>2 DEF t
      <4> QED BY <4>1, <1>4
    <3> QED BY <3>1, <3>2, <1>4 DEF Meant
  <2> QED BY <2>1, <2>2
<1>5. ASSUME \A m \in DOMAIN q : m < j => q[m].action \notin Moving, d \in here \/ no
      PROVE  Meant(here2, no2, t, j - 1, d)
  <2>1. here2 = here /\ (no2 <=> no)
    BY <1>1, <1>3, <1>5
  <2>2. \A m \in DOMAIN t : m < j - 1 => t[m].action \notin Moving
    BY <1>2, <1>5
  <2> QED BY <2>1, <2>2, <1>5 DEF Meant
<1>6. Meant(here2, no2, t, j - 1, d)
  BY <1>4, <1>5 DEF Meant
<1> QED BY <1>6 DEF t

LEMMA OutTaken ==
    ASSUME NEW q \in Seq(Requests), q # <<>>, NEW here, NEW here2, Out(here, q),
           Head(q).action = "LEAVE" => here2 = {},
           Head(q).action \notin Moving => here2 = here
    PROVE  Out(here2, Tail(q))
<1>1. /\ Len(q) \in Nat \ {0} /\ DOMAIN q = 1 .. Len(q) /\ DOMAIN Tail(q) = 1 .. Len(q) - 1
      /\ \A l \in 1 .. Len(q) - 1 : Tail(q)[l] = q[l + 1]
      /\ Head(q) = q[1]
  BY TailFacts
<1> DEFINE t == Tail(q)
<1>2. \A l \in DOMAIN t : l + 1 \in DOMAIN q /\ t[l] = q[l + 1]
  BY <1>1
<1> HIDE DEF t
<1>3. ASSUME NEW l \in DOMAIN q, q[l].action = "LEAVE",
             \A m \in DOMAIN q : l < m => q[m].action \notin Entering
      PROVE  Out(here2, t)
  <2>1. \A m \in DOMAIN t : l - 1 < m => t[m].action \notin Entering
    <3> TAKE m \in DOMAIN t
    <3>1. m + 1 \in DOMAIN q /\ t[m] = q[m + 1] /\ (l - 1 < m <=> l < m + 1)
      BY <1>1, <1>2 DEF t
    <3> QED BY <3>1, <1>3
  <2>2. CASE l = 1
    <3>1. here2 = {} /\ \A m \in DOMAIN t : l - 1 < m
      BY <1>1, <1>3, <2>2 DEF t
    <3> QED BY <2>1, <3>1 DEF Out
  <2>3. CASE l # 1
    <3>1. l - 1 \in 1 .. Len(q) - 1 /\ l - 1 + 1 = l
      BY <1>1, <2>3
    <3>2. l - 1 \in DOMAIN t /\ t[l - 1] = q[l]
      BY <1>1, <3>1 DEF t
    <3> QED BY <2>1, <3>2, <1>3 DEF Out
  <2> QED BY <2>2, <2>3
<1>4. ASSUME \A m \in DOMAIN q : q[m].action \notin Entering, here = {}
      PROVE  Out(here2, t)
  <2>1. here2 = {}
    BY <1>1, <1>4 DEF Moving
  <2> QED BY <2>1, <1>2, <1>4 DEF Out
<1>5. Out(here2, t)
  BY <1>3, <1>4 DEF Out
<1> QED BY <1>5 DEF t

\* What the server does with the first request of a client.
LEMMA ServeTakes ==
    ASSUME TypeInv, NEW c \in Clients, Serve(c)
    PROVE  /\ up[c] # <<>> /\ up' = [up EXCEPT ![c] = Tail(@)]
           /\ UNCHANGED <<in_channel, current_channel>>
           /\ \A d \in Clients : d # c => inside'[d] = inside[d] /\ (refused'[d] <=> refused[d])
           /\ Head(up[c]).action \in Entering => inside'[c] = {Head(up[c]).data} \/ refused'[c]
           /\ Head(up[c]).action = "LEAVE" => inside'[c] = {}
           /\ Head(up[c]).action \notin Moving =>
                 inside'[c] = inside[c] /\ (refused'[c] <=> refused[c])
<1> USE DEF clientVars, Entering, Moving
<1>1. inside \in [Clients -> SUBSET RoomNames] /\ refused \in [Clients -> BOOLEAN]
  BY DEF TypeInv, RoomType, ClientType
<1>2. PICK a \in {"LOGIN", "START", "JOIN", "LEAVE", "ONLINE", "SEND", "FRIEND"} : Takes(c, a)
  BY DEF Serve, TakesLogin, TakesStart, TakesJoin, TakesLeave, TakesOnline, TakesSend,
         TakesFriend
<1>3. /\ up[c] # <<>> /\ up' = [up EXCEPT ![c] = Tail(@)] /\ Head(up[c]).action = a
      /\ UNCHANGED <<in_channel, current_channel>>
  BY <1>2 DEF Takes
<1>4. CASE TakesLogin(c) \/ TakesOnline(c) \/ TakesSend(c) \/ TakesFriend(c)
  <2>1. inside' = inside /\ refused' = refused
    BY <1>4 DEF TakesLogin, TakesOnline, TakesSend, TakesFriend, Tells, LogsIn, Says, Befriends,
                roomVars
  <2>2. a \notin Moving
    BY <1>3, <1>4 DEF TakesLogin, TakesOnline, TakesSend, TakesFriend, Takes
  <2> QED BY <1>3, <2>1, <2>2
<1>5. CASE TakesLeave(c)
  <2>1. refused' = refused /\ inside' = [inside EXCEPT ![c] = {}] /\ a = "LEAVE"
    BY <1>3, <1>5 DEF TakesLeave, Leaves, Takes
  <2> QED BY <1>1, <1>3, <2>1
<1>6. CASE TakesStart(c) \/ TakesJoin(c)
  <2> DEFINE n == Head(up[c]).data
  <2>1. a \in Entering
    BY <1>3, <1>6 DEF TakesStart, TakesJoin, Takes
  <2>2. \/ inside' = inside /\ Answered(c, TRUE)
        \/ inside' = [inside EXCEPT ![c] = {n}] /\ \E no \in BOOLEAN : Answered(c, no)
    <3>1. CASE TakesStart(c) /\ n \in rooms
      <4>1. Answered(c, n \in rooms) /\ inside' = inside
        BY <3>1, Zenon DEF TakesStart, Asked, Tells
      <4>2. (n \in rooms) = TRUE
        BY <3>1
      <4>3. Answered(c, TRUE)
        BY <4>1, <4>2 DEF Answered
      <4> QED BY <4>1, <4>3
    <3>2. CASE TakesStart(c) /\ n \notin rooms
      <4>1. Answered(c, n \in rooms) /\ Creates(c, n)
        BY <3>2, Zenon DEF TakesStart, Asked
      <4>2. inside' = [inside EXCEPT ![c] = {n}]
        BY <4>1, Zenon DEF Creates
      <4>3. (n \in rooms) = FALSE
        BY <3>2
      <4>4. Answered(c, FALSE)
        BY <4>1, <4>3 DEF Answered
      <4> QED BY <4>2, <4>4
    <3>3. CASE TakesJoin(c) /\ n \notin rooms
      <4>1. Answered(c, n \notin rooms) /\ inside' = inside
        BY <3>3, Zenon DEF TakesJoin, Asked, Tells
      <4>2. (n \notin rooms) = TRUE
        BY <3>3
      <4>3. Answered(c, TRUE)
        BY <4>1, <4>2 DEF Answered
      <4> QED BY <4>1, <4>3
    <3>4. CASE TakesJoin(c) /\ n \in rooms
      <4>1. Answered(c, n \notin rooms) /\ Enters(c, n)
        BY <3>4, Zenon DEF TakesJoin, Asked
      <4>2. inside' = [inside EXCEPT ![c] = {n}]
        BY <4>1, Zenon DEF Enters
      <4>3. (n \notin rooms) = FALSE
        BY <3>4
      <4>4. Answered(c, FALSE)
        BY <4>1, <4>3 DEF Answered
      <4> QED BY <4>2, <4>4
    <3> QED BY <1>6, <3>1, <3>2, <3>3, <3>4
  <2>3. \A d \in Clients : d # c => inside'[d] = inside[d]
    BY <1>1, <2>2
  <2>4. \A d \in Clients : d # c => (refused'[d] <=> refused[d])
    BY <1>1, <2>2, Zenon DEF Answered
  <2>5. inside'[c] = {n} \/ refused'[c]
    <3>1. CASE Answered(c, TRUE)
      BY <1>1, <3>1, Zenon DEF Answered
    <3>2. CASE inside' = [inside EXCEPT ![c] = {n}]
      BY <1>1, <3>2
    <3> QED BY <2>2, <3>1, <3>2
  <2> QED BY <1>3, <2>1, <2>3, <2>4, <2>5
<1> QED BY <1>4, <1>5, <1>6 DEF Serve

\* What is true of a client stays so while neither its wire nor it changes.
LEMMA SameFollows ==
    ASSUME NEW c \in Clients, Follows(c), up'[c] = up[c], inside'[c] = inside[c],
           refused'[c] <=> refused[c], in_channel'[c] <=> in_channel[c],
           current_channel'[c] = current_channel[c]
    PROVE  Follows(c)'
<1>1. \A q, j, d : Meant(inside[c], refused[c], q, j, d) => Meant(inside'[c], refused'[c], q, j, d)
  BY DEF Meant
<1>2. Out(inside[c], up[c]) => Out(inside'[c], up'[c])
  BY DEF Out
<1> QED BY <1>1, <1>2 DEF Follows

LEMMA ServeFollows ==
    ASSUME TypeInv, NEW c \in Clients, Follows(c), Serve(c)
    PROVE  Follows(c)'
<1> DEFINE q == up[c]
<1>1. /\ q \in Seq(Requests) /\ q # <<>> /\ up'[c] = Tail(q)
      /\ in_channel' = in_channel /\ current_channel' = current_channel
  BY ServeTakes DEF TypeInv, WireType
<1>2. /\ Head(q).action \in Entering => inside'[c] = {Head(q).data} \/ refused'[c]
      /\ Head(q).action = "LEAVE" => inside'[c] = {}
      /\ Head(q).action \notin Moving => inside'[c] = inside[c] /\ (refused'[c] <=> refused[c])
  BY ServeTakes
<1> HIDE DEF q
<1>3. /\ Len(q) \in Nat \ {0} /\ DOMAIN q = 1 .. Len(q) /\ DOMAIN Tail(q) = 1 .. Len(q) - 1
      /\ \A j \in 1 .. Len(q) - 1 : Tail(q)[j] = q[j + 1]
      /\ Len(Tail(q)) = Len(q) - 1
  BY <1>1, TailFacts
<1>4. \A d : \A j \in 2 .. Len(q) + 1 : Meant(inside[c], refused[c], q, j, d) =>
                Meant(inside'[c], refused'[c], Tail(q), j - 1, d)
  BY <1>1, <1>2, MeantTaken
<1>5. ASSUME NEW j \in DOMAIN Tail(q), Tail(q)[j].action = "SEND"
      PROVE  Meant(inside'[c], refused'[c], Tail(q), j, Tail(q)[j].data)
  <2>1. j + 1 \in DOMAIN q /\ j + 1 \in 2 .. Len(q) + 1 /\ j + 1 - 1 = j /\ Tail(q)[j] = q[j + 1]
    BY <1>3
  <2>2. Meant(inside[c], refused[c], q, j + 1, q[j + 1].data)
    BY <1>5, <2>1 DEF Follows, q
  <2>3. Meant(inside'[c], refused'[c], Tail(q), j + 1 - 1, q[j + 1].data)
    BY <1>4, <2>1, <2>2
  <2> QED BY <2>1, <2>3
<1>6. ASSUME in_channel[c]
      PROVE  Meant(inside'[c], refused'[c], Tail(q), Len(Tail(q)) + 1, current_channel[c])
  <2>1. /\ Len(q) + 1 \in 2 .. Len(q) + 1 /\ Len(q) + 1 - 1 = Len(Tail(q)) + 1
    BY <1>3
  <2>2. Meant(inside[c], refused[c], q, Len(q) + 1, current_channel[c])
    BY <1>6 DEF Follows, q
  <2>3. Meant(inside'[c], refused'[c], Tail(q), Len(q) + 1 - 1, current_channel[c])
    BY <1>4, <2>1, <2>2
  <2> QED BY <2>1, <2>3
<1>7. ASSUME ~in_channel[c] PROVE Out(inside'[c], Tail(q))
  BY <1>1, <1>2, <1>7, OutTaken DEF Follows, q
<1> QED BY <1>1, <1>5, <1>6, <1>7 DEF Follows

\* The shapes of what is sent.
LEMMA AddedFollows ==
    ASSUME TypeInv, NEW c \in Clients, Follows(c), NEW r \in Seq(Requests), Sends(c, r),
           inside' = inside, refused' = refused,
           \A j \in DOMAIN r : r[j].action = "SEND" =>
              j = 1 /\ in_channel[c] /\ r[j].data = current_channel[c],
           in_channel'[c] =>
              Meant(inside[c], refused[c], up[c] \o r, Len(up[c] \o r) + 1, current_channel'[c]),
           ~in_channel'[c] => Out(inside[c], up[c] \o r)
    PROVE  Follows(c)'
<1>1. up[c] \in Seq(Requests) /\ up'[c] = up[c] \o r
  BY DEF TypeInv, WireType, Sends
<1>2. \A j \in DOMAIN r : r[j].action = "SEND" =>
         j = 1 /\ Meant(inside[c], refused[c], up[c], Len(up[c]) + 1, r[j].data)
  BY DEF Follows
<1>3. \A j \in DOMAIN up[c] : up[c][j].action = "SEND" =>
         Meant(inside[c], refused[c], up[c], j, up[c][j].data)
  BY DEF Follows
<1> DEFINE q == up[c]
           s == up[c] \o r
<1>4. \A j \in DOMAIN s : s[j].action = "SEND" => Meant(inside[c], refused[c], s, j, s[j].data)
  BY <1>1, <1>2, <1>3, SendsMeant
<1> HIDE DEF s
<1> QED BY <1>1, <1>4 DEF Follows, s

\* One request that moves nobody, a SEND among them.
LEMMA StayFollows ==
    ASSUME TypeInv, NEW c \in Clients, Follows(c),
           NEW a \in {"LOGIN", "ONLINE", "SEND", "FRIEND"}, NEW d \in AllNames,
           Sends(c, <<Request(a, d)>>),
           a = "SEND" => in_channel[c] /\ d = current_channel[c],
           UNCHANGED <<inside, refused, in_channel, current_channel>>
    PROVE  Follows(c)'
<1> DEFINE r == <<Request(a, d)>>
<1>1. r \in Seq(Requests) /\ DOMAIN r = {1} /\ r[1].action = a /\ r[1].data = d
  BY RequestType DEF Request
<1>2. up[c] \in Seq(Requests)
  BY DEF TypeInv, WireType
<1> HIDE DEF r
<1>3. \A j \in DOMAIN r : r[j].action \notin Moving
  BY <1>1 DEF Moving, Entering
<1>4. in_channel[c] =>
         Meant(inside[c], refused[c], up[c] \o r, Len(up[c] \o r) + 1, current_channel[c])
  BY <1>1, <1>2, <1>3, MeantPasts DEF Follows
<1>5. ~in_channel[c] => Out(inside[c], up[c] \o r)
  BY <1>1, <1>2, <1>3, OutAdds DEF Follows, Moving
<1>6. Sends(c, r)
  BY DEF r
<1> QED BY <1>1, <1>4, <1>5, <1>6, AddedFollows

\* A command that enters a channel.
LEMMA EnterFollows ==
    ASSUME TypeInv, NEW c \in Clients, Follows(c), NEW a \in Entering, NEW n \in RoomNames,
           EnterCommand(c, a, n), UNCHANGED <<inside, refused>>
    PROVE  Follows(c)'
<1> DEFINE r == <<Request("ONLINE", NoName), Request(a, n)>>
<1>1. /\ r \in Seq(Requests) /\ DOMAIN r = {1, 2} /\ Len(r) = 2
      /\ r[1].action = "ONLINE" /\ r[2].action = a /\ r[2].data = n
  <2>1. r \in Seq(Requests)
    BY TwoRequests DEF Entering, AllNames
  <2>2. DOMAIN r = {1, 2} /\ Len(r) = 2 /\ r[1] = Request("ONLINE", NoName) /\ r[2] = Request(a, n)
    BY TwoLong
  <2> QED BY <2>1, <2>2 DEF Request
<1>2. up[c] \in Seq(Requests) /\ in_channel'[c] = TRUE /\ current_channel'[c] = n /\ Sends(c, r)
  BY DEF TypeInv, WireType, ClientType, EnterCommand
<1> HIDE DEF r
<1>3. /\ Len(up[c]) \in Nat /\ DOMAIN (up[c] \o r) = 1 .. Len(up[c]) + 2
      /\ Len(up[c] \o r) = Len(up[c]) + 2 /\ (up[c] \o r)[Len(up[c]) + 2] = r[2]
  BY <1>1, <1>2, TwoAdded
<1>4. Meant(inside[c], refused[c], up[c] \o r, Len(up[c] \o r) + 1, n)
  <2> DEFINE s == up[c] \o r
             k == Len(up[c]) + 2
  <2>1. /\ k \in DOMAIN s /\ k < Len(s) + 1 /\ s[k].action \in Entering /\ s[k].data = n
        /\ \A m \in DOMAIN s : ~(k < m /\ m < Len(s) + 1)
    BY <1>1, <1>3
  <2> HIDE DEF s, k
  <2>2. Meant(inside[c], refused[c], s, Len(s) + 1, n)
    BY <2>1 DEF Meant
  <2> QED BY <2>2 DEF s
<1>5. \A j \in DOMAIN r : r[j].action # "SEND"
  BY <1>1 DEF Entering
<1> QED BY <1>1, <1>2, <1>4, <1>5, AddedFollows

\* /leave, which tells the server of the channel the client believes it is in.
LEMMA LeaveFollows ==
    ASSUME TypeInv, NEW c \in Clients, Follows(c), Sends(c, LeaveRequests(c)),
           in_channel' = [in_channel EXCEPT ![c] = FALSE], UNCHANGED <<inside, refused>>
    PROVE  Follows(c)'
<1> DEFINE r == LeaveRequests(c)
<1>0. up[c] \in Seq(Requests) /\ in_channel'[c] = FALSE
  BY DEF TypeInv, WireType, ClientType
<1>1. CASE in_channel[c]
  <2>1. r = <<Request("LEAVE", NoName), Request("ONLINE", NoName)>>
    BY <1>1, RoomNamesAssumption DEF LeaveRequests, TypeInv, ClientType
  <2>2. /\ r \in Seq(Requests) /\ DOMAIN r = {1, 2} /\ Len(r) = 2
        /\ r[1].action = "LEAVE" /\ r[2].action = "ONLINE"
    <3>1. r \in Seq(Requests)
      BY <2>1, TwoRequests DEF Entering, AllNames
    <3>2. DOMAIN r = {1, 2} /\ Len(r) = 2
          /\ r[1] = Request("LEAVE", NoName) /\ r[2] = Request("ONLINE", NoName)
      BY <2>1, TwoLong
    <3> QED BY <3>1, <3>2 DEF Request
  <2> HIDE DEF r
  <2>3. /\ Len(up[c]) \in Nat /\ DOMAIN (up[c] \o r) = 1 .. Len(up[c]) + 2
        /\ (up[c] \o r)[Len(up[c]) + 1] = r[1] /\ (up[c] \o r)[Len(up[c]) + 2] = r[2]
    BY <2>2, <1>0, TwoAdded
  <2>4. Out(inside[c], up[c] \o r)
    <3> DEFINE s == up[c] \o r
               k == Len(up[c]) + 1
    <3>1. /\ k \in DOMAIN s /\ s[k].action = "LEAVE"
          /\ \A m \in DOMAIN s : k < m => m = Len(up[c]) + 2
      BY <2>2, <2>3
    <3>2. s[Len(up[c]) + 2].action \notin Entering
      BY <2>2, <2>3 DEF Entering
    <3> HIDE DEF s, k
    <3>3. Out(inside[c], s)
      BY <3>1, <3>2 DEF Out
    <3> QED BY <3>3 DEF s
  <2>5. \A j \in DOMAIN r : r[j].action # "SEND"
    BY <2>2
  <2>6. Sends(c, r)
    BY DEF r
  <2> QED BY <1>0, <2>2, <2>4, <2>5, <2>6, AddedFollows
<1>2. CASE ~in_channel[c]
  <2>1. r = <<Request("ONLINE", NoName)>>
    BY <1>2 DEF LeaveRequests
  <2>2. r \in Seq(Requests) /\ DOMAIN r = {1} /\ r[1].action = "ONLINE"
    BY <2>1, RequestType DEF Request, AllNames
  <2> HIDE DEF r
  <2>3. \A j \in DOMAIN r : r[j].action \notin Entering /\ r[j].action # "SEND"
    BY <2>2 DEF Entering
  <2>4. Out(inside[c], up[c] \o r)
    BY <1>0, <1>2, <2>2, <2>3, OutAdds DEF Follows
  <2>5. Sends(c, r)
    BY DEF r
  <2> QED BY <1>0, <2>2, <2>3, <2>4, <2>5, AddedFollows
<1> QED BY <1>1, <1>2

\* Every step keeps the beliefs and the requests together.
LEMMA BeliefsStep == ASSUME TypeInv, Beliefs, [Next]_vars PROVE Beliefs'
<1> USE DEF TypeInv, clientVars, AllNames
<1>1. CASE UNCHANGED <<up, inside, refused, in_channel, current_channel>>
  BY <1>1, SameFollows DEF Beliefs
<1>2. CASE Launch \/ UNCHANGED vars
  BY <1>1, <1>2 DEF Launch, Start, vars, roomVars
<1>3. ASSUME NEW c \in Clients, Serve(c) PROVE Beliefs'
  <2>1. \A d \in Clients : d # c => up'[d] = up[d]
    BY <1>3, ServeTakes DEF WireType
  <2>2. ASSUME NEW d \in Clients, d # c PROVE Follows(d)'
    BY <2>1, <2>2, <1>3, ServeTakes, SameFollows DEF Beliefs
  <2> QED BY <1>3, <2>2, ServeFollows DEF Beliefs
<1>4. ASSUME NEW c \in Clients,
             \/ Write(c) \/ setup_socket(c) \/ render_menu(c) \/ handle_server_message(c)
      PROVE  Beliefs'
  BY <1>1, <1>4 DEF Write, Delivers, setup_socket, render_menu, handle_server_message, roomVars
<1>5. ASSUME NEW c \in Clients, NEW r, Sends(c, r), UNCHANGED <<inside, refused>>,
             \A d \in Clients : d # c => /\ in_channel'[d] <=> in_channel[d]
                                         /\ current_channel'[d] = current_channel[d],
             Follows(c)'
      PROVE  Beliefs'
  <2>1. \A d \in Clients : d # c => up'[d] = up[d]
    BY <1>5 DEF Sends, WireType
  <2>2. ASSUME NEW d \in Clients, d # c PROVE Follows(d)'
    BY <2>1, <2>2, <1>5, SameFollows DEF Beliefs
  <2> QED BY <1>5, <2>2 DEF Beliefs
<1>6. ASSUME NEW c \in Clients, NEW a \in {"LOGIN", "ONLINE", "SEND", "FRIEND"},
             NEW d \in AllNames, Sends(c, <<Request(a, d)>>),
             a = "SEND" => in_channel[c] /\ d = current_channel[c],
             UNCHANGED <<inside, refused, in_channel, current_channel>>
      PROVE  Beliefs'
  <2>1. Follows(c)'
    BY <1>6, StayFollows DEF Beliefs
  <2> QED BY <1>5, <1>6, <2>1
<1>7. ASSUME NEW c \in Clients, handle_login(c) PROVE Beliefs'
  <2>1. /\ UNCHANGED <<inside, refused, in_channel, current_channel>>
        /\ up' = up \/ Sends(c, <<Request("ONLINE", NoName)>>)
    BY <1>7 DEF handle_login, roomVars
  <2> QED BY <1>1, <1>6, <2>1
<1>8. ASSUME NEW c \in Clients, NEW u \in UserNames \cup {NoName}, get_username(c, u)
      PROVE  Beliefs'
  BY <1>6, <1>8 DEF get_username, roomVars
<1>9. ASSUME NEW c \in Clients, Command(c) PROVE Beliefs'
  <2>0. UNCHANGED <<inside, refused>>
    BY <1>9 DEF Command, JoinCommand, CreateCommand, LeaveCommand, ChannelsCommand, Line,
                FriendCommand, Types, roomVars
  <2>1. ASSUME NEW n \in RoomNames, JoinCommand(c, n) \/ CreateCommand(c, n) PROVE Beliefs'
    <3>1. PICK a \in Entering : EnterCommand(c, a, n)
      BY <2>1 DEF JoinCommand, CreateCommand, Entering
    <3>2. Follows(c)'
      BY <2>0, <3>1, EnterFollows DEF Beliefs
    <3>3. \A d \in Clients : d # c => /\ in_channel'[d] <=> in_channel[d]
                                      /\ current_channel'[d] = current_channel[d]
      BY <3>1 DEF EnterCommand, ClientType
    <3> QED BY <1>5, <2>0, <3>1, <3>2, <3>3 DEF EnterCommand
  <2>2. CASE LeaveCommand(c)
    <3>1. Follows(c)'
      BY <2>0, <2>2, LeaveFollows DEF Beliefs, LeaveCommand
    <3>2. \A d \in Clients : d # c => /\ in_channel'[d] <=> in_channel[d]
                                      /\ current_channel'[d] = current_channel[d]
      BY <2>2 DEF LeaveCommand, ClientType
    <3> QED BY <1>5, <2>0, <2>2, <3>1, <3>2 DEF LeaveCommand
  <2>3. CASE ChannelsCommand(c)
    BY <1>6, <2>0, <2>3 DEF ChannelsCommand
  <2>4. CASE Line(c)
    <3>1. CASE in_channel[c]
      <4>1. current_channel[c] \in RoomNames
        BY <3>1 DEF ClientType
      <4>2. Sends(c, <<Request("SEND", current_channel[c])>>)
            /\ UNCHANGED <<in_channel, current_channel>>
        BY <2>4, <3>1 DEF Line
      <4> QED BY <1>6, <2>0, <3>1, <4>1, <4>2
    <3>2. CASE ~in_channel[c]
      BY <1>1, <2>0, <2>4, <3>2 DEF Line
    <3> QED BY <3>1, <3>2
  <2>5. ASSUME NEW u \in UserNames, FriendCommand(c, u) PROVE Beliefs'
    BY <1>1, <1>6, <2>0, <2>5 DEF FriendCommand
  <2> QED BY <1>9, <2>1, <2>2, <2>3, <2>4, <2>5 DEF Command
<1> QED BY <1>2, <1>3, <1>4, <1>7, <1>8, <1>9 DEF Next, Programs, Users

LEMMA BeliefsHold == Spec => [](TypeInv /\ Beliefs)
<1>1. Init => Beliefs
  <2> SUFFICES ASSUME Init, NEW c \in Clients PROVE Follows(c)
    BY DEF Beliefs
  <2>1. up[c] = <<>> /\ inside[c] = {} /\ in_channel[c] = FALSE
    BY DEF Init, RoomInit, Down
  <2>2. DOMAIN up[c] = {}
    BY <2>1
  <2>3. Out(inside[c], up[c])
    BY <2>1, <2>2 DEF Out
  <2> QED BY <2>1, <2>2, <2>3 DEF Follows
<1>2. TypeInv /\ Beliefs /\ [Next]_vars => Beliefs'
  BY BeliefsStep
<1> QED BY <1>1, <1>2, TypeInvHolds, PTL DEF Spec

(***************************************************************************)
(* Whoever sees the menu is in no room once the server took what was sent  *)
(* to it, whatever was refused and however the requests and the answers    *)
(* overlapped (client.c:655-677).                                          *)
(***************************************************************************)
THEOREM MenuIsOutside == Spec => []MenuMeansOutside
<1>1. TypeInv /\ Beliefs => MenuMeansOutside
  BY DEF Beliefs, Follows, Out, MenuMeansOutside
<1> QED BY <1>1, BeliefsHold, PTL

(***************************************************************************)
(* A message lands in the channel its author was in when it was typed, or  *)
(* the server had just refused the author, with any number of requests in  *)
(* flight (client.c:215-232).                                              *)
(***************************************************************************)
THEOREM MessagesLand == Spec => LandsWhereMeant
<1> DEFINE Lands == \A c \in Clients : said' # said /\ up'[c] # up[c] =>
                       Head(up[c]).data \in inside[c] \/ refused[c]
<1>1. TypeInv /\ Beliefs /\ [Next]_vars => Lands
  <2> SUFFICES ASSUME TypeInv, Beliefs, [Next]_vars,
                      NEW c \in Clients, said' # said, up'[c] # up[c]
               PROVE  Head(up[c]).data \in inside[c] \/ refused[c]
    OBVIOUS
  <2>1. PICK e \in Clients : TakesSend(e)
    <3>1. ASSUME NEW d \in Clients, Programs(d) \/ Users(d) PROVE TakesSend(d)
      BY <3>1 DEF Programs, Users, Serve, TakesLogin, TakesStart, TakesJoin, TakesLeave,
                  TakesOnline, TakesFriend, Tells, LogsIn, Creates, Enters, Leaves, Befriends,
                  Delivers, Write, setup_socket, handle_login, render_menu,
                  handle_server_message, Command, Types, JoinCommand, CreateCommand,
                  LeaveCommand, ChannelsCommand, Line, FriendCommand, get_username, roomVars
    <3> QED BY <3>1 DEF Next, Launch, Start, vars, roomVars
  <2>2. e = c /\ up[c] # <<>> /\ Head(up[c]).action = "SEND"
    BY <2>1 DEF TakesSend, Takes, TypeInv, WireType
  <2>3. 1 \in DOMAIN up[c] /\ Head(up[c]) = up[c][1] /\ DOMAIN up[c] = 1 .. Len(up[c])
    BY <2>2, TailFacts DEF TypeInv, WireType
  <2>4. Meant(inside[c], refused[c], up[c], 1, Head(up[c]).data)
    BY <2>2, <2>3 DEF Beliefs, Follows
  <2> QED BY <2>3, <2>4 DEF Meant
<1>2. TypeInv /\ Beliefs /\ [Next]_vars => [Lands]_vars
  BY <1>1
<1>3. Spec => [][Lands]_vars
  BY <1>2, BeliefsHold, PTL DEF Spec
<1> QED BY <1>3 DEF LandsWhereMeant
=============================================================================
