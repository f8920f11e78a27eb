------------------------------- MODULE ChatRoom -------------------------------
(***************************************************************************)
(* What the server promises its users, without slots, bitmaps, loops or    *)
(* pointers: rooms have names, a client is inside at most one, it hears    *)
(* the rooms it entered until it enters another from inside, everything    *)
(* said is told to whoever hears the room, and archived once where the     *)
(* name of the room can be that of a file.                                 *)
(*                                                                         *)
(* A room heard is not always a room one is inside: /leave leaves without  *)
(* unhearing, and entering the room one is inside unhears it.  That is     *)
(* what the handlers do (channels.c:37-53, server.c:434-442), so it is     *)
(* what they promise.  Connections stay up in this module.                 *)
(***************************************************************************)
EXTENDS Integers, Sequences

CONSTANTS
    Clients,
    Names,      \* names that users log in with and give to rooms
    Unfiled,    \* names that give no archive: what is said there is not kept
    NoName,     \* the name of a client that has not logged in
    Capacity,   \* messages that may wait in the inbox of a client
    MaxSaid     \* bound on the messages ever archived

ASSUME CapacityAssumption == Capacity \in Nat /\ MaxSaid \in Nat

VARIABLES
    running,    \* the server is up
    name,       \* the name a client is logged in under
    rooms,      \* the rooms that exist
    inside,     \* the room a client is inside: a set of at most one name
    hears,      \* the rooms whose messages a client is sent
    inbox,      \* what waits to be sent to a client
    archive,    \* what was said in a room, for the rooms that have an archive
    said        \* how many messages were archived, the identity of a message

roomVars == <<running, name, rooms, inside, hears, inbox, archive, said>>

Notice(a) == [action |-> a, id |-> 0]
Chat(a, id) == [action |-> a, id |-> id]

\* Queued for every client of S whose inbox has room, dropped for the others.
Tell(boxes, S, m) ==
    [c \in Clients |-> IF c \in S /\ Len(boxes[c]) < Capacity
                       THEN Append(boxes[c], m) ELSE boxes[c]]
Answer(c, a) == inbox' = Tell(inbox, {c}, Notice(a))

Listeners(S) == {c \in Clients : hears[c] \cap S # {}}
Others(c)    == Listeners(inside[c]) \ {c}

Told(n) == IF n \in DOMAIN archive THEN archive[n] ELSE <<>>
Recount(boxes, c, n) ==
    LET free == Capacity - Len(boxes[c])
        take == IF Len(Told(n)) < free THEN Len(Told(n)) ELSE free
    IN  [boxes EXCEPT ![c] = @ \o [j \in 1 .. take |-> Chat("HIST", Told(n)[j])]]

-----------------------------------------------------------------------------
Down ==
    /\ running = FALSE /\ rooms = {}
    /\ name = [c \in Clients |-> NoName]
    /\ inside = [c \in Clients |-> {}]
    /\ hears = [c \in Clients |-> {}]
    /\ inbox = [c \in Clients |-> <<>>]

RoomInit == Down /\ archive = <<>> /\ said = 0

\* The server starts with a room for every archive, and ends with nothing else.
Start ==
    /\ running = FALSE /\ running' = TRUE
    /\ rooms' = DOMAIN archive
    /\ UNCHANGED <<name, inside, hears, inbox, archive, said>>
Stop ==
    /\ running /\ Down'
    /\ UNCHANGED <<archive, said>>

Refusals == {"LOGN:F", "START:F", "JOIN:F", "FRIEND"}
Tells(c, a) ==
    /\ running
    /\ Answer(c, a)
    /\ UNCHANGED <<running, name, rooms, inside, hears, archive, said>>

LogsIn(c, u) ==
    /\ running /\ u # NoName /\ \A d \in Clients : name[d] # u
    /\ name' = [name EXCEPT ![c] = u]
    /\ Answer(c, "LOGN:S")
    /\ UNCHANGED <<running, rooms, inside, hears, archive, said>>

\* A room is made by the client that enters it, or between two friends.
Creates(c, n) ==
    /\ running /\ n \notin rooms
    /\ rooms' = rooms \cup {n}
    /\ inside' = [inside EXCEPT ![c] = {n}]
    /\ hears' = [hears EXCEPT ![c] = (@ \ inside[c]) \cup {n}]
    /\ inbox' = Tell(Tell(inbox, {c}, Notice("START:S")), Others(c), Notice("SYS"))
    /\ UNCHANGED <<running, name, archive, said>>
Befriends(c, d, n) ==
    /\ running
    /\ rooms' = rooms \cup {n}
    /\ inbox' = Tell(Tell(inbox, {d}, Notice("SYS")), {c}, Notice("SYS"))
    /\ UNCHANGED <<running, name, inside, hears, archive, said>>

(***************************************************************************)
(* The one who enters is told so, then the history; those it leaves and    *)
(* those it joins are told.                                                *)
(***************************************************************************)
Enters(c, n) ==
    /\ running
    /\ inside' = [inside EXCEPT ![c] = {n}]
    /\ hears' = [hears EXCEPT ![c] = IF n \in inside[c] THEN @ \ {n}
                                     ELSE (@ \ inside[c]) \cup {n}]
    /\ LET entered == Tell(Tell(inbox, {c}, Notice("JOIN:S")), Others(c), Notice("SYS"))
       IN  inbox' = Tell(Recount(entered, c, n), Listeners({n}) \ {c}, Notice("SYS"))
    /\ UNCHANGED <<running, name, rooms, archive, said>>
Leaves(c) ==
    /\ running
    /\ inside' = [inside EXCEPT ![c] = {}]
    /\ inbox' = Tell(Tell(inbox, Others(c), Notice("SYS")), {c}, Notice("LEAVE:S"))
    /\ UNCHANGED <<running, name, rooms, hears, archive, said>>

Says(c) ==
    /\ running /\ said < MaxSaid
    /\ said' = said + 1
    /\ \E n \in inside[c] :
          /\ archive' = IF n \in Unfiled THEN archive
                        ELSE [m \in DOMAIN archive \cup {n} |->
                                 IF m = n THEN Append(Told(n), said + 1) ELSE archive[m]]
          /\ inbox' = Tell(inbox, Listeners({n}), Chat("SEND", said + 1))
    /\ UNCHANGED <<running, name, rooms, inside, hears>>

\* The inbox of a client is written to its connection.
Delivers(c) ==
    /\ running
    /\ inbox' = [inbox EXCEPT ![c] = <<>>]
    /\ UNCHANGED <<running, name, rooms, inside, hears, archive, said>>

RoomNext ==
    \/ Start \/ Stop
    \/ \E c \in Clients :
          \/ Leaves(c) \/ Says(c) \/ Delivers(c)
          \/ \E a \in Refusals \cup {"ONLINE"} : Tells(c, a)
          \/ \E n \in Names : LogsIn(c, n) \/ Creates(c, n)
          \/ \E n \in rooms : Enters(c, n)
          \/ \E d \in Clients, n \in Names : Befriends(c, d, n)

RoomSpec == RoomInit /\ [][RoomNext]_roomVars
=============================================================================
