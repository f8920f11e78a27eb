# Bonfire in TLA+

Bonfire is a chat system in C: one server process around a `select()` loop, any
number of terminal clients, fixed-size messages over TCP, channels with an
archive on disk, and private channels between friends. This directory holds a
TLA+ model of the server, of the client program, of the connection between them
and of the whole, the TLC runs that check them, and TLAPS proofs about them.

## The system

| Part | Source | State | Operations |
|---|---|---|---|
| Event loop and slot table | `server.c:77-157, 274-332` | `client_sockets`, `current_number_of_connections`, `num_new_connections`, the two `fd_set`s | accept, read every client, write every client, shift on a disconnection |
| Request handlers | `server.c:334-454, 526-607` | the `Client` structures: name, active channel, buffers | LOGIN, START, JOIN, ONLINE, FRIEND, LEAVE, a message |
| Channels | `channels.c:1-88`, `entities.h:26-34` | `channels[]`, the membership bitmap of each | create, join, look up by name, load at start |
| Private channels | `channels.c:90-234` | `private_channels[]`, `private_channels.dat` | create, invite, may-join, friend lookup, save, load |
| Archive | `server.c:162-184, 229-272` | `channels/<name>.dat` | append a message, send the history |
| Framing and buffers | `server.c:302-341, 456-496`, `entities.h`, `client.c:434-453, 629-639` | `in_buf`, `out_buf`, `soc_msg_buf` | collect 328 bytes, queue, write |
| Client program | `client.c`, `constants.c` | the user name, the channel it believes it is in, the list of channels, a line of input | login dialogue, commands, its own `select()` loop, rendering |

The parts of the server share everything and call one another: the loop calls a
handler with the whole table of clients, channels and private channels, and a
handler may touch all of them. Membership is kept three times: as
`active_channel` in each client of the server, as a bit per *slot* in each
channel, and as `in_channel` and `current_channel` in the client program. Names
tie the rest together: a broadcast finds its channel by the name of the sender's
channel, a private channel finds its channel by name at a restart, and a friend
is found by concatenating two names. Server and client exchange `Message`
structures; the server and its next incarnation exchange the two kinds of files.

What is hard:

* **Acceptance overlaps with disconnection.** A new connection is written to
  `clients[count]` and counted at the end of the iteration; disconnections in
  between lower `count` and shift slots, and a `NULL` slot below `count` ends the
  process.
* **Several records of membership.** The bitmap is indexed by slot, slots move,
  and several handlers update one record and not the other; the client program
  moves before the server has answered.
* **Lookups by name.** Channels of one name can exist twice; some functions
  take the first, some the last, some visit all.
* **Crashes.** Everything but the files is lost; the file of private channels
  is truncated before it is rewritten, twice per request; a private channel
  without an archive comes back as `NULL`.
* **Partial failure.** A message is broadcast whether or not it could be
  archived, and dropped for clients whose buffer is full.
* **Closed peers.** The read loop skips the client after one that it removes, so
  a closed connection is written to; a reset in between costs a SIGPIPE.
* **Streams.** `read()` and `write()` split messages anywhere, both programs
  write to blocking sockets, and the client selects on a descriptor that it
  reads through stdio.
* **No waiting.** After the login the client program waits for no answer:
  requests, answers and other people's messages cross.

`PROJECT.json` lists the hazards one by one with their lines and the properties
that watch them.

What correctness means, by part: the slot table never leads to freed memory, and
loses nobody; names are unique; a closed connection is freed; the two records of
membership part for known causes only; a message reaches its room and only its
room; a newcomer sees the archive without a gap or a repetition; an archived message stays; the file
and the list of private channels agree; only the invited enter a private channel;
an invitation survives a restart; messages cross a connection whole, once and in
order; what a client believes of its channel and its name is what the server
has, once answers are in.

## Modules

| Module | What it is |
|---|---|
| `BonfireServer` | the server and its environment: state, one action per handler outcome, properties |
| `JoinLoop` | the loop of `handle_join_channel`, turn by turn |
| `ChatRoom` | what the server promises its users: rooms without slots, bitmaps or lookups |
| `BonfireRooms` | `BonfireServer` as an implementation of `ChatRoom` |
| `Connection` | one connection in bytes, with the loop of the server at one end and of the client at the other |
| `Bonfire` | the client programs and the server (as `ChatRoom`) over FIFO connections |
| `MCBonfireServer`, `MCBonfire`, `MCConnection` | the constants of the small instances |
| `BonfireServerProofs` | buffers, a lemma per action, the classification of steps, type correctness; the slot table, the uniqueness of names and the cause of the hole |
| `BonfireMembersProofs` | the bitmaps, the broadcast and the loop of a join |
| `BonfireHistoryProofs` | archives, and that joining misses and repeats nothing |
| `BonfirePrivateProofs` | the file of private channels, who is inside one, what stays on disk, the cause of the NULL channel |
| `BonfireRoomsProofs` | the refinement |
| `ConnectionProofs` | the two streams of a connection |
| `BonfireProofs` | what clients believe, with requests in flight |
| `BonfireAnswersProofs` | what clients know when their answers are in, with answers in flight as well |

Three models look at the system from three distances. `BonfireServer` has the
server's memory and takes clients as an environment that asks. `Bonfire` has the
client programs and takes the server as the rooms that it implements, so that
clients, wires and server fit in one state space. `Connection` has neither names
nor channels, only bytes: it justifies that the other two let whole messages
travel in order. `ChatRoom` is the joint between the first two: it is the
abstract specification that `BonfireServer` is shown to implement, and the
server half of `Bonfire`.

### The server: `BonfireServer`

A step is one turn of one of the loops of `main()`. `pc` says in which loop the
server is and `i` is that loop's variable, so everything the environment can do
*between* two turns (a peer connects or closes, the process is killed) is an
interleaving of the model. A handler runs in one step, as it does in the one
thread of the program; the places inside a handler where only a crash can
interfere (`save_private_channels`) have an action of their own,
`FriendInterrupted`.

* `Select`, `Accept`, `ReadsEnd`, `WritesEnd` are the iteration. `WritesEnd`
  adds `num_new_connections`, as the last line of the loop does.
  `SelectCrashes` is the `FD_SET` loop meeting a `NULL` slot.
* `SkipRead`, `ReadFails`, `Disconnect` are the outcomes of `read()` other than a
  whole message. A reset connection fails once (`ECONNRESET`) and reads as
  closed afterwards.
* `LogIn`, `LogInFails`, `StartChannel`, `StartFails`, `Join`, `JoinFails`,
  `Online`, `Befriend`, `FriendUnknown`, `Leave`, `Send`, `SendNowhere` are the
  branches of `handle_client_read`. Each carries every call of the branch: the
  reply, the notice to the channel that is left (`LeaveNotice`), the bits
  (`JoinBits`), the history, the notice to the new channel, the archive, both
  saves.
* `JoinCrashes`, `OnlineCrashes`, `FriendCrashes` are the scans of
  `private_channels[]` that reach a `NULL` channel. `ScanCrashes` follows the
  early return of the scan: what comes after its first hit is not read.
* `Write`, `WriteFails`, `WriteCrashes`, `SkipWrite` are
  `handle_client_write`. A write to a closed peer is accepted by the kernel and
  may bring a reset back; the write after that, even of no bytes, raises
  SIGPIPE, which the server does not handle.
* `archive_message` leaves the archive alone when the channel's name makes no
  file name (`Unfiled`: a name with a slash, for which `fopen` fails,
  `server.c:175-179`), and `Send` broadcasts all the same. `posted` remembers
  where each message was said, for properties to read.
* `PeerCloses` may come when requests are still unread: the server then answers
  them, and reads the end of the connection after them.
* `Launch` loads both kinds of files in any directory order; `Ends` forgets
  everything else. Memory that `malloc` leaves uninitialised is a choice:
  `FreshBitmaps` for a new channel's bitmap, `GarbageNames` and the behaviour
  `"residue"` for the `user_name` of a new client.

`handle_join_channel` is modelled by what its loop adds up to (`JoinBits`): it
visits every channel of the name in order, sets the bit there, clears it in the
channel the client was in and moves on. After the loop only the last of them has
the bit, and none has if the client was in the only one already. `JoinLoop` runs
the loop as it is written, and the invariant `LoopIsJoinBits` compares the two in
every state of `Persistence`, for every slot and every channel the client might
have been in.

`Behaviours` selects what the environment does (close, reset, kill, log in
again, ...). Every run names its set, chosen for the hazards that its properties
are about.

Abstractions: a message is an identity or a kind of reply; a buffer is counted
in messages; names are short sequences over a small alphabet, because private
channels are named by concatenation; `client_sockets` has `MaxConnections`
slots; the arrays that the code does not test (`channels[]`,
`private_channels[]`) are bounded by guards, as is the number of messages
ever sent. `OutCap` is the number of messages that the code's test lets in: 50,
because `CLIENT_OUT_BUF_SIZE` is 51 messages and the test is strict (that the
array is smaller is `Connection`'s subject). A save is taken to reach the disk
when the file is closed, which is so while the list fits in one stdio buffer; an
interrupted save leaves the file empty or as the first of the two saves left it.
The server module takes two things from the client program: nothing but LOGIN is
sent before a LOGIN was accepted, and no LOGIN once a channel was entered
(`handle_login` is over by then).

### What it promises: `ChatRoom` and `BonfireRooms`

`ChatRoom` has rooms by name, the room a client is *inside* and the rooms it
*hears*. They differ because the handlers make them differ: LEAVE clears
`active_channel` and not the bit, so who left still hears, and joining the
channel one is in clears the bit, so who rejoins does not. `BonfireRooms` maps
the bitmaps to what is heard, `out_buf` to the inbox, channels to their names and
`named` to the login name; steps of the loop that users do not see are
stutters. Connections stay up in `ChatRoom`: once a slot moves, the bitmaps mean
nothing that can be promised (`BitmapDrifts`).

### One connection: `Connection`

Every byte knows its message and its place in it. `Collects` is the
`read()`-until-328-bytes of both programs, `Moves` is `write()`. The server's
thread is its loop as this one client sees it: during the read loop others and
the client's own requests queue answers (`Queue`), then it reads (`ServerReads`),
then it writes (`ServerWrites`), and the socket blocks, so `write()` may stay at
`"writing"` until the kernel has everything. The client's thread alternates
between socket and keyboard (`handle_server_message`, `handle_user_input`), takes
one key per turn from stdio (`getchar` takes all that the terminal has into
stdio, and only when stdio is empty), completes a line at a newline or when the
buffer is full, and writes up to two requests per line
(`send_message_to_server`). After a message was copied past the end of
`out_buf`, nothing is said of what follows (`Alive`).

### The whole: `Bonfire`

`at` is where `main()` of a client is: connecting, asking for a name, waiting for
the answer, loading the list, chatting. `handle_login` takes the first message
for the answer and, with the habit `"short_read"`, misreads an answer that comes
in two pieces (`client.c:288`: the second piece is stored at eight times its
offset). `JoinCommand`, `CreateCommand`, `LeaveCommand`, `ChannelsCommand`,
`Line`, `FriendCommand` are what `command_handler` and `main()` do with a line:
the client sets `in_channel` and `current_channel` and sends, the list request
first, without waiting for an answer. The server takes one request per step
(`TakesLogin`, `TakesJoin`, ...) and `Write` hands an inbox to the wire. `told`,
`refused` and `confused` are history variables that only properties read.

## Runs

| Run | Asks | Instance |
|---|---|---|
| `Sessions` | Is the table sound, are names unique, is a closed connection freed, whatever the order of acceptances, closings, resets and stalls? | 3 clients, 1 name, 3 slots, no channel |
| `Rooms` | Is every step one of `ChatRoom`, is what anybody is sent archived, do archives only grow, while clients move, leave, rejoin and talk and the server is killed? | 3 clients, 2 channels, one of them without a file, 2 messages, buffers of 2 |
| `Joining` | Is history followed by live messages the archive? | 3 clients, 1 channel, 2 messages, buffers of 5, sockets that stall |
| `Friends` | Do only the invited and namesakes enter, do names stay unique, do invitations survive clean restarts, do bitmaps go wrong for a named cause only, while slots move? | 2 clients that come and go under 3 names that collide, 2 private channels |
| `Persistence` | Do file and memory agree with kills and crashes anywhere, is the loop of a join what the model says, do bitmaps go wrong for a named cause only, and do messages reach their room while they are right? | 2 clients, 2 channels, 2 entries, 1 message, clear or dirty memory |
| `Chat` | Do clients and server agree in the end on who is where and who is called what, and do messages land where they were meant? | 2 clients, 2 names, 2 rooms, 3 logins, 3 commands |
| `Connection` | Do messages arrive whole, once and in order, and in the end, under every split and with writes that block? | messages and wires of 2 bytes, 3 answers, 4 keys |
| `BitmapDrifts` | (violated) Do the bitmaps say who is in a channel, always? | 2 clients, 1 channel |
| `HoleInTable` | (violated) Is the table dense at the top of the loop? | 3 clients |
| `NullChannel` | (violated) Is a private channel without an archive handled after a restart? | 2 clients, 1 private channel |
| `InvitesLost` | (violated) Do invitations survive every restart? | 2 clients, 2 private channels |
| `Overrun` | (violated) Does `out_buf` hold what its test lets in? | one connection, 3 answers |

Why the bounds are enough. Three slots let a shift move a client into the slot
that was just read while another connection waits beyond `count`, and one more
connection adds only copies of these cases. One name is enough to collide.
Two channels are a channel to leave and one to enter; two messages are one
before a join and one after it. `Rooms` has buffers of 2 so that they fill and
messages are dropped; `Joining` has buffers of 5, the entry with its notices
and both messages, so that a whole entry is seen at once; `Persistence` has
buffers of 1, which the one message fills; in `Sessions` and `Friends`, which are
not about buffers, `OutCap` is 0 and every message is dropped at once, which
leaves control as it is and saves states. In `Friends` a client that
disconnects comes back under another name, so that slots and `Client` structures
change owners, and one that has entered no channel may log in again under another
(`"relogin"`, a misread answer of the client program). The names are `a`, `bc`
and `ab`: `abc` is the channel of the friends `a` and `bc`, and also what `ab` is
taken to mean by `c`. `Persistence` allows repeated friend requests, so that two
channels of one name exist when the loop runs and when a message is broadcast.

In `Chat` two clients share names and rooms, one of them can be refused what the
other took, and three commands are enough for an entry, a refused entry and a
message or a leave, all in flight at once; three logins allow one misread
answer. The inboxes (`Capacity`) never fill there: dropped messages are the
server runs' subject. `Connection` scales sizes and keeps their order: a message
is 2 bytes, so that it can be split; `OutArray` lies between `OutTest` less two
messages and `OutTest` less one, as 16384 lies between 16072 and 16400; the wire
holds one message, so that writes block; a line of 2 characters fills up; four
keys are a burst left in stdio and the key that frees it.

Clients are interchangeable in all formulas, so the server's runs use them as a
symmetry set, but `Sessions`: it checks a liveness property, for which symmetry
is not sound. `Chat` adds names and rooms, which its formulas compare only for
equality. Deadlock is checked in every server run: the server always has a next
step; when it waits in `select()` with no client it waits for a connection,
which the environment can always provide. `Chat`, `Connection` and `Overrun` say
`CHECK_DEADLOCK FALSE` because there users may stop typing, and then everything
rightly rests.

Fairness. `BonfireServer!FairSpec` is `Spec` with weak fairness of `ServerStep`:
`select()`, `read()` and `write()` return and the loop goes on; and with strong
fairness of `Disconnect`: what a peer sent before it closed is finite, so when
the server keeps reading a connection that was closed it comes to its end. Nothing
else is assumed of peers, nothing of the operator: a
socket may stay unwritable for ever in `Sessions`. Under that assumption
`ClosedIsRemoved` says that the client that the read loop skips after each
removal is still freed. The assumption is where that model is kinder than the
code: sockets block, and a peer that never reads can stop the server in
`write()`. `Connection!FairSpec` is not so kind: it has weak fairness of each
program's loop, a blocked `write()` disables that loop, and `QueuedIsShown` has to
excuse the one case that the two loops cannot leave, `Deadlocked`: both programs
are inside `write()` with both directions full. TLC reaches that state. Nothing
is assumed of the user: `StuckKeysAreFreed` speaks of a key that stdio holds
while the terminal has another, not of the user pressing one.

### What the violations show

* `BitmapDrifts` (`server.c:325`). One client is in a channel and disconnects:
  the bit of its slot stays set in a table without it. With a second client, which
  moves into that slot, the bit is that client's, in a channel it never joined.
  `LEAVE` (`server.c:439`), joining the channel one is in (`channels.c:44`) and
  an uninitialised bitmap (`channels.c:30`) break the same invariant.
  `DriftHasACause`, checked in `Friends` and `Persistence` and proved, says that
  there is no fifth way.
* `HoleInTable` (`server.c:295`). One client closes in the iteration that
  accepts another. The new one is at slot `count`, the shift stops before it,
  and at the end `count` includes a slot that is `NULL`: the next `FD_SET` loop
  dereferences it.
* `NullChannel` (`channels.c:158`). A friend request, no message, a restart: the
  entry's channel is `NULL` and the next JOIN, ONLINE or FRIEND ends the process.
* `InvitesLost` (`channels.c:119`). After the same restart, FRIEND adds an entry
  and saves: the file is truncated, then the `NULL` channel is dereferenced. At the
  next start there are no private channels.
* `Overrun` (`server.c:487`, `entities.h:57`). The test compares with
  `CLIENT_OUT_BUF_SIZE`, 51 messages or 16728 bytes; the array has 16384. The
  50th message that waits ends at 16400. Joining a channel with 49 archived
  messages is enough to queue 50. `SmallTestFits` proves that the constant is
  the whole defect: with any test of at most the array's size it cannot happen.

## Proofs

All theorems hold for every value of the constants under the assumptions that
the modules state by name and TLC evaluates (`NullAssumption`,
`NamesAssumption`, `BitmapsAssumption`, `BoundsAssumption`,
`BehavioursAssumption` of `BonfireServer`; `SizesAssumption`, `BoundsAssumption`
of `Connection`; `CapacityAssumption` of `ChatRoom`; `HabitsAssumption`,
`LinesAssumption`, `RoomNamesAssumption` of `Bonfire`).

| Theorem | Says | Argument |
|---|---|---|
| `TypeCorrect` (server) | `Spec => []TypeOK` | with `Stopped`: a server that is down has empty tables |
| `TableAlwaysSound` | `Spec => []TableSound` | `TableInv`, below |
| `NamesUnique` | `Spec => []UniqueNames` | `TableInv`: whoever is named is below `count`, and `verify_username` looks there |
| `DenseUnlessLate` | `Spec => []TableDense`, and `SelectCrashes` is never taken, if `NoneLate` | `Dense`: while a connection waits beyond `count`, `read_fds` is empty |
| `ArchivesOnlyGrow` | `Spec => ArchiveAppendOnly` | only `Send` writes archives, at the end of one |
| `QueuedIsArchived` | `Spec => []ShownIsArchived` | `Labelled` (an archive holds what was said in its channel): a message is queued live, archived unless the name is in `Unfiled`, or from an archive; and archives only grow |
| `JoinsAreSeamless` | `Spec => []SeamlessJoin`, if `Orderly` and `NoTwins` | `Seamless` and `Rooted`, below, on top of `RoomHears` |
| `FileMirrorsMemory` | `Spec => []StoreMatches` | inductive with the types: entries have channels below `num_channels`, where names do not change |
| `MembersTracked` | `Spec => DriftHasACause` | a lemma per action, on top of `TableInv` and `InsideNamed`, below |
| `RoomsHear` | `Spec => BroadcastReachesRoom` | the bits of the first channel of the name are of those in it, each at one slot (`TableInv`) |
| `JoinLoopClosed` | `Spec => []LoopIsJoinBits` | induction over the turns of the loop, below |
| `OnlyTheInvited` | `Spec => []OnlyInvitedInside` | inductive with the types, `TableInv` and `InsideNamed`, below |
| `InvitationsKept` | `Spec /\ []Tidy => InvitesSurvive`, without `"kill_in_save"` | file and memory agree, and `FRIEND` only adds to the list |
| `NullOnlyUnarchived` | `Spec /\ []FileBacked => []NullChannelHandled` | `Tidy` is kept: a restart finds every name of the file, a friend request makes its channel first |
| `ServerImplementsRooms` | `Spec => ImplementsRooms`, if `Connected` and `NoTwins` | a step lemma per action, on top of `TableInv` and `Calm` |
| `TypeCorrect` (connection), `ClientShowsInOrder`, `ServerServesInOrder` | types and order of both directions | `ConnectionInv`, below |
| `SmallTestFits` | no overrun if `OutTest <= OutArray` | |
| `ChatTypeCorrect` | `Spec => []TypeOK` of `Bonfire` | with: in a channel means in a named one |
| `MenuIsOutside` | `Spec => []MenuMeansOutside` | `Beliefs`, below |
| `MessagesLand` | `Spec => LandsWhereMeant` | `Beliefs` |
| `NamesAgree` | `Spec => []NameAgrees` | `Naming`, below |
| `BelievesWhereItIs` | `Spec /\ [][AnswersFit]_vars => []BelievesRightly` | `Naming` and `Informed`, below |
| `ListHasArrived` | `Spec /\ [][AnswersFit]_vars => []ListArrives` | `Informed` |

`TypeOK` of the server is not inductive: `Launch` keeps `active_channel`, which
points into the new `channels[]` only because it was `NULL` while the server was
down. `Stopped` says so.

`TableSound` is not inductive: `Accept` overwrites `clients[count]`. That the slot
is free is the conjunct `TailFree`. It cannot simply say that the slots from
`count` on are empty at the top of the loop, because that is false after an
iteration that accepts and disconnects; it says that they are, *or* that there
is a hole below `count`, and then the `FD_SET` loop ends the process before the
next `Accept`. The defect that `HoleInTable` shows is what makes the table sound
in the memory-safety sense. `NamedCounted` (a logged-in client has a slot below
`count`) makes the comparison of `verify_username` complete.

`MembersTracked` assumes nothing of the environment. It takes a state in which the
bitmaps are exact and asks what can make them wrong in one step: `Lingers`,
`SlotsMove`, `Rejoins` and `DirtyBitmap` are the four defects, stated as what has to
be the case for them to bite (a disconnection above everybody who is in a channel
is harmless; so is a second JOIN of a name that has a twin). What it needs is
`InsideNamed`, whoever is in a channel has logged in and so sits below `count`:
otherwise a shift could move a member that the loop does not see. `RoomsHear` is
also about every behaviour: whenever the bitmaps are right, however they came to
be, a message goes to the first channel of its name. Where a repeated friend request
made twins, that need not be the sender's own.

The refinement allows leaving and rejoining, because `ChatRoom`
tells what one hears from where one is. `Connected` excludes only connections
that end and dirty bitmaps. `Calm` adds to the table what the mapping reads: the
bits that are set belong to slots below `count`, whoever is inside has logged in
under a name that was typed, and names of channels are unique, so that the first
channel of a name is *the* room. The run `Rooms` checks the same
refinement, leaving, rejoining and kills included; the theorem adds friend requests.

`OnlyInvitedInside` is about names. JOIN asks whether the user may enter the name
it typed and then enters what a concatenation finds. With names of several
letters the two can differ: with a channel of the friends `a` and `bc`, a user
`ab` who types `c` is let into `abc`, and run `Friends` has just these names. The
property says how far that goes: whoever is inside was invited to a
channel of that name, or typed a name that makes it with its own before or after
(`Namesake`). The theorem holds for all names and all behaviours. Its argument is
that nobody changes names inside a channel, that entries keep their channels and
invitations, and that a friend request enters a channel of its own, so that
only `Join` and `Befriend` let anybody in; `Join` enters either the name it asked
about, or what `FriendHits` found.

`InvitationsKept` has the two conditions that `InvitesLost` shows to be needed,
`Tidy` (no entry has a `NULL` channel) and no stop inside a save, and no other:
kills, crashes of other kinds and restarts keep every invitation.

Two more of the violated runs have a theorem that names the cause and says that
there is no other. `DenseUnlessLate` is for `HoleInTable`: without a client that is found
closed in the iteration that accepts another (`NoneLate`), no order of closings,
resets and stalls leaves a hole. `NullOnlyUnarchived` is for `NullChannel`: if every name in
the file of private channels has an archive whenever the server is down
(`FileBacked`, a condition that `clean_kill` meets), no entry is ever `NULL` and no scan
ends the process.

`SeamlessJoin` compares a queue with an archive. `Told` says it of one buffer with its last
entry named, counting instead of filtering: there are as many messages of the
channel after the entry as the archive has, and each is the one that its rank
among them says. `Seamless` (every client inside is `Told` its archive) is kept because
quiet messages change no rank, a live message goes to the end of both by
`RoomHears`, a full buffer is excused until it is written, which leaves no entry in it,
and a join queues the whole archive after the entry or fills the buffer. A client
that starts a channel is told nothing, and nothing was archived under that name:
that needs `Rooted`, every archive has a channel while the server runs, which a
restart establishes. The theorem is for behaviours that keep the bitmaps exact throughout
(`Orderly`: nobody leaves, rejoins, closes or resets, new memory is clear) and make no
twins (`NoTwins`): a client that still hears another channel, or no longer hears its own,
is sent something else than the archive. Kills, restarts, friend requests, stalls and repeated
logins are all in.

`LoopIsJoinBits` is an induction over the turns of `handle_join_channel`. The induction
theorems of the library cannot be instantiated, but induction over a *set* of
numbers can be proved: `SetInduction` says that a set that holds 0 and the successor of
each of its numbers holds every natural number, because otherwise the numbers up to a
missing one could be moved up by one into one place less, against the pigeonhole
principle (`FS_PigeonHole`). `TurnsExist` defines the turns up to any channel by it, and
`TurnedRight`, proved turn by turn, says that after channel `k` the bitmaps are as `JoinBits`
has them for the channels of that name up to `k`.

For a connection, `Streams` says that what the client has collected, what the
kernel holds and what is in `out_buf`, read in this order, are the bytes of the
messages between the last one displayed and the last one queued, without a gap;
and the same for requests. `Carries` states it byte by byte without recursion (the
first byte starts a message, the last ends one, each byte is followed by the
next of its message or by the first of the next message), which is why it
survives cutting and gluing. `Idle` says that nothing waits to be sent unless
the client is inside `write()`.

For the whole, the state that a client believes in lies in the future: it is
true when all of its requests have been taken. `Meant` and `Out` therefore read
the requests in flight: the last one that moves the client enters the channel it
believes in, or none moves it and it is there already or was refused. `Beliefs`
states this for the client now and for every message on its way, and is kept by
taking a request from the front as well as by adding one at the end.

`BonfireAnswersProofs` follows the answers as well. `Pipe` is what the server has
queued for a client and the connection carries, in order. `Naming`: a client that waits
for its name has one LOGIN on its way or one answer, never both, and an
acceptance is of the name it typed (`Called`); and nobody is in two rooms
(`AtMostOne`). `Informed`: a client in a channel will be in the one it believes in
once its requests are taken, or the last answer about channels, in the pipe or
already displayed, is a refusal (`Placed`, which is `Meant` with the refusals still to
come); and the list was parsed, is on its way or is asked for (`Served`). An answer
that is dropped because the buffer is full breaks both, as it does in the code: the
client then waits for nothing and believes what it believed. `AnswersFit` says of a
behaviour that no answer to JOIN, START or ONLINE meets a full buffer. It is needed:
with `Capacity = 1` `BelievesRightly` is violated; and it is met in `Chat`, where 20 places never
fill. `NamesAgree` needs no such condition.

Steps are sorted once per module (`StepKinds`): those that end the process, those
that only queue a message, and the rest; each invariant has a lemma per action
that disturbs it.

Every safety and action property of the passing runs is a theorem. Only
model-checked is liveness (`ClosedIsRemoved`, `QueuedIsShown`, `StuckKeysAreFreed`), which
TLAPS does not reach.

## Plan

What is built: the server, its abstract specification and the refinement, one
connection in bytes, the client program, their composition, and the theorems
above. What would extend it:

1. The end of a client (`/exit`) and of the server in the composition, which needs
   a `ChatRoom` in which connections end.
2. `Commands`: the lengths that the parser computes by subtraction, and the size
   of the ONLINE text, as arithmetic with a width.
3. A refinement of `ChatRoom` with buffers by `Connection` with sizes, so that one
   theorem goes from bytes to rooms.

## Not modelled

* Socket set-up, and the limit on descriptors of an `fd_set`.
* In the composition: `/exit`, the end of the server, and the loops of a client
  whose server is gone, which spin because `read()` returns 0 at once.
* The text of the ONLINE reply and its size, the wording of notices, the length of
  a command's argument; every `/join` and `/create` of the model has a name.
* The character that is lost when a line fills its buffer; end of file on
  standard input.
* Rendering: prompts, menus, colours, emoji, ASCII art. The comment at
  `client.c:468` ("erase the current input") describes backspaces that only move
  the cursor. The menu shows whatever list was parsed last; when it is drawn
  relative to the list is modelled (`render_menu`), what it shows is not.
* `num_members` of a channel, which is counted up and never read.
* Failures of `malloc` and `accept`, and of `fopen` for a reason other than a name
  with a slash (no descriptors, a full disk); names such as `../x` that open a file
  elsewhere; a torn record at the end of an archive.
* The build.
