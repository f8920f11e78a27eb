------------------------------ MODULE Connection ------------------------------
(***************************************************************************)
(* One connection, byte by byte, with the two programs at its ends: a      *)
(* Message is MsgSize bytes, read() and the kernel split the streams where *)
(* they like, and both sockets block.  The server's thread is the loop of  *)
(* main() (read, then write) as one of its clients sees it; the client's   *)
(* is its own loop (socket, then keyboard), which takes a key from stdio   *)
(* and not from the descriptor that it selects on.                         *)
(***************************************************************************)
EXTENDS Integers, Sequences

CONSTANTS
    MsgSize,     \* sizeof(Message), 328 bytes
    OutArray,    \* what Client.out_buf holds, 16384 bytes (entities.h:57)
    OutTest,     \* CLIENT_OUT_BUF_SIZE, 51 messages or 16728 bytes (server.c:40)
    WireSize,    \* bytes that the kernels hold in each direction
    LineSize,    \* what stdin_msg_buf holds, 256
    MaxKeys,     \* bound on the keys that are pressed
    MaxReplies   \* bound on the messages that are queued for the client

ASSUME SizesAssumption ==
    /\ MsgSize \in Nat \ {0}
    /\ WireSize \in Nat \ {0}
    /\ OutArray \in Nat /\ OutTest \in Nat
    /\ LineSize \in Nat \ {0}
ASSUME BoundsAssumption == MaxKeys \in Nat /\ MaxReplies \in Nat

VARIABLES
    server,       \* where the server's loop is: "read", "write", or inside write()
    out_buf,      \* Client.out_buf
    in_buf,       \* Client.in_buf
    queued,       \* how many messages were copied to out_buf, the identity of one
    served,       \* the requests that the server acted on
    overrun,      \* a message was copied past the end of out_buf
    down, up,     \* what the kernels hold
    client,       \* where the client's loop is: "socket", "key", or inside write()
    soc_msg_buf,  \* soc_msg_buf
    shown,        \* the messages that the client displayed
    out_msg_buf,  \* requests of the client that write() has not taken yet
    asked,        \* how many requests were made, the identity of one
    tty,          \* keys that the terminal holds
    stdio,        \* keys that stdio took from it
    line,         \* stdin_msg_size
    pressed       \* how many keys were pressed

serverVars == <<server, out_buf, in_buf, queued, served, overrun>>
clientVars == <<client, soc_msg_buf, shown, out_msg_buf, asked, line>>
keyVars    == <<tty, stdio, pressed>>
vars == <<serverVars, down, up, clientVars, keyVars>>

Keys == {"letter", "backspace", "newline"}

\* A byte knows its message and its place in it; a message is known by its bytes.
Bytes(m) == [k \in 1 .. MsgSize |-> [id |-> m, at |-> k]]
Torn == 0
Decode(s) == IF s = Bytes(s[1].id) THEN s[1].id ELSE Torn

Init ==
    /\ server = "read" /\ out_buf = <<>> /\ in_buf = <<>>
    /\ queued = 0 /\ served = <<>> /\ overrun = FALSE
    /\ down = <<>> /\ up = <<>>
    /\ client = "socket" /\ soc_msg_buf = <<>> /\ shown = <<>>
    /\ out_msg_buf = <<>> /\ asked = 0
    /\ tty = <<>> /\ stdio = <<>> /\ line = 0 /\ pressed = 0

-----------------------------------------------------------------------------
\* A call of write() moves what fits, one of read() at most what was asked for.
Moves(from, to, room) ==
    \E n \in 1 .. Len(from) :
        /\ n <= room
        /\ from' = SubSeq(from, n + 1, Len(from))
        /\ to' = to \o SubSeq(from, 1, n)

\* Mutant: the buffer is emptied whether or not the message is complete.
Collects_forgets_part(from, buf, done) ==
    \E n \in 1 .. Len(from) :
        LET got == buf \o SubSeq(from, 1, n)
        IN  /\ Len(got) <= MsgSize
            /\ from' = SubSeq(from, n + 1, Len(from))
            /\ buf' = <<>>
            /\ IF Len(got) = MsgSize
               THEN done' = Append(done, Decode(got)) ELSE UNCHANGED done
\* A message is acted on when its last byte is there, and the buffer emptied.
Collects(from, buf, done) ==
    \E n \in 1 .. Len(from) :
        LET got == buf \o SubSeq(from, 1, n)
        IN  /\ Len(got) <= MsgSize
            /\ from' = SubSeq(from, n + 1, Len(from))
            /\ IF Len(got) = MsgSize
               THEN buf' = <<>> /\ done' = Append(done, Decode(got))
               ELSE buf' = got /\ UNCHANGED done

(***************************************************************************)
(* The server.  Its read loop queues answers and what others say; the test *)
(* lets in every message that leaves out_buf_size below OutTest, and the   *)
(* one that ends beyond OutArray overwrites in_buf_size and out_buf_size   *)
(* and what malloc keeps after the Client: nothing is said of what follows *)
(***************************************************************************)
Alive == ~overrun

Queue ==
    /\ Alive /\ server = "read" /\ queued < MaxReplies
    /\ Len(out_buf) + MsgSize < OutTest
    /\ queued' = queued + 1
    /\ out_buf' = out_buf \o Bytes(queued + 1)
    /\ overrun' = (Len(out_buf') > OutArray)
    /\ UNCHANGED <<server, in_buf, served, down, up, clientVars, keyVars>>

\* Mutant: an iteration without a request goes back to select().
ServerReads_again ==
    /\ Alive /\ server = "read"
    /\ \/ up = <<>> /\ UNCHANGED <<up, in_buf, served, server>>
       \/ Collects(up, in_buf, served) /\ server' = "write"
    /\ UNCHANGED <<out_buf, queued, overrun, down, clientVars, keyVars>>
ServerReads ==
    /\ Alive /\ server = "read" /\ server' = "write"
    /\ \/ up = <<>> /\ UNCHANGED <<up, in_buf, served>>
       \/ Collects(up, in_buf, served)
    /\ UNCHANGED <<out_buf, queued, overrun, down, clientVars, keyVars>>

\* select() did not find the socket writable, or there is nothing to write.
SkipWrite ==
    /\ Alive /\ server = "write"
    /\ out_buf = <<>> \/ Len(down) = WireSize
    /\ server' = "read"
    /\ UNCHANGED <<out_buf, in_buf, queued, served, overrun, down, up, clientVars,
                   keyVars>>

\* write() returns when the kernel has all of out_buf.
ServerWrites ==
    /\ Alive /\ server \in {"write", "writing"}
    /\ Moves(out_buf, down, WireSize - Len(down))
    /\ server' = IF out_buf' = <<>> THEN "read" ELSE "writing"
    /\ UNCHANGED <<in_buf, queued, served, overrun, up, clientVars, keyVars>>

-----------------------------------------------------------------------------
(***************************************************************************)
(* The client.  select() reports the socket and the terminal together.     *)
(***************************************************************************)
handle_server_message ==
    /\ Alive /\ client = "socket"
    /\ \/ down = <<>> /\ tty # <<>> /\ UNCHANGED <<down, soc_msg_buf, shown>>
       \/ Collects(down, soc_msg_buf, shown)
    /\ client' = IF tty = <<>> THEN "socket" ELSE "key"
    /\ UNCHANGED <<serverVars, up, out_msg_buf, asked, line, keyVars>>

\* getchar() empties the terminal into stdio when stdio is empty, and only then.
Buffered == IF stdio = <<>> THEN tty ELSE stdio

\* Mutant: what the terminal holds is added to stdio at every call.
getchar_appends ==
    /\ stdio' = Tail(stdio \o tty)
    /\ tty' = <<>>
    /\ UNCHANGED pressed
getchar ==
    /\ stdio' = Tail(Buffered)
    /\ tty' = IF stdio = <<>> THEN <<>> ELSE tty
    /\ UNCHANGED pressed

\* Mutant: only a newline completes a line.
Complete_at_newline(k, n) == k = "newline"
Complete(k, n) == k = "newline" \/ n = LineSize
LineAfter(k) == IF k = "backspace" THEN (IF line > 0 THEN line - 1 ELSE 0) ELSE line + 1

\* A line brings on up to two requests: /help none, a message one, /join two.
Requests(n) == CASE n = 0 -> <<>>
                 [] n = 1 -> Bytes(asked + 1)
                 [] n = 2 -> Bytes(asked + 1) \o Bytes(asked + 2)

handle_user_input ==
    /\ Alive /\ client = "key"
    /\ getchar
    /\ LET k == Head(Buffered)
           n == LineAfter(k)
       IN  \/ /\ ~Complete(k, n)
              /\ line' = n /\ client' = "socket"
              /\ UNCHANGED <<out_msg_buf, asked>>
           \/ /\ Complete(k, n) /\ line' = 0
              /\ \E requests \in IF k = "newline" /\ n <= 1 THEN {0} ELSE 0 .. 2 :
                    /\ out_msg_buf' = Requests(requests)
                    /\ asked' = asked + requests
                    /\ client' = IF requests = 0 THEN "socket" ELSE "writing"
    /\ UNCHANGED <<serverVars, down, up, soc_msg_buf, shown>>

\* Mutant: a write that took less than a message is not repeated.
send_message_to_server_once ==
    /\ Alive /\ client = "writing" /\ client' = "socket"
    /\ \E n \in 1 .. Len(out_msg_buf) : /\ n <= WireSize - Len(up)
                                        /\ up' = up \o SubSeq(out_msg_buf, 1, n)
    /\ out_msg_buf' = <<>>
    /\ UNCHANGED <<serverVars, down, soc_msg_buf, shown, asked, line, keyVars>>
send_message_to_server ==
    /\ Alive /\ client = "writing"
    /\ Moves(out_msg_buf, up, WireSize - Len(up))
    /\ client' = IF out_msg_buf' = <<>> THEN "socket" ELSE "writing"
    /\ UNCHANGED <<serverVars, down, soc_msg_buf, shown, asked, line, keyVars>>

Press(k) ==
    /\ Alive /\ pressed < MaxKeys
    /\ pressed' = pressed + 1
    /\ tty' = Append(tty, k)
    /\ UNCHANGED <<serverVars, down, up, clientVars, stdio>>

Server == ServerReads \/ SkipWrite \/ ServerWrites
Client == handle_server_message \/ handle_user_input \/ send_message_to_server
Next == Queue \/ Server \/ Client \/ \E k \in Keys : Press(k)

(***************************************************************************)
(* Both loops go on as long as no write() blocks.  Nothing is assumed of   *)
(* the user or of what others say.                                         *)
(***************************************************************************)
Spec == Init /\ [][Next]_vars
FairSpec == Spec /\ WF_vars(Server) /\ WF_vars(Client)

-----------------------------------------------------------------------------
(***************************************************************************)
(* Types; no buffer of the client's or of a message in the making is       *)
(* written past its end (client.c:564, 437, server.c:306).                 *)
(***************************************************************************)
Byte == [id: Nat \ {0}, at: 1 .. MsgSize]
TypeOK ==
    /\ server \in {"read", "write", "writing"}
    /\ client \in {"socket", "key", "writing"}
    /\ out_buf \in Seq(Byte) /\ in_buf \in Seq(Byte)
    /\ down \in Seq(Byte) /\ up \in Seq(Byte)
    /\ soc_msg_buf \in Seq(Byte) /\ out_msg_buf \in Seq(Byte)
    /\ Len(in_buf) < MsgSize /\ Len(soc_msg_buf) < MsgSize
    /\ Len(down) <= WireSize /\ Len(up) <= WireSize
    /\ queued \in Nat /\ asked \in Nat
    /\ shown \in Seq(Nat) /\ served \in Seq(Nat)
    /\ overrun \in BOOLEAN
    /\ tty \in Seq(Keys) /\ stdio \in Seq(Keys)
    /\ line \in 0 .. LineSize - 1
    /\ pressed \in Nat

(***************************************************************************)
(* However the streams are split, the client displays the messages queued  *)
(* for it and the server serves the requests of the client: whole, each    *)
(* once, in order, without a gap (server.c:302-341, 456-470,               *)
(* client.c:434-452, 629-639).                                             *)
(***************************************************************************)
InOrder(done) == \A k \in DOMAIN done : done[k] = k
ShownInOrder  == InOrder(shown)
ServedInOrder == InOrder(served)

(***************************************************************************)
(* "2^14 bytes" (server.c:39): what the test lets in fits in out_buf.      *)
(***************************************************************************)
OutBufFits == Len(out_buf) <= OutArray

(***************************************************************************)
(* A message that was queued is displayed in the end, unless out_buf was   *)
(* overrun or both programs are inside write(), each waiting for the other *)
(* to read (server.c:459, client.c:632).                                   *)
(***************************************************************************)
Deadlocked ==
    /\ server = "writing" /\ Len(down) = WireSize
    /\ client = "writing" /\ Len(up) = WireSize
QueuedIsShown ==
    \A m \in 1 .. MaxReplies : queued >= m ~> Len(shown) >= m \/ overrun \/ Deadlocked

(***************************************************************************)
(* The last keys of a burst stay in stdio, where select() does not see     *)
(* them, but not for ever: once another key is pressed, all that stdio     *)
(* holds is handled (client.c:192-207, 555).                               *)
(***************************************************************************)
Handled == pressed - Len(tty) - Len(stdio)
StuckKeysAreFreed ==
    \A k \in 1 .. MaxKeys :
        k <= pressed - Len(tty) /\ tty # <<>> ~> Handled >= k \/ overrun \/ Deadlocked
=============================================================================
