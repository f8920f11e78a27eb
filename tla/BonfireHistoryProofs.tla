------------------------- MODULE BonfireHistoryProofs -------------------------
(***************************************************************************)
(* The archives of BonfireServer and what clients are sent of them, for    *)
(* every value of the constants: archives only grow, what is queued as a   *)
(* message is in the archive of its channel, and joining misses and        *)
(* repeats nothing.                                                        *)
(***************************************************************************)
EXTENDS BonfireMembersProofs

-----------------------------------------------------------------------------
(***************************************************************************)
(* Archives.                                                               *)
(***************************************************************************)
ArchivesGrow ==
    \A n \in DOMAIN archive :
        n \in DOMAIN archive' /\ IsPrefixOf(archive[n], archive'[n])

\* What did not change grew by nothing.
LEMMA SameArchivesGrow ==
    ASSUME DiskType, archive' = archive
    PROVE  ArchivesGrow
<1>1. \A n \in DOMAIN archive : Len(archive[n]) \in Nat
  BY LenProperties DEF DiskType
<1> QED BY <1>1 DEF ArchivesGrow, IsPrefixOf

\* A message is put at the end of one archive.
LEMMA SendGrows ==
    ASSUME TypeOK, NEW c \in Clients, Send(c)
    PROVE  ArchivesGrow
<1> DEFINE n == ActiveName(c)
<1> SUFFICES ASSUME n \notin Unfiled PROVE ArchivesGrow
  BY SameArchivesGrow DEF Send, archive_message, TypeOK
<1>1. archive' = [m \in DOMAIN archive \cup {n} |->
                     IF m = n THEN Append(Archived(n), sent + 1) ELSE archive[m]]
  BY DEF Send, archive_message
<1> HIDE DEF n
<1>2. ASSUME NEW m \in DOMAIN archive
      PROVE  m \in DOMAIN archive' /\ IsPrefixOf(archive[m], archive'[m])
  <2>1. archive[m] \in Seq(Nat)
    BY DEF TypeOK, DiskType
  <2>2. Len(archive[m]) \in Nat /\ DOMAIN archive[m] = 1 .. Len(archive[m])
    BY <2>1, LenProperties
  <2>3. CASE m = n
    <3>1. Archived(n) = archive[m] /\ archive'[m] = Append(archive[m], sent + 1)
      BY <1>1, <2>3 DEF Archived
    <3>2. sent + 1 \in Nat
      BY BoundsAssumption DEF TypeOK, DiskType
    <3>3. /\ Len(Append(archive[m], sent + 1)) = Len(archive[m]) + 1
          /\ \A j \in 1 .. Len(archive[m]) : Append(archive[m], sent + 1)[j] = archive[m][j]
      BY <2>1, <3>2, AppendProperties
    <3> QED BY <1>1, <2>2, <2>3, <3>1, <3>3 DEF IsPrefixOf
  <2>4. CASE m # n
    BY <1>1, <2>2, <2>4 DEF IsPrefixOf
  <2> QED BY <2>3, <2>4
<1> QED BY <1>2 DEF ArchivesGrow

(***************************************************************************)
(* No step of the server, no end of the process and no restart drops or    *)
(* changes a message that was archived (server.c:164-184).                 *)
(***************************************************************************)
THEOREM ArchivesOnlyGrow == Spec => ArchiveAppendOnly
<1>1. TypeOK /\ [Next]_vars => ArchivesGrow
  BY SendGrows, OnlySendArchives, SameArchivesGrow DEF TypeOK
<1>2. TypeOK /\ [Next]_vars => [ArchivesGrow]_vars
  BY <1>1
<1>3. Spec => [][ArchivesGrow]_vars
  BY <1>2, TypeCorrect, PTL DEF Spec
<1> QED BY <1>3 DEF ArchivesGrow, ArchiveAppendOnly

-----------------------------------------------------------------------------
(***************************************************************************)
(* What is queued was archived under the name of the channel it was said   *)
(* in, if that name makes a file name.  What an archive holds was said in  *)
(* the channel of its name (Labelled), which is what a history relies on.  *)
(***************************************************************************)
Kept(store, n, id) == n \in DOMAIN store /\ \E k \in DOMAIN store[n] : store[n][k] = id
IsChat(m) == m.action \in {"SEND", "HIST"}
Fits(store, names, m) ==
    IsChat(m) => /\ m.id \in DOMAIN names
                 /\ \/ Kept(store, names[m.id], m.id)
                    \/ m.action = "SEND" /\ names[m.id] \in Unfiled
ChatKept(store, names, q) == \A j \in DOMAIN q : Fits(store, names, q[j])
AllKept(store, names, buf) == \A c \in Clients : ChatKept(store, names, buf[c])
Labelled ==
    \A n \in DOMAIN archive : \A k \in DOMAIN archive[n] :
        archive[n][k] \in DOMAIN posted /\ posted[archive[n][k]] = n

\* A message that is no chat, or was archived, is queued at no risk.
LEMMA AppendKept ==
    ASSUME NEW q \in Seq(Messages), ChatKept(archive, posted, q), NEW m \in Messages,
           Fits(archive, posted, m)
    PROVE  ChatKept(archive, posted, Append(q, m))
<1>1. /\ DOMAIN Append(q, m) = 1 .. Len(q) + 1 /\ DOMAIN q = 1 .. Len(q)
      /\ Append(q, m)[Len(q) + 1] = m
      /\ \A j \in 1 .. Len(q) : Append(q, m)[j] = q[j]
  BY AppendProperties, LenProperties
<1> QED BY <1>1 DEF ChatKept

LEMMA BroadcastKept ==
    ASSUME NEW buf, BufOK(buf), AllKept(archive, posted, buf), NEW S, NEW m \in Messages,
           Fits(archive, posted, m)
    PROVE  AllKept(archive, posted, Broadcast(buf, S, m))
<1>1. ASSUME NEW d \in Clients PROVE ChatKept(archive, posted, Broadcast(buf, S, m)[d])
  <2>1. ChatKept(archive, posted, Append(buf[d], m)) /\ ChatKept(archive, posted, buf[d])
    BY AppendKept DEF BufOK, AllKept
  <2> QED BY <2>1 DEF Broadcast
<1> QED BY <1>1 DEF AllKept

LEMMA RespondKept ==
    ASSUME NEW buf, BufOK(buf), AllKept(archive, posted, buf), NEW c \in Clients, NEW m \in Messages,
           ~IsChat(m)
    PROVE  AllKept(archive, posted, Respond(buf, c, m))
<1>1. ASSUME NEW d \in Clients PROVE ChatKept(archive, posted, Respond(buf, c, m)[d])
  <2>1. ChatKept(archive, posted, Append(buf[d], m)) /\ ChatKept(archive, posted, buf[d])
    BY AppendKept DEF BufOK, AllKept, Fits
  <2>2. Respond(buf, c, m)[d] \in {Append(buf[d], m), buf[d]}
    BY DEF Respond, BufOK
  <2> QED BY <2>1, <2>2
<1> QED BY <1>1 DEF AllKept

LEMMA QuietReplies ==
    /\ ~IsChat(Sys) /\ Sys \in Messages
    /\ \A a \in Actions \ {"SEND", "HIST"} : ~IsChat(Reply(a)) /\ Reply(a) \in Messages
BY SysType, ReplyType DEF IsChat, Sys, Reply

LEMMA NoticeKept ==
    ASSUME NEW buf, BufOK(buf), AllKept(archive, posted, buf), NEW c
    PROVE  AllKept(archive, posted, LeaveNotice(buf, c))
BY BroadcastKept, QuietReplies DEF LeaveNotice, Fits

\* The history is read from an archive.
LEMMA HistoryKept ==
    ASSUME TypeOK, Labelled, NEW buf, BufOK(buf), AllKept(archive, posted, buf), NEW c \in Clients,
           NEW n
    PROVE  AllKept(archive, posted, History(buf, c, n))
<1> USE BoundsAssumption
<1> DEFINE take == Smaller(Len(Archived(n)), OutCap - Len(buf[c]))
           hist == [j \in 1 .. take |-> [action |-> "HIST", id |-> Archived(n)[j]]]
<1>1. Archived(n) \in Seq(Nat) /\ buf[c] \in Seq(Messages) /\ Len(buf[c]) <= OutCap
  BY DEF TypeOK, DiskType, Archived, BufOK
<1>2. take \in Nat /\ take <= Len(Archived(n))
  BY <1>1, LenProperties DEF Smaller
<1> HIDE DEF take
<1>3. \A j \in 1 .. take : hist[j] \in Messages /\ Fits(archive, posted, hist[j])
  <2> TAKE j \in 1 .. take
  <2>1. j \in DOMAIN Archived(n) /\ Archived(n)[j] \in Nat
    BY <1>1, <1>2, LenProperties
  <2>2. n \in DOMAIN archive /\ Archived(n) = archive[n]
    BY <2>1 DEF Archived
  <2>3. archive[n][j] \in DOMAIN posted /\ posted[archive[n][j]] = n
    BY <2>1, <2>2 DEF Labelled
  <2>4. Kept(archive, n, archive[n][j])
    BY <2>1, <2>2 DEF Kept
  <2> QED BY <2>1, <2>2, <2>3, <2>4 DEF Fits, Messages, Actions
<1>4. hist \in Seq(Messages) /\ Len(hist) = take
  BY <1>2, <1>3, FunctionIsSequence
<1>5. History(buf, c, n) = [buf EXCEPT ![c] = @ \o hist]
  BY DEF History, take
<1> HIDE DEF hist
<1>6. ChatKept(archive, posted, buf[c] \o hist)
  <2>1. /\ Len(buf[c] \o hist) = Len(buf[c]) + take /\ buf[c] \o hist \in Seq(Messages)
        /\ \A j \in 1 .. Len(buf[c]) + take :
              (buf[c] \o hist)[j] = IF j <= Len(buf[c]) THEN buf[c][j] ELSE hist[j - Len(buf[c])]
    BY <1>1, <1>4, ConcatProperties
  <2>2. DOMAIN (buf[c] \o hist) = 1 .. Len(buf[c]) + take /\ DOMAIN buf[c] = 1 .. Len(buf[c])
    BY <2>1, <1>1, LenProperties
  <2>3. Len(buf[c]) \in Nat
    BY <1>1, LenProperties
  <2> SUFFICES ASSUME NEW j \in 1 .. Len(buf[c]) + take
               PROVE  Fits(archive, posted, (buf[c] \o hist)[j])
    BY <2>2 DEF ChatKept
  <2>4. CASE j <= Len(buf[c])
    <3>1. j \in DOMAIN buf[c] /\ (buf[c] \o hist)[j] = buf[c][j]
      BY <2>1, <2>2, <2>3, <2>4, <1>2
    <3> QED BY <3>1 DEF ChatKept, AllKept
  <2>5. CASE j > Len(buf[c])
    <3>1. j - Len(buf[c]) \in 1 .. take /\ (buf[c] \o hist)[j] = hist[j - Len(buf[c])]
      BY <2>1, <2>3, <2>5, <1>2
    <3> QED BY <3>1, <1>3
  <2>6. j <= Len(buf[c]) \/ j > Len(buf[c])
    BY <2>3, <1>2
  <2> QED BY <2>4, <2>5, <2>6, Zenon
<1>7. \A d \in Clients : d # c => History(buf, c, n)[d] = buf[d]
  BY <1>5 DEF BufOK
<1>8. History(buf, c, n)[c] = buf[c] \o hist
  BY <1>5 DEF BufOK
<1> QED BY <1>6, <1>7, <1>8 DEF AllKept

\* What fitted still does when archives and names have grown.
LEMMA GrownFits ==
    ASSUME TypeOK, TypeOK', ArchivesGrow, NEW n \in Names, posted' = Append(posted, n),
           NEW m, Fits(archive, posted, m)
    PROVE  Fits(archive', posted', m)
<1> SUFFICES ASSUME IsChat(m) PROVE Fits(archive', posted', m)
  BY DEF Fits
<1>1. m.id \in DOMAIN posted' /\ posted'[m.id] = posted[m.id]
  <2>1. m.id \in DOMAIN posted /\ posted \in Seq(Names)
    BY DEF Fits, TypeOK, DiskType
  <2> QED BY <2>1, AppendProperties, LenProperties
<1> DEFINE name == posted[m.id]
<1>2. CASE Kept(archive, name, m.id)
  <2>1. PICK k \in DOMAIN archive[name] : name \in DOMAIN archive /\ archive[name][k] = m.id
    BY <1>2 DEF Kept
  <2>2. name \in DOMAIN archive' /\ archive'[name][k] = m.id /\ Len(archive[name]) <= Len(archive'[name])
    BY <2>1 DEF ArchivesGrow, IsPrefixOf
  <2>3. archive[name] \in Seq(Nat) /\ archive'[name] \in Seq(Nat)
    BY <2>1, <2>2 DEF TypeOK, DiskType
  <2>4. k \in DOMAIN archive'[name]
    BY <2>1, <2>2, <2>3, LenProperties
  <2>5. Kept(archive', posted'[m.id], m.id)
    BY <1>1, <2>2, <2>4 DEF Kept
  <2> QED BY <1>1, <2>5 DEF Fits
<1>3. CASE ~Kept(archive, name, m.id)
  BY <1>1, <1>3 DEF Fits
<1> QED BY <1>2, <1>3

LEMMA SendKept ==
    ASSUME TypeOK, TypeOK', Labelled, AllKept(archive, posted, out_buf), NEW c \in Clients, Send(c)
    PROVE  AllKept(archive', posted', out_buf') /\ Labelled'
<1> USE BoundsAssumption
<1> DEFINE n == ActiveName(c)
           m == [action |-> "SEND", id |-> sent + 1]
           S == Receivers(active_members[FirstOf(ChannelsNamed(n))], {})
<1>1. /\ archive' = IF n \in Unfiled THEN archive
                    ELSE [l \in DOMAIN archive \cup {n} |->
                             IF l = n THEN Append(Archived(n), sent + 1) ELSE archive[l]]
      /\ out_buf' = Broadcast(out_buf, S, m) /\ posted' = Append(posted, n)
  BY DEF Send, archive_message
<1>2. ArchivesGrow
  BY SendGrows
<1>3. m \in Messages /\ sent + 1 \in Nat /\ n \in Names
  <2>1. active_channel[c] \in ChannelIds
    BY DEF Send, TypeOK, SessionType, ChannelIds
  <2> QED BY <2>1 DEF TypeOK, DiskType, Messages, Actions, ActiveName, ChannelType
<1>4. Archived(n) \in Seq(Nat)
  BY DEF Archived, TypeOK, DiskType
<1>5. sent + 1 \in DOMAIN posted' /\ posted'[sent + 1] = n
  <2>1. posted \in Seq(Names) /\ Len(posted) = sent
    BY DEF TypeOK, DiskType
  <2> QED BY <1>1, <1>3, <2>1, AppendProperties, LenProperties
<1> HIDE DEF n, S
<1>6. Fits(archive', posted', m)
  <2>1. CASE n \in Unfiled
    BY <1>5, <2>1 DEF Fits
  <2>2. CASE n \notin Unfiled
    <3>1. n \in DOMAIN archive' /\ archive'[n] = Append(Archived(n), sent + 1)
      BY <1>1, <2>2
    <3>2. /\ Append(Archived(n), sent + 1)[Len(Archived(n)) + 1] = sent + 1
          /\ Len(Archived(n)) + 1 \in DOMAIN Append(Archived(n), sent + 1)
      BY <1>3, <1>4, AppendProperties, LenProperties
    <3>3. \E k \in DOMAIN archive'[n] : archive'[n][k] = sent + 1
      BY <3>1, <3>2
    <3>4. Kept(archive', n, sent + 1)
      BY <3>1, <3>3 DEF Kept
    <3> QED BY <1>5, <3>4 DEF Fits
  <2> QED BY <2>1, <2>2
<1>7. ASSUME NEW d \in Clients, NEW j \in DOMAIN out_buf'[d]
      PROVE  Fits(archive', posted', out_buf'[d][j])
  <2>1. out_buf'[d] = out_buf[d] \/ out_buf'[d] = Append(out_buf[d], m)
    BY <1>1 DEF Broadcast
  <2>2. out_buf[d] \in Seq(Messages)
    BY DEF TypeOK, BufferType
  <2>3. \A l \in DOMAIN out_buf[d] : Fits(archive', posted', out_buf[d][l])
    BY <1>1, <1>2, <1>3, GrownFits DEF AllKept, ChatKept
  <2>4. CASE out_buf'[d] = out_buf[d]
    BY <2>3, <2>4
  <2>5. CASE out_buf'[d] = Append(out_buf[d], m)
    <3>1. /\ DOMAIN Append(out_buf[d], m) = 1 .. Len(out_buf[d]) + 1
          /\ Append(out_buf[d], m)[Len(out_buf[d]) + 1] = m
          /\ \A l \in 1 .. Len(out_buf[d]) : Append(out_buf[d], m)[l] = out_buf[d][l]
          /\ DOMAIN out_buf[d] = 1 .. Len(out_buf[d]) /\ Len(out_buf[d]) \in Nat
      BY <1>3, <2>2, AppendProperties, LenProperties
    <3>2. CASE j = Len(out_buf[d]) + 1
      BY <2>5, <3>1, <3>2, <1>6
    <3>3. CASE j # Len(out_buf[d]) + 1
      <4>1. j \in DOMAIN out_buf[d] /\ out_buf'[d][j] = out_buf[d][j]
        BY <2>5, <3>1, <3>3
      <4> QED BY <4>1, <2>3
    <3> QED BY <3>2, <3>3
  <2> QED BY <2>1, <2>4, <2>5
<1>8. ASSUME NEW l \in DOMAIN archive', NEW k \in DOMAIN archive'[l]
      PROVE  archive'[l][k] \in DOMAIN posted' /\ posted'[archive'[l][k]] = l
  <2>1. ASSUME l \in DOMAIN archive, NEW j \in DOMAIN archive[l]
        PROVE  archive[l][j] \in DOMAIN posted' /\ posted'[archive[l][j]] = l
    <3>1. archive[l][j] \in DOMAIN posted /\ posted[archive[l][j]] = l /\ posted \in Seq(Names)
      BY <2>1 DEF Labelled, TypeOK, DiskType
    <3> QED BY <1>1, <1>3, <3>1, AppendProperties, LenProperties
  <2>2. CASE l # n \/ n \in Unfiled
    <3>1. l \in DOMAIN archive /\ archive'[l] = archive[l]
      BY <1>1, <2>2
    <3> QED BY <2>1, <3>1
  <2>3. CASE l = n /\ n \notin Unfiled
    <3>1. archive'[l] = Append(Archived(n), sent + 1)
      BY <1>1, <2>3
    <3>2. /\ DOMAIN Append(Archived(n), sent + 1) = 1 .. Len(Archived(n)) + 1
          /\ Append(Archived(n), sent + 1)[Len(Archived(n)) + 1] = sent + 1
          /\ \A j \in 1 .. Len(Archived(n)) : Append(Archived(n), sent + 1)[j] = Archived(n)[j]
          /\ DOMAIN Archived(n) = 1 .. Len(Archived(n)) /\ Len(Archived(n)) \in Nat
      BY <1>3, <1>4, AppendProperties, LenProperties
    <3>3. CASE k = Len(Archived(n)) + 1
      <4>1. archive'[l][k] = sent + 1
        BY <3>1, <3>2, <3>3
      <4> QED BY <1>5, <2>3, <4>1
    <3>4. CASE k # Len(Archived(n)) + 1
      <4>1. k \in DOMAIN Archived(n) /\ archive'[l][k] = Archived(n)[k]
        BY <3>1, <3>2, <3>4
      <4>2. n \in DOMAIN archive /\ Archived(n) = archive[n]
        BY <4>1 DEF Archived
      <4> QED BY <2>1, <2>3, <4>1, <4>2
    <3> QED BY <3>3, <3>4
  <2> QED BY <2>2, <2>3
<1> QED BY <1>7, <1>8 DEF AllKept, ChatKept, Labelled

\* A step that archives nothing queues what keeps every queue in order.
LEMMA QueueKept ==
    ASSUME TypeOK, Labelled, AllKept(archive, posted, out_buf), [Next]_vars,
           \A c \in Clients : ~Send(c)
    PROVE  AllKept(archive, posted, out_buf')
<1> USE QuietReplies DEF Actions
<1>0. BufOK(out_buf)
  BY DEF BufOK, TypeOK, BufferType
<1>1. CASE Ending
  <2>1. PICK why \in Faults : Ends(why)
    BY <1>1, EndingEnds
  <2> QED BY <2>1 DEF Ends, AllKept, ChatKept
<1>2. CASE Launch \/ Select \/ ReadsEnd \/ WritesEnd \/ UNCHANGED vars
  BY <1>2 DEF Launch, Select, ReadsEnd, WritesEnd, vars
<1>3. ASSUME NEW c \in Clients, Answers(c) PROVE AllKept(archive, posted, out_buf')
  <2>1. out_buf' = out_buf \/ \E a \in Actions \ {"SEND", "HIST"} :
           out_buf' = Respond(out_buf, c, Reply(a))
    BY <1>3 DEF Answers, SkipRead, Online, SendNowhere, SkipWrite, LogInFails, FriendUnknown,
                StartFails, JoinFails
  <2> QED BY <2>1, <1>0, RespondKept
<1>4. ASSUME NEW c \in Clients, Accept(c) \/ PeerCloses(c) \/ ReadFails(c) \/ WriteFails(c)
      PROVE  AllKept(archive, posted, out_buf')
  BY <1>4 DEF Accept, PeerCloses, ReadFails, WriteFails
<1>5. ASSUME NEW c \in Clients, Disconnect(c) PROVE AllKept(archive, posted, out_buf')
  <2>1. AllKept(archive, posted, LeaveNotice(out_buf, c)) /\ BufOK(LeaveNotice(out_buf, c))
    BY <1>0, NoticeKept, LeaveNoticeType
  <2>2. out_buf' = [LeaveNotice(out_buf, c) EXCEPT ![c] = <<>>]
    BY <1>5 DEF Disconnect
  <2>3. \A d \in Clients : out_buf'[d] \in {LeaveNotice(out_buf, c)[d], <<>>}
    BY <2>1, <2>2 DEF BufOK
  <2> QED BY <2>1, <2>3 DEF AllKept, ChatKept
<1>6. ASSUME NEW c \in Clients, Leave(c) PROVE AllKept(archive, posted, out_buf')
  <2>1. AllKept(archive, posted, LeaveNotice(out_buf, c)) /\ BufOK(LeaveNotice(out_buf, c))
    BY <1>0, NoticeKept, LeaveNoticeType
  <2> QED BY <1>6, <2>1, RespondKept DEF Leave
<1>7. ASSUME NEW c \in Clients, Write(c) PROVE AllKept(archive, posted, out_buf')
  <2>1. \A d \in Clients : out_buf'[d] \in {out_buf[d], <<>>}
    BY <1>7, <1>0 DEF Write, BufOK
  <2> QED BY <2>1 DEF AllKept, ChatKept
<1>8. ASSUME NEW c \in Clients, NEW u \in UserNames \cup {NoName}, LogIn(c, u)
      PROVE  AllKept(archive, posted, out_buf')
  BY <1>8, <1>0, RespondKept DEF LogIn
<1>9. ASSUME NEW c \in Clients, NEW u \in UserNames \cup {NoName}, Befriend(c, u)
      PROVE  AllKept(archive, posted, out_buf')
  <2>1. PICK s \in Holders(u) : out_buf' = Respond(Respond(out_buf, clients[s], Sys), c, Sys)
    BY <1>9 DEF Befriend
  <2>2. AllKept(archive, posted, Respond(out_buf, clients[s], Sys)) /\ BufOK(Respond(out_buf, clients[s], Sys))
    <3>1. CASE clients[s] \in Clients
      BY <3>1, <1>0, RespondKept, RespondType
    <3>2. CASE clients[s] \notin Clients
      BY <3>2, <1>0 DEF Respond, BufOK
    <3> QED BY <3>1, <3>2
  <2> QED BY <2>1, <2>2, RespondKept
<1>10. ASSUME NEW c \in Clients, NEW n \in ChannelNames, StartChannel(c, n)
       PROVE  AllKept(archive, posted, out_buf')
  <2>1. AllKept(archive, posted, Respond(out_buf, c, Reply("START:S"))) /\ BufOK(Respond(out_buf, c, Reply("START:S")))
    BY <1>0, RespondKept, RespondType
  <2> QED BY <1>10, <2>1, NoticeKept DEF StartChannel
<1>11. ASSUME NEW c \in Clients, NEW t \in TypedNames, Join(c, t)
       PROVE  AllKept(archive, posted, out_buf')
  <2> DEFINE n == Resolve(user_name[c], t)
             start == Respond(out_buf, c, Reply("JOIN:S"))
             buf == LeaveNotice(start, c)
  <2>1. PICK last \in ChannelsNamed(n) : Joins(c, n, last)
    BY <1>11 DEF Join
  <2>2. PICK S : out_buf' = Broadcast(History(buf, c, n), S, Sys)
    BY <2>1 DEF Joins
  <2>3. AllKept(archive, posted, start) /\ BufOK(start)
    BY <1>0, RespondKept, RespondType
  <2> HIDE DEF start, n
  <2>4. AllKept(archive, posted, buf) /\ BufOK(buf)
    BY <2>3, NoticeKept, LeaveNoticeType
  <2> HIDE DEF buf
  <2>5. AllKept(archive, posted, History(buf, c, n)) /\ BufOK(History(buf, c, n))
    BY <2>4, HistoryKept, HistoryType DEF TypeOK
  <2> QED BY <2>2, <2>5, BroadcastKept DEF Fits
<1> QED BY <1>1, <1>2, <1>3, <1>4, <1>5, <1>6, <1>7, <1>8, <1>9, <1>10, <1>11, StepKinds

(***************************************************************************)
(* Whatever is queued as a message or as history is in the archive of the  *)
(* channel it was said in and stays there, through kills and restarts too, *)
(* unless that channel's name makes no file name; then it is never part of *)
(* a history (server.c:164-184, 228-262, 405-415, 443-450).                *)
(***************************************************************************)
THEOREM QueuedIsArchived == Spec => []ShownIsArchived
<1> DEFINE AllShown == Labelled /\ AllKept(archive, posted, out_buf)
<1>1. Init => AllShown
  BY DEF Init, AllKept, ChatKept, Labelled
<1>2. TypeOK /\ TypeOK' /\ AllShown /\ [Next]_vars => AllShown'
  <2> SUFFICES ASSUME TypeOK, TypeOK', Labelled, AllKept(archive, posted, out_buf), [Next]_vars
               PROVE  Labelled' /\ AllKept(archive', posted', out_buf')
    OBVIOUS
  <2>1. CASE \E c \in Clients : Send(c)
    BY <2>1, SendKept
  <2>2. CASE ~\E c \in Clients : Send(c)
    <3>1. AllKept(archive, posted, out_buf')
      BY <2>2, QueueKept
    <3>2. archive' = archive /\ posted' = posted
      BY <2>2, OnlySendArchives
    <3> QED BY <3>1, <3>2 DEF Labelled
  <2> QED BY <2>1, <2>2
<1>3. AllShown => ShownIsArchived
  <2> SUFFICES ASSUME AllKept(archive, posted, out_buf), NEW c \in Clients,
                      NEW j \in DOMAIN out_buf[c], IsChat(out_buf[c][j])
               PROVE  LET m == out_buf[c][j]
                      IN  \/ KeptIn(posted[m.id], m.id)
                          \/ m.action = "SEND" /\ posted[m.id] \in Unfiled
    BY DEF ShownIsArchived, IsChat
  <2> DEFINE m == out_buf[c][j]
  <2>1. \/ Kept(archive, posted[m.id], m.id)
        \/ m.action = "SEND" /\ posted[m.id] \in Unfiled
    BY DEF AllKept, ChatKept, Fits
  <2>2. Kept(archive, posted[m.id], m.id) => KeptIn(posted[m.id], m.id)
    BY DEF Kept, KeptIn, Archived
  <2> QED BY <2>1, <2>2
<1> HIDE DEF AllShown
<1> QED BY <1>1, <1>2, <1>3, TypeCorrect, PTL DEF Spec

-----------------------------------------------------------------------------
(***************************************************************************)
(* Joining misses and repeats nothing.                                     *)
(*                                                                         *)
(* Told says of one buffer what SeamlessJoin asks of it, with the entry    *)
(* named: nothing that is queued at its end, other than a live message     *)
(* that was also put at the end of the archive, makes a difference.  What  *)
(* a new channel tells, nothing, is its archive because every archive has  *)
(* a channel while the server runs (Rooted).                               *)
(***************************************************************************)
HasEntry(q)   == \E j \in DOMAIN q : q[j].action \in Entry
LastAt(q, e)  == /\ e \in DOMAIN q /\ q[e].action \in Entry
                 /\ \A l \in DOMAIN q : q[l].action \in Entry => l <= e
ChatFrom(q, e) == {j \in e .. Len(q) : q[j].action \in {"HIST", "SEND"}}
Retells(q, H, whole) ==
    /\ Cardinality(H) = Len(whole)
    /\ \A j \in H : q[j].id = whole[Rank(j, H)]
Told(q, whole) ==
    HasRoom(q) /\ HasEntry(q) => \E e : LastAt(q, e) /\ Retells(q, ChatFrom(q, e), whole)

Seamless ==
    \A c \in Clients : active_channel[c] # 0 /\ ActiveName(c) \notin Unfiled =>
        Told(out_buf[c], Archived(ActiveName(c)))
Rooted   == pc # "down" => \A n \in DOMAIN archive : Exists(n)

\* A message that neither lets a client in nor is of its channel.
Quiet(m) == m \in Messages /\ m.action \notin Entry /\ m.action \notin {"HIST", "SEND"}

LEMMA SeamlessIs == ASSUME TypeOK, Seamless PROVE SeamlessJoin
<1> SUFFICES ASSUME NEW c \in Clients, active_channel[c] # 0, ActiveName(c) \notin Unfiled,
                    HasRoom(out_buf[c]), HasEntry(out_buf[c])
             PROVE  Retells(out_buf[c], Heard(out_buf[c]), Archived(ActiveName(c)))
  BY DEF SeamlessJoin, HasEntry, Retells
<1>1. PICK e : LastAt(out_buf[c], e) /\ Retells(out_buf[c], ChatFrom(out_buf[c], e), Archived(ActiveName(c)))
  BY DEF Seamless, Told
<1> DEFINE q == out_buf[c]
<1>2. q \in Seq(Messages)
  BY DEF TypeOK, BufferType
<1>3. DOMAIN q = 1 .. Len(q) /\ Len(q) \in Nat
  BY <1>2, LenProperties
<1> HIDE DEF q
<1>4. LastEntry(q) = e
  <2>1. \A f \in DOMAIN q : /\ q[f].action \in Entry
                            /\ \A l \in DOMAIN q : q[l].action \in Entry => l <= f
                            => f = e
    BY <1>1, <1>3 DEF LastAt, q
  <2> QED BY <1>1, <2>1 DEF LastEntry, LastAt, q
<1>5. Heard(q) = ChatFrom(q, e)
  BY <1>4 DEF Heard, ChatFrom
<1> QED BY <1>1, <1>5 DEF q

LEMMA ChatFinite ==
    ASSUME NEW q \in Seq(Messages), NEW e \in DOMAIN q
    PROVE  /\ IsFiniteSet(ChatFrom(q, e))
           /\ \A j \in ChatFrom(q, e) : /\ j \in 1 .. Len(q)
                                        /\ Rank(j, ChatFrom(q, e)) \in 1 .. Cardinality(ChatFrom(q, e))
           /\ Cardinality(ChatFrom(q, e)) \in Nat
<1>1. DOMAIN q = 1 .. Len(q) /\ Len(q) \in Nat
  BY LenProperties
<1> DEFINE H == ChatFrom(q, e)
<1>2. H \subseteq e .. Len(q) /\ IsFiniteSet(e .. Len(q))
  BY <1>1, FS_Interval DEF ChatFrom
<1>3. IsFiniteSet(H)
  BY <1>2, FS_Subset
<1> HIDE DEF H
<1>4. Cardinality(H) \in Nat
  BY <1>3, FS_CardinalityType
<1>5. ASSUME NEW j \in H PROVE j \in 1 .. Len(q) /\ Rank(j, H) \in 1 .. Cardinality(H)
  <2> DEFINE R == {l \in H : l <= j}
  <2>1. IsFiniteSet(R) /\ Cardinality(R) <= Cardinality(H)
    BY <1>3, FS_Subset
  <2>2. j \in R
    BY <1>1, <1>2
  <2> HIDE DEF R
  <2>3. Cardinality(R) \in Nat /\ Cardinality(R) # 0
    BY <2>1, <2>2, FS_CardinalityType, FS_EmptySet
  <2> QED BY <1>1, <1>2, <1>4, <2>1, <2>3 DEF Rank, R
<1> QED BY <1>3, <1>4, <1>5 DEF H

\* What ends in a quiet message, or in a live one, has the entry it had.
LEMMA SameEntry ==
    ASSUME NEW q \in Seq(Messages), NEW m \in Messages, m.action \notin Entry,
           HasRoom(Append(q, m)), HasEntry(Append(q, m))
    PROVE  /\ HasRoom(q) /\ HasEntry(q)
           /\ \A e : LastAt(q, e) => LastAt(Append(q, m), e)
<1> DEFINE r == Append(q, m)
<1>1. /\ Len(r) = Len(q) + 1 /\ r[Len(q) + 1] = m /\ \A j \in 1 .. Len(q) : r[j] = q[j]
      /\ DOMAIN r = 1 .. Len(q) + 1 /\ DOMAIN q = 1 .. Len(q) /\ Len(q) \in Nat
  BY AppendProperties, LenProperties
<1>2. HasRoom(r) /\ HasEntry(r)
  OBVIOUS
<1> HIDE DEF r
<1>3. \A j \in DOMAIN r : r[j].action \in Entry => j \in DOMAIN q /\ q[j].action \in Entry
  BY <1>1
<1>4. HasRoom(q)
  BY <1>1, <1>2, BoundsAssumption DEF HasRoom
<1>5. HasEntry(q)
  BY <1>2, <1>3 DEF HasEntry
<1>6. \A e : LastAt(q, e) => LastAt(r, e)
  BY <1>1, <1>3 DEF LastAt
<1> QED BY <1>4, <1>5, <1>6 DEF r

LEMMA QuietTold ==
    ASSUME NEW q \in Seq(Messages), NEW m, Quiet(m), NEW whole, Told(q, whole)
    PROVE  Told(Append(q, m), whole)
<1> DEFINE r == Append(q, m)
<1> SUFFICES ASSUME HasRoom(r), HasEntry(r)
             PROVE  \E e : LastAt(r, e) /\ Retells(r, ChatFrom(r, e), whole)
  BY DEF Told
<1>1. HasRoom(q) /\ HasEntry(q) /\ \A e : LastAt(q, e) => LastAt(r, e)
  BY SameEntry DEF Quiet
<1>2. PICK e : LastAt(q, e) /\ Retells(q, ChatFrom(q, e), whole)
  BY <1>1 DEF Told
<1>3. /\ Len(r) = Len(q) + 1 /\ r[Len(q) + 1] = m /\ \A j \in 1 .. Len(q) : r[j] = q[j]
      /\ DOMAIN q = 1 .. Len(q) /\ Len(q) \in Nat
  BY AppendProperties, LenProperties DEF Quiet
<1>4. e \in 1 .. Len(q) /\ LastAt(r, e)
  BY <1>1, <1>2, <1>3 DEF LastAt
<1> HIDE DEF r
<1>5. m.action \notin {"HIST", "SEND"}
  BY DEF Quiet
<1>6. ChatFrom(r, e) = ChatFrom(q, e)
  BY <1>3, <1>4, <1>5 DEF ChatFrom
<1>7. \A j \in ChatFrom(q, e) : r[j] = q[j]
  BY <1>3, <1>4 DEF ChatFrom
<1>8. Retells(r, ChatFrom(r, e), whole)
  BY <1>2, <1>6, <1>7 DEF Retells
<1> QED BY <1>4, <1>8

\* A live message goes to the end of the archive and of the buffer.
LEMMA LiveTold ==
    ASSUME NEW q \in Seq(Messages), NEW m \in Messages, m.action = "SEND",
           NEW whole \in Seq(Nat), Told(q, whole)
    PROVE  Told(Append(q, m), Append(whole, m.id))
<1> DEFINE r == Append(q, m)
           more == Append(whole, m.id)
<1> SUFFICES ASSUME HasRoom(r), HasEntry(r)
             PROVE  \E e : LastAt(r, e) /\ Retells(r, ChatFrom(r, e), more)
  BY DEF Told
<1>1. HasRoom(q) /\ HasEntry(q) /\ \A e : LastAt(q, e) => LastAt(r, e)
  <2>1. m.action \notin Entry
    BY DEF Entry
  <2> QED BY <2>1, SameEntry
<1>2. PICK e : LastAt(q, e) /\ Retells(q, ChatFrom(q, e), whole)
  BY <1>1 DEF Told
<1>3. /\ Len(r) = Len(q) + 1 /\ r[Len(q) + 1] = m /\ \A j \in 1 .. Len(q) : r[j] = q[j]
      /\ DOMAIN q = 1 .. Len(q) /\ Len(q) \in Nat
  BY AppendProperties, LenProperties
<1>4. e \in 1 .. Len(q) /\ LastAt(r, e)
  BY <1>1, <1>2, <1>3 DEF LastAt
<1>5. m.id \in Nat
  BY DEF Messages
<1>6. /\ Len(more) = Len(whole) + 1 /\ more[Len(whole) + 1] = m.id /\ Len(whole) \in Nat
      /\ \A j \in 1 .. Len(whole) : more[j] = whole[j]
  BY <1>5, AppendProperties, LenProperties
<1> HIDE DEF r, more
<1> DEFINE H == ChatFrom(q, e)
           k == Len(q) + 1
<1>7. ChatFrom(r, e) = H \cup {k}
  <2> HIDE DEF k
  <2>1. k \in Nat /\ k = Len(q) + 1
    BY <1>3 DEF k
  <2>2. e .. k = e .. Len(q) \cup {k}
    BY <1>3, <1>4, <2>1
  <2>3. \A j \in e .. Len(q) : r[j] = q[j]
    BY <1>3, <1>4
  <2>4. r[k].action \in {"HIST", "SEND"}
    BY <1>3, <2>1
  <2> QED BY <1>3, <2>1, <2>2, <2>3, <2>4 DEF ChatFrom
<1>8. /\ IsFiniteSet(H) /\ Cardinality(H) = Len(whole)
      /\ \A j \in H : j \in 1 .. Len(q) /\ Rank(j, H) \in 1 .. Len(whole)
  BY <1>2, <1>3, <1>4, ChatFinite DEF Retells
<1>9. \A j \in H : q[j].id = whole[Rank(j, H)]
  BY <1>2 DEF Retells
<1> HIDE DEF H
<1>10. k \notin H /\ \A j \in H : j < k
  BY <1>3, <1>8
<1>11. Cardinality(H \cup {k}) = Len(more)
  BY <1>6, <1>8, <1>10, FS_AddElement
<1>12. ASSUME NEW j \in H PROVE r[j].id = more[Rank(j, H \cup {k})]
  <2>1. {l \in H \cup {k} : l <= j} = {l \in H : l <= j}
    BY <1>3, <1>8, <1>10
  <2>2. Rank(j, H \cup {k}) = Rank(j, H)
    BY <2>1 DEF Rank
  <2> QED BY <2>2, <1>3, <1>6, <1>8, <1>9
<1>13. r[k].id = more[Rank(k, H \cup {k})]
  <2>1. {l \in H \cup {k} : l <= k} = H \cup {k}
    BY <1>3, <1>8, <1>10
  <2>2. Rank(k, H \cup {k}) = Len(whole) + 1
    BY <2>1, <1>6, <1>11 DEF Rank
  <2> QED BY <2>2, <1>3, <1>6
<1>14. Retells(r, ChatFrom(r, e), more)
  BY <1>7, <1>11, <1>12, <1>13 DEF Retells
<1> QED BY <1>4, <1>14

\* The reply that lets a client in, and the whole archive after it.
LEMMA EntryTold ==
    ASSUME NEW q \in Seq(Messages), NEW m \in Messages, m.action \in Entry,
           NEW whole \in Seq(Nat), NEW hist \in Seq(Messages), Len(hist) = Len(whole),
           \A j \in 1 .. Len(whole) : hist[j] = [action |-> "HIST", id |-> whole[j]]
    PROVE  Told(Append(q, m) \o hist, whole)
<1> DEFINE a == Append(q, m)
           r == a \o hist
           e == Len(q) + 1
           H == ChatFrom(r, e)
<1>1. a \in Seq(Messages) /\ Len(a) = e /\ a[e] = m /\ e \in Nat \ {0} /\ Len(whole) \in Nat
  BY AppendProperties, LenProperties
<1> HIDE DEF a, e
<1>2. /\ r \in Seq(Messages) /\ Len(r) = e + Len(whole)
      /\ \A j \in 1 .. e + Len(whole) : r[j] = IF j <= e THEN a[j] ELSE hist[j - e]
  <2>1. /\ r \in Seq(Messages) /\ Len(r) = Len(a) + Len(hist)
        /\ \A j \in 1 .. Len(a) + Len(hist) : r[j] = IF j <= Len(a) THEN a[j] ELSE hist[j - Len(a)]
    BY <1>1, ConcatProperties
  <2> QED BY <1>1, <2>1
<1>3. DOMAIN r = 1 .. e + Len(whole)
  BY <1>2, LenProperties
<1> HIDE DEF r
<1>4. e \in 1 .. e + Len(whole) /\ r[e] = m
  BY <1>1, <1>2
<1>5. ASSUME NEW j \in e + 1 .. e + Len(whole)
      PROVE  r[j].action = "HIST" /\ r[j].id = whole[j - e]
  <2>1. j \in 1 .. e + Len(whole) /\ ~(j <= e) /\ j - e \in 1 .. Len(whole)
    BY <1>1, <1>4
  <2>2. r[j] = hist[j - e] /\ hist[j - e] = [action |-> "HIST", id |-> whole[j - e]]
    BY <2>1, <1>2
  <2> QED BY <2>2
<1>6. LastAt(r, e)
  <2>1. ASSUME NEW l \in 1 .. e + Len(whole), r[l].action \in Entry PROVE l <= e
    <3>1. CASE l > e
      <4>1. r[l].action = "HIST"
        <5>1. l \in e + 1 .. e + Len(whole)
          BY <1>1, <3>1
        <5> QED BY <5>1, <1>5
      <4>2. "HIST" \notin Entry
        BY DEF Entry
      <4> QED BY <2>1, <4>1, <4>2
    <3> QED BY <1>1, <3>1
  <2> QED BY <1>3, <1>4, <2>1 DEF LastAt
<1>7. H = e + 1 .. e + Len(whole)
  <2>1. r[e].action \notin {"HIST", "SEND"}
    BY <1>4 DEF Entry
  <2>2. \A j \in e + 1 .. e + Len(whole) : r[j].action \in {"HIST", "SEND"}
    BY <1>5
  <2>3. e .. Len(r) = {e} \cup e + 1 .. e + Len(whole)
    BY <1>1, <1>2
  <2> QED BY <1>1, <2>1, <2>2, <2>3 DEF ChatFrom
<1> HIDE DEF H
<1>8. Cardinality(H) = Len(whole)
  <2> DEFINE lo == e + 1
             hi == e + Len(whole)
  <2>1. lo \in Int /\ hi \in Int /\ (IF lo > hi THEN 0 ELSE hi - lo + 1) = Len(whole)
    BY <1>1
  <2>2. H = lo .. hi
    BY <1>7
  <2> HIDE DEF lo, hi
  <2>3. Cardinality(lo .. hi) = IF lo > hi THEN 0 ELSE hi - lo + 1
    BY <2>1, FS_Interval
  <2> QED BY <2>1, <2>2, <2>3
<1>9. ASSUME NEW j \in H PROVE r[j].id = whole[Rank(j, H)]
  <2>1. {l \in H : l <= j} = e + 1 .. j
    BY <1>1, <1>4, <1>7
  <2>2. Rank(j, H) = j - e
    <3>1. Cardinality(e + 1 .. j) = j - e
      <4>1. j \in Int /\ e + 1 \in Int /\ ~(e + 1 > j) /\ j - (e + 1) + 1 = j - e
        BY <1>1, <1>7
      <4> QED BY <4>1, FS_Interval
    <3> QED BY <2>1, <3>1 DEF Rank
  <2>3. r[j].id = whole[j - e]
    BY <1>5, <1>7
  <2> QED BY <2>2, <2>3
<1>10. Retells(r, ChatFrom(r, e), whole)
  BY <1>8, <1>9 DEF Retells, H
<1>11. Told(r, whole)
  BY <1>6, <1>10 DEF Told
<1> QED BY <1>11 DEF r, a

\* The operators that queue, of a client whose buffer they leave quiet.
LEMMA RespondTold ==
    ASSUME NEW buf, BufOK(buf), NEW d \in Clients, NEW whole, Told(buf[d], whole),
           NEW c, NEW m, Quiet(m)
    PROVE  Told(Respond(buf, c, m)[d], whole)
<1>1. Respond(buf, c, m)[d] \in {Append(buf[d], m), buf[d]}
  BY DEF Respond, BufOK
<1>2. Told(Append(buf[d], m), whole)
  BY QuietTold DEF BufOK
<1> QED BY <1>1, <1>2

LEMMA BroadcastTold ==
    ASSUME NEW buf, BufOK(buf), NEW d \in Clients, NEW whole, Told(buf[d], whole),
           NEW S, NEW m, Quiet(m)
    PROVE  Told(Broadcast(buf, S, m)[d], whole)
<1>1. Broadcast(buf, S, m)[d] \in {Append(buf[d], m), buf[d]}
  BY DEF Broadcast
<1>2. Told(Append(buf[d], m), whole)
  BY QuietTold DEF BufOK
<1> QED BY <1>1, <1>2

LEMMA QuietOnes ==
    /\ Quiet(Sys)
    /\ \A a \in Actions \ {"SEND", "HIST", "JOIN:S", "START:S"} : Quiet(Reply(a))
BY SysType, ReplyType DEF Quiet, Sys, Reply, Entry, Actions

LEMMA NoticeTold ==
    ASSUME NEW buf, BufOK(buf), NEW d \in Clients, NEW whole, Told(buf[d], whole), NEW c
    PROVE  Told(LeaveNotice(buf, c)[d], whole)
BY BroadcastTold, QuietOnes DEF LeaveNotice

\* The notice of leaving is not for the client that leaves.
LEMMA NoticeSpares ==
    ASSUME NEW buf, NEW c \in Clients
    PROVE  LeaveNotice(buf, c)[c] = buf[c]
<1>1. \A bits : c \notin Receivers(bits, {c})
  BY DEF Receivers
<1> QED BY <1>1 DEF LeaveNotice, Broadcast

\* A full buffer tells nothing, an empty one neither.
LEMMA NothingTold ==
    ASSUME NEW q, NEW whole, ~HasRoom(q) \/ q = <<>>
    PROVE  Told(q, whole)
<1>1. ~HasEntry(<<>>)
  BY DEF HasEntry
<1> QED BY <1>1 DEF Told

\* The archive a client is shown is that of its channel, and stays so.
LEMMA SameWhole ==
    ASSUME archive' = archive, NEW d, active_channel'[d] = active_channel[d],
           channel_name'[active_channel[d]] = channel_name[active_channel[d]]
    PROVE  Archived(ActiveName(d))' = Archived(ActiveName(d)) /\ ActiveName(d)' = ActiveName(d)
BY DEF Archived, ActiveName

\* A message is heard by the whole room, and is of no other room's archive.
LEMMA SendSeamless ==
    ASSUME Orders, TypeOK', MembersInv, UniqueChannels, Seamless, NEW a \in Clients, Send(a)
    PROVE  Seamless'
<1> USE BoundsAssumption
<1> DEFINE n == ActiveName(a)
           m == [action |-> "SEND", id |-> sent + 1]
<1>1. /\ clients[i] = a /\ sent' = sent + 1 /\ sent' # sent /\ sent + 1 \in Nat
      /\ archive' = IF n \in Unfiled THEN archive
                    ELSE [l \in DOMAIN archive \cup {n} |->
                             IF l = n THEN Append(Archived(n), sent + 1) ELSE archive[l]]
      /\ UNCHANGED <<active_channel, channel_name>>
  BY DEF Send, Requests, Reading, archive_message, Orders, TypeOK, DiskType, sessionVars,
         channelVars
<1>2. RoomHears
  BY SendReaches
<1>3. \A c \in Clients :
         IF HearsFirst(c, n) /\ HasRoom(out_buf[c]) THEN out_buf'[c] = Append(out_buf[c], m)
                                                   ELSE out_buf'[c] = out_buf[c]
  BY <1>1, <1>2 DEF RoomHears, Gains, MembersInv
<1>4. \A d \in Clients : active_channel[d] # 0 => active_channel[d] \in 1 .. num_channels
  BY DEF Orders, TypeOK, SessionType, ChannelType
<1>5. FirstOf(ChannelsNamed(n)) \in ChannelsNamed(n)
  <2>1. active_channel[a] \in ChannelsNamed(n) /\ ChannelsNamed(n) \subseteq Nat
    BY <1>4 DEF Send, ChannelsNamed, ActiveName
  <2> QED BY <2>1, FirstIsOne
<1> SUFFICES ASSUME NEW c \in Clients, active_channel[c] # 0, ActiveName(c) \notin Unfiled
             PROVE  Told(out_buf'[c], Archived(ActiveName(c))')
  BY <1>1 DEF Seamless, ActiveName
<1>6. HearsFirst(c, n) <=> ActiveName(c) = n
  <2>1. Tabled(c)
    BY DEF MembersInv, InsideNamed, Orders, TableInv, NamedCounted, Tabled
  <2>2. active_channel[c] \in 1 .. num_channels
    BY <1>4
  <2>3. ActiveName(c) = n => active_channel[c] = FirstOf(ChannelsNamed(n))
    BY <1>5, <2>2 DEF UniqueChannels, ChannelsNamed, ActiveName
  <2>4. active_channel[c] = FirstOf(ChannelsNamed(n)) => ActiveName(c) = n
    BY <1>5 DEF ChannelsNamed, ActiveName
  <2> QED BY <2>1, <2>3, <2>4 DEF HearsFirst
<1> HIDE DEF n
<1> DEFINE own == ActiveName(c)
<1>7. ActiveName(c)' = own /\ Told(out_buf[c], Archived(own)) /\ out_buf[c] \in Seq(Messages)
  BY <1>1 DEF ActiveName, Seamless, Orders, TypeOK, BufferType
<1>8. Archived(ActiveName(c))' = IF own = n THEN Append(Archived(n), m.id) ELSE Archived(own)
  BY <1>1, <1>7 DEF Archived
<1>9. \A l : Archived(l) \in Seq(Nat)
  BY DEF Archived, Orders, TypeOK, DiskType
<1>10. m \in Messages /\ m.action = "SEND"
  BY <1>1 DEF Messages, Actions
<1> HIDE DEF m, own
<1>11. CASE own = n /\ HasRoom(out_buf[c])
  BY <1>3, <1>6, <1>7, <1>8, <1>9, <1>10, <1>11, LiveTold DEF own
<1>12. CASE own = n /\ ~HasRoom(out_buf[c])
  BY <1>3, <1>12, NothingTold
<1>13. CASE own # n
  BY <1>3, <1>6, <1>7, <1>8, <1>13 DEF own
<1> QED BY <1>11, <1>12, <1>13

\* A client that starts a channel is shown what was archived of it, nothing.
LEMMA StartSeamless ==
    ASSUME Orders, Seamless, Rooted, pc # "down", NEW c \in Clients, NEW n, StartChannel(c, n)
    PROVE  Seamless'
<1> USE BoundsAssumption
<1> DEFINE m == Reply("START:S")
           start == Respond(out_buf, c, m)
<1>1. /\ out_buf' = LeaveNotice(start, c) /\ archive' = archive
      /\ channel_name' = [channel_name EXCEPT ![num_channels + 1] = n]
      /\ active_channel' = [active_channel EXCEPT ![c] = num_channels + 1]
      /\ ~Exists(n) /\ num_channels < MaxChannels
  BY DEF StartChannel, diskVars
<1>2. /\ BufOK(out_buf) /\ num_channels \in Nat
      /\ active_channel \in [Clients -> Nat] /\ \A d \in Clients : active_channel[d] <= num_channels
      /\ channel_name \in [ChannelIds -> Names]
  BY DEF BufOK, Orders, TypeOK, BufferType, ChannelType, SessionType
<1>3. m \in Messages /\ m.action \in Entry
  BY ReplyType DEF Actions, Reply, Entry
<1>4. BufOK(start)
  BY <1>2, <1>3, RespondType
<1>5. Archived(n) = <<>>
  BY <1>1 DEF Archived, Rooted
<1> HIDE DEF m
<1>6. ASSUME NEW d \in Clients, d # c, active_channel'[d] # 0, ActiveName(d)' \notin Unfiled
      PROVE  Told(out_buf'[d], Archived(ActiveName(d))')
  <2>1. start[d] = out_buf[d]
    BY <1>2, <1>6 DEF Respond, BufOK
  <2>2. /\ active_channel'[d] = active_channel[d] /\ active_channel[d] # 0
        /\ channel_name'[active_channel[d]] = channel_name[active_channel[d]]
    BY <1>1, <1>2, <1>6
  <2>3. Archived(ActiveName(d))' = Archived(ActiveName(d)) /\ ActiveName(d)' = ActiveName(d)
    BY <1>1, <2>2, SameWhole
  <2>4. Told(start[d], Archived(ActiveName(d)))
    BY <1>6, <2>1, <2>2, <2>3 DEF Seamless
  <2> HIDE DEF start
  <2> QED BY <1>1, <1>4, <2>3, <2>4, NoticeTold
<1>7. Told(out_buf'[c], Archived(ActiveName(c))')
  <2>1. ActiveName(c)' = n
    BY <1>1, <1>2 DEF ActiveName, ChannelIds
  <2>2. Archived(ActiveName(c))' = <<>>
    BY <1>1, <1>5, <2>1 DEF Archived
  <2>3. out_buf'[c] = start[c]
    BY <1>1, NoticeSpares
  <2>4. start[c] = IF HasRoom(out_buf[c]) THEN Append(out_buf[c], m) ELSE out_buf[c]
    BY <1>2 DEF Respond, BufOK
  <2>5. Told(Append(out_buf[c], m), <<>>)
    <3>1. out_buf[c] \in Seq(Messages)
      BY <1>2 DEF BufOK
    <3>2. Append(out_buf[c], m) \o <<>> = Append(out_buf[c], m)
      BY <1>3, <3>1, AppendProperties, ConcatEmptySeq
    <3> DEFINE none == <<>>
    <3>3. none \in Seq(Messages) /\ none \in Seq(Nat) /\ Len(none) = 0
      OBVIOUS
    <3> HIDE DEF none
    <3>4. Told(Append(out_buf[c], m) \o none, none)
      <4>1. \A j \in 1 .. Len(none) : none[j] = [action |-> "HIST", id |-> none[j]]
        BY <3>3
      <4> QED BY <1>3, <3>1, <3>3, <4>1, EntryTold
    <3> QED BY <3>2, <3>4 DEF none
  <2> HIDE DEF start
  <2> QED BY <2>2, <2>3, <2>4, <2>5, NothingTold
<1> QED BY <1>6, <1>7 DEF Seamless

LEMMA SmallerOf ==
    ASSUME NEW a \in Nat, NEW b \in Nat
    PROVE  Smaller(a, b) \in Nat /\ Smaller(a, b) <= a /\ (Smaller(a, b) = a \/ Smaller(a, b) = b)
BY DEF Smaller

\* A client that joins is shown the whole archive after the reply, if it fits.
LEMMA JoinSeamless ==
    ASSUME Orders, Seamless, NEW c \in Clients, NEW t, Join(c, t)
    PROVE  Seamless'
<1> USE BoundsAssumption
<1> DEFINE n == Resolve(user_name[c], t)
           m == Reply("JOIN:S")
           start == Respond(out_buf, c, m)
           buf == LeaveNotice(start, c)
           shown == History(buf, c, n)
<1>1. PICK last \in ChannelsNamed(n) : Joins(c, n, last)
  BY DEF Join
<1>2. PICK S : out_buf' = Broadcast(shown, S, Sys) /\ c \notin S
  <2>1. \A bits : c \notin Receivers(bits, {c})
    BY DEF Receivers
  <2> QED BY <1>1, <2>1 DEF Joins
<1>3. /\ active_channel' = [active_channel EXCEPT ![c] = last]
      /\ archive' = archive /\ channel_name' = channel_name
      /\ last \in 1 .. num_channels /\ channel_name[last] = n
  BY <1>1 DEF Joins, Join, diskVars, ChannelsNamed
<1>4. /\ BufOK(out_buf) /\ active_channel \in [Clients -> Nat] /\ DiskType
  BY DEF BufOK, Orders, TypeOK, BufferType, SessionType
<1>5. m \in Messages /\ m.action \in Entry
  BY ReplyType DEF Actions, Reply, Entry
<1>6. BufOK(start)
  BY <1>4, <1>5, RespondType
<1> HIDE DEF m, n
<1>7. buf[c] = start[c] /\ start[c] = IF HasRoom(out_buf[c]) THEN Append(out_buf[c], m) ELSE out_buf[c]
  BY <1>4, NoticeSpares DEF Respond, BufOK
<1>8. \A d \in Clients : d # c => start[d] = out_buf[d]
  BY <1>4 DEF Respond, BufOK
<1> HIDE DEF start
<1>9. BufOK(buf)
  BY <1>6, LeaveNoticeType
<1>10. ASSUME NEW d \in Clients, NEW whole, d # c, Told(out_buf[d], whole) PROVE Told(buf[d], whole)
  BY <1>6, <1>8, <1>10, NoticeTold
<1> HIDE DEF buf
<1>11. BufOK(shown) /\ \A d \in Clients : d # c => shown[d] = buf[d]
  <2>1. BufOK(shown)
    BY <1>4, <1>9, HistoryType
  <2>2. \A d \in Clients : d # c => shown[d] = buf[d]
    BY <1>9 DEF History, BufOK
  <2> QED BY <2>1, <2>2
<1>12. Told(shown[c], Archived(n))
  <2> DEFINE whole == Archived(n)
             take == Smaller(Len(whole), OutCap - Len(buf[c]))
             hist == [j \in 1 .. take |-> [action |-> "HIST", id |-> whole[j]]]
  <2>1. whole \in Seq(Nat) /\ buf[c] \in Seq(Messages) /\ Len(buf[c]) <= OutCap
    BY <1>4, <1>9 DEF DiskType, Archived, BufOK
  <2>2. shown[c] = buf[c] \o hist
    BY <1>9 DEF History, BufOK
  <2> HIDE DEF whole
  <2>3. Len(whole) \in Nat /\ Len(buf[c]) \in Nat
    BY <2>1, LenProperties
  <2>4. take \in Nat /\ take <= Len(whole) /\ (take = Len(whole) \/ Len(buf[c]) + take = OutCap)
    <3>1. OutCap - Len(buf[c]) \in Nat /\ OutCap \in Nat
      BY <2>1, <2>3
    <3>2. take \in Nat /\ take <= Len(whole) /\ (take = Len(whole) \/ take = OutCap - Len(buf[c]))
      BY <2>3, <3>1, SmallerOf
    <3> HIDE DEF take
    <3> QED BY <2>3, <3>1, <3>2
  <2> HIDE DEF take
  <2>5. hist \in Seq(Messages) /\ Len(hist) = take
    <3>1. hist \in [1 .. take -> Messages]
      <4>1. ASSUME NEW j \in 1 .. take PROVE whole[j] \in Nat
        <5>1. j \in 1 .. Len(whole)
          BY <2>3, <2>4
        <5> QED BY <2>1, <5>1
      <4>2. "HIST" \in Actions
        BY DEF Actions
      <4> QED BY <4>1, <4>2 DEF Messages
    <3> HIDE DEF hist
    <3> QED BY <2>4, <3>1, FunctionIsSequence
  <2>6. \A j \in 1 .. take : hist[j] = [action |-> "HIST", id |-> whole[j]]
    OBVIOUS
  <2> HIDE DEF hist
  <2>7. Len(buf[c] \o hist) = Len(buf[c]) + take
    BY <2>1, <2>5, ConcatProperties
  <2>8. CASE ~HasRoom(out_buf[c])
    <3>1. buf[c] = out_buf[c] /\ Len(buf[c]) >= OutCap
      BY <1>7, <2>3, <2>8 DEF HasRoom
    <3>2. ~HasRoom(buf[c] \o hist)
      BY <2>3, <2>4, <2>7, <3>1 DEF HasRoom
    <3> QED BY <2>2, <3>2, NothingTold DEF whole
  <2>9. CASE take # Len(whole)
    <3>1. ~HasRoom(buf[c] \o hist)
      BY <2>3, <2>4, <2>7, <2>9 DEF HasRoom
    <3> QED BY <2>2, <3>1, NothingTold DEF whole
  <2>10. CASE HasRoom(out_buf[c]) /\ take = Len(whole)
    <3>1. buf[c] = Append(out_buf[c], m) /\ out_buf[c] \in Seq(Messages)
      BY <1>4, <1>7, <2>10 DEF BufOK
    <3>2. Told(Append(out_buf[c], m) \o hist, whole)
      BY <1>5, <2>1, <2>5, <2>6, <2>10, <3>1, EntryTold
    <3> QED BY <2>2, <3>1, <3>2 DEF whole
  <2> QED BY <2>8, <2>9, <2>10
<1> HIDE DEF shown
<1>13. ASSUME NEW d \in Clients, d # c, active_channel'[d] # 0, ActiveName(d)' \notin Unfiled
       PROVE  Told(out_buf'[d], Archived(ActiveName(d))')
  <2>1. active_channel'[d] = active_channel[d] /\ active_channel[d] # 0
    BY <1>3, <1>4, <1>13
  <2>2. Archived(ActiveName(d))' = Archived(ActiveName(d)) /\ ActiveName(d)' = ActiveName(d)
    BY <1>3, <2>1, SameWhole
  <2>3. Told(shown[d], Archived(ActiveName(d)))
    BY <1>10, <1>11, <1>13, <2>1, <2>2 DEF Seamless
  <2> QED BY <1>2, <1>11, <2>2, <2>3, BroadcastTold, QuietOnes
<1>14. Told(out_buf'[c], Archived(ActiveName(c))')
  <2>1. ActiveName(c)' = n
    BY <1>3, <1>4 DEF ActiveName
  <2>2. Archived(ActiveName(c))' = Archived(n)
    BY <1>3, <2>1 DEF Archived
  <2>3. out_buf'[c] = shown[c]
    BY <1>2 DEF Broadcast
  <2> QED BY <1>12, <2>2, <2>3
<1> QED BY <1>13, <1>14 DEF Seamless

\* No other step touches what a client is told, but for quiet messages.
LEMMA SeamlessStep ==
    ASSUME Orderly, Orders, TypeOK', MembersInv, UniqueChannels, Seamless, Rooted, [Next]_vars
    PROVE  Seamless'
<1> USE BoundsAssumption
<1>1. /\ BufOK(out_buf) /\ num_channels \in Nat /\ num_channels <= MaxChannels
      /\ active_channel \in [Clients -> Nat] /\ \A d \in Clients : active_channel[d] <= num_channels
      /\ channel_name \in [ChannelIds -> Names]
  BY DEF BufOK, Orders, TypeOK, BufferType, ChannelType, SessionType
<1>2. ASSUME archive' = archive, active_channel' = active_channel,
             \A k \in 1 .. num_channels : channel_name'[k] = channel_name[k],
             \A d \in Clients : \A whole : Told(out_buf[d], whole) => Told(out_buf'[d], whole)
      PROVE  Seamless'
  <2> SUFFICES ASSUME NEW d \in Clients, active_channel[d] # 0, ActiveName(d)' \notin Unfiled
               PROVE  Told(out_buf'[d], Archived(ActiveName(d))')
    BY <1>2 DEF Seamless
  <2>1. active_channel[d] \in 1 .. num_channels
    BY <1>1
  <2>2. Archived(ActiveName(d))' = Archived(ActiveName(d)) /\ ActiveName(d)' = ActiveName(d)
    BY <1>2, <2>1, SameWhole
  <2> QED BY <1>2, <2>2 DEF Seamless
<1>3. CASE Ending
  <2>1. PICK why \in Faults : Ends(why)
    BY <1>3, EndingEnds
  <2> QED BY <2>1 DEF Ends, Seamless
<1>4. CASE Launch
  <2>1. \A d \in Clients : active_channel'[d] = 0
    BY <1>4 DEF Launch, sessionVars, Orders, Stopped
  <2> QED BY <2>1 DEF Seamless
<1>5. CASE Select \/ ReadsEnd \/ WritesEnd \/ UNCHANGED vars
  <2>1. UNCHANGED <<archive, active_channel, channel_name, out_buf>>
    BY <1>5 DEF Select, ReadsEnd, WritesEnd, vars, sessionVars, channelVars, diskVars
  <2> QED BY <1>2, <2>1
<1>6. ASSUME NEW c \in Clients, Accept(c) \/ ReadFails(c) \/ WriteFails(c) \/ PeerCloses(c)
      PROVE  Seamless'
  <2>1. UNCHANGED <<archive, active_channel, channel_name, out_buf>>
    BY <1>6 DEF Accept, ReadFails, WriteFails, PeerCloses, channelVars, diskVars
  <2> QED BY <1>2, <2>1
<1>7. ASSUME NEW c \in Clients, Answers(c) PROVE Seamless'
  <2>1. UNCHANGED <<archive, active_channel, channel_name>>
    BY <1>7, AnswersQueue DEF Queues, sessionVars, channelVars, diskVars
  <2>2. out_buf' = out_buf \/ \E a \in Actions \ {"SEND", "HIST", "JOIN:S", "START:S"} :
           out_buf' = Respond(out_buf, c, Reply(a))
    BY <1>7 DEF Answers, SkipRead, Online, SendNowhere, SkipWrite, LogInFails, FriendUnknown,
                StartFails, JoinFails, Actions
  <2> QED BY <1>1, <1>2, <2>1, <2>2, RespondTold, QuietOnes
<1>8. ASSUME NEW c \in Clients, NEW u \in UserNames \cup {NoName}, LogIn(c, u) PROVE Seamless'
  <2>1. /\ UNCHANGED <<archive, active_channel, channel_name>>
        /\ out_buf' = Respond(out_buf, c, Reply("LOGN:S"))
    BY <1>8 DEF LogIn, channelVars, diskVars
  <2>2. Quiet(Reply("LOGN:S"))
    BY QuietOnes DEF Actions
  <2> QED BY <1>1, <1>2, <2>1, <2>2, RespondTold
<1>9. ASSUME NEW c \in Clients, Write(c) PROVE Seamless'
  <2>1. /\ UNCHANGED <<archive, active_channel, channel_name>>
        /\ \A d \in Clients : out_buf'[d] \in {out_buf[d], <<>>}
    BY <1>1, <1>9 DEF Write, channelVars, diskVars, BufOK
  <2> QED BY <1>2, <2>1, NothingTold
<1>10. ASSUME NEW c \in Clients, NEW u \in UserNames \cup {NoName}, Befriend(c, u) PROVE Seamless'
  <2>1. PICK s \in Holders(u) : out_buf' = Respond(Respond(out_buf, clients[s], Sys), c, Sys)
    BY <1>10 DEF Befriend
  <2>2. /\ UNCHANGED <<archive, active_channel>>
        /\ \A k \in 1 .. num_channels : channel_name'[k] = channel_name[k]
    BY <1>1, <1>10 DEF Befriend, sessionVars, ChannelIds
  <2> DEFINE first == Respond(out_buf, clients[s], Sys)
  <2>3. BufOK(first)
    <3>1. CASE clients[s] \in Clients
      BY <3>1, <1>1, RespondType, SysType
    <3>2. CASE clients[s] \notin Clients
      BY <3>2, <1>1 DEF Respond, BufOK
    <3> QED BY <3>1, <3>2
  <2>4. \A d \in Clients : \A whole : Told(out_buf[d], whole) => Told(first[d], whole)
    BY <1>1, RespondTold, QuietOnes
  <2> HIDE DEF first
  <2>5. \A d \in Clients : \A whole : Told(first[d], whole) => Told(Respond(first, c, Sys)[d], whole)
    BY <2>3, RespondTold, QuietOnes
  <2> QED BY <1>2, <2>1, <2>2, <2>4, <2>5 DEF first
<1>11. ASSUME NEW c \in Clients, Send(c) PROVE Seamless'
  BY <1>11, SendSeamless
<1>12. ASSUME NEW c \in Clients, NEW n \in ChannelNames, StartChannel(c, n) PROVE Seamless'
  BY <1>12, StartSeamless DEF StartChannel, Requests, Reading
<1>13. ASSUME NEW c \in Clients, NEW t \in TypedNames, Join(c, t) PROVE Seamless'
  BY <1>13, JoinSeamless
<1>14. \A c \in Clients : ~Disconnect(c) /\ ~Leave(c)
  BY DEF MembersInv, OnlyOpen, Disconnect, Leave, Orderly, May
<1> QED BY <1>3, <1>4, <1>5, <1>6, <1>7, <1>8, <1>9, <1>10, <1>11, <1>12, <1>13, <1>14, StepKinds

\* A restart makes a channel of every archive; a message is archived under
\* the name of a channel; no channel is lost or renamed while the server runs.
LEMMA RootedStep ==
    ASSUME TypeOK, Stopped, Rooted, [Next]_vars
    PROVE  Rooted'
<1> USE BoundsAssumption
<1>1. /\ num_channels \in Nat /\ num_channels <= MaxChannels /\ channel_name \in [ChannelIds -> Names]
      /\ \A d \in Clients : active_channel[d] \in 0 .. num_channels
  BY DEF TypeOK, ChannelType, SessionType
<1>2. ASSUME archive' = archive, pc # "down", num_channels' \in {num_channels, num_channels + 1},
             \A k \in 1 .. num_channels : channel_name'[k] = channel_name[k]
      PROVE  Rooted'
  <2> SUFFICES ASSUME NEW n \in DOMAIN archive PROVE Exists(n)'
    BY <1>2 DEF Rooted
  <2>1. PICK k \in 1 .. num_channels : channel_name[k] = n
    BY <1>2 DEF Rooted, Exists, ChannelsNamed
  <2>2. k \in 1 .. num_channels' /\ channel_name'[k] = n
    BY <1>1, <1>2, <2>1
  <2> QED BY <2>2 DEF Exists, ChannelsNamed
<1>3. CASE Ending
  <2>1. PICK why \in Faults : Ends(why)
    BY <1>3, EndingEnds
  <2> QED BY <2>1 DEF Ends, Rooted
<1>4. CASE Launch
  <2>0. PICK n \in 0 .. MaxChannels :
           \E files \in [1 .. n -> DOMAIN archive], bits \in [1 .. n -> FreshBitmaps] :
              Reload(n, files, bits)
    BY <1>4 DEF Launch
  <2>1. PICK files \in [1 .. n -> DOMAIN archive], bits \in [1 .. n -> FreshBitmaps] :
           Reload(n, files, bits)
    BY <2>0
  <2>2. /\ num_channels' = n /\ \A k \in 1 .. n : channel_name'[k] = files[k]
        /\ \A x \in DOMAIN archive : \E j \in 1 .. n : files[j] = x
        /\ archive' = archive
    BY <1>4, <2>1 DEF Reload, Lists, ChannelIds, Launch, diskVars
  <2> QED BY <2>2 DEF Rooted, Exists, ChannelsNamed
<1>5. CASE Select \/ ReadsEnd \/ WritesEnd
  BY <1>2, <1>5 DEF Select, ReadsEnd, WritesEnd, channelVars, diskVars
<1>6. CASE UNCHANGED vars
  BY <1>6 DEF vars, loopVars, channelVars, diskVars, Rooted, Exists, ChannelsNamed
<1>7. ASSUME NEW c \in Clients, Answers(c) PROVE Rooted'
  <2>1. i < count /\ UNCHANGED <<archive, num_channels, channel_name>>
    BY <1>7, AnswersQueue DEF Queues, channelVars, diskVars
  <2>2. pc # "down"
    <3>1. pc = "down" => count = 0 /\ i \in Nat
      BY DEF Stopped, TypeOK, LoopType
    <3> QED BY <2>1, <3>1
  <2> QED BY <1>2, <2>1, <2>2
<1>8. ASSUME NEW c \in Clients,
             \/ Accept(c) \/ ReadFails(c) \/ Disconnect(c) \/ Leave(c)
             \/ Write(c) \/ WriteFails(c)
             \/ \E u \in UserNames \cup {NoName} : LogIn(c, u)
             \/ \E n \in TypedNames : Join(c, n)
      PROVE  Rooted'
  <2>1. UNCHANGED <<archive, num_channels, channel_name>> /\ pc # "down"
    BY <1>8 DEF Accept, ReadFails, Disconnect, Leave, Write, WriteFails, LogIn, Join,
                Requests, Logs, Reading, Writing, channelVars, diskVars
  <2> QED BY <1>2, <2>1
<1>9. ASSUME NEW c \in Clients, PeerCloses(c) PROVE Rooted'
  BY <1>9 DEF PeerCloses, loopVars, channelVars, diskVars, Rooted, Exists, ChannelsNamed
<1>10. ASSUME NEW c \in Clients,
              \/ \E u \in UserNames \cup {NoName} : Befriend(c, u)
              \/ \E n \in ChannelNames : StartChannel(c, n)
       PROVE  Rooted'
  <2>1. archive' = archive /\ pc # "down" /\ num_channels' = num_channels + 1
    BY <1>10 DEF Befriend, CanBefriend, StartChannel, Requests, Reading, diskVars
  <2>2. \E n : channel_name' = [channel_name EXCEPT ![num_channels + 1] = n]
    BY <1>10 DEF Befriend, StartChannel
  <2>3. \A k \in 1 .. num_channels : channel_name'[k] = channel_name[k]
    BY <1>1, <2>2 DEF ChannelIds
  <2> QED BY <1>2, <2>1, <2>3
<1>11. ASSUME NEW c \in Clients, Send(c) PROVE Rooted'
  <2>1. /\ pc # "down" /\ DOMAIN archive' \subseteq DOMAIN archive \cup {ActiveName(c)}
        /\ active_channel[c] \in 1 .. num_channels /\ UNCHANGED <<num_channels, channel_name>>
    BY <1>1, <1>11 DEF Send, Requests, Reading, archive_message, channelVars
  <2>2. Exists(ActiveName(c))
    BY <2>1 DEF Exists, ChannelsNamed, ActiveName
  <2>3. \A n \in DOMAIN archive' : Exists(n)
    BY <2>1, <2>2 DEF Rooted
  <2> QED BY <2>1, <2>3 DEF Rooted, Exists, ChannelsNamed
<1> QED BY <1>3, <1>4, <1>5, <1>6, <1>7, <1>8, <1>9, <1>10, <1>11, StepKinds

(***************************************************************************)
(* As long as nobody rejoins, leaves or disconnects, new bitmaps happen to *)
(* be clear and no friend request is repeated, a client whose buffer never *)
(* filled up is sent, after the reply that let it into its channel, the    *)
(* whole archive of the channel, once and in order, however joins, live    *)
(* messages, stalls, kills and restarts are interleaved                    *)
(* (server.c:403-415, 443-450).                                            *)
(***************************************************************************)
THEOREM JoinsAreSeamless == ASSUME Orderly, NoTwins PROVE Spec => []SeamlessJoin
<1> DEFINE Inv == Orders /\ MembersInv /\ UniqueChannels /\ Seamless /\ Rooted
<1>1. Init => Inv
  BY InitType, EmptyTableInv
     DEF Init, Orders, Stopped, MembersInv, OnlyOpen, InsideNamed, MembersExact, UniqueChannels,
         Seamless, Rooted
<1>2. Inv /\ [Next]_vars => Inv'
  <2> SUFFICES ASSUME Inv, [Next]_vars PROVE Inv'
    OBVIOUS
  <2>1. Orders' /\ MembersInv' /\ UniqueChannels'
    BY TypeStep, StoppedStep, TableStep, MembersStep, UniqueStep DEF Orders
  <2>2. Seamless'
    BY <2>1, SeamlessStep DEF Orders
  <2>3. Rooted'
    BY RootedStep DEF Orders
  <2> QED BY <2>1, <2>2, <2>3
<1>3. Inv => SeamlessJoin
  BY SeamlessIs DEF Orders
<1> QED BY <1>1, <1>2, <1>3, PTL DEF Spec
=============================================================================
