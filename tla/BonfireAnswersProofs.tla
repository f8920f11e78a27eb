------------------------- MODULE BonfireAnswersProofs -------------------------
(***************************************************************************)
(* What a client knows once its answers are in: its channel, its name, its *)
(* list of channels.  BonfireProofs follows the requests on their way to   *)
(* the server; here the answers on their way back are followed as well,    *)
(* out of the inbox, over the connection and into the client, with notices *)
(* and other people's messages between them.                               *)
(***************************************************************************)
EXTENDS BonfireProofs

LogAnswers == {"LOGN:S", "LOGN:F"}
Denials    == {"JOIN:F", "START:F"}

\* Everything on its way to a client, the oldest first.
Pipe(c) == down[c] \o inbox[c]

Without(q, A) == \A j \in DOMAIN q : q[j].action \notin A
Once(q, A) ==
    \A j, l \in DOMAIN q : q[j].action \in A /\ q[l].action \in A => j = l

\* The last answer to /join or /create of q, or t if q has none, is a refusal.
Denied(q, t) ==
    \/ \E l \in DOMAIN q : /\ q[l].action \in Denials
                           /\ \A m \in DOMAIN q : l < m => q[m].action \notin Entries
    \/ Without(q, Entries) /\ t \in Denials

(***************************************************************************)
(* The name: a LOGIN is on its way, or its answer is, never both and never *)
(* two; and what the answer says is so when it comes.                      *)
(***************************************************************************)
Sole(q, a, d) ==
    \E l \in DOMAIN q : /\ q[l].action = a /\ q[l].data = d
                        /\ \A m \in DOMAIN q : q[m].action = a => m = l
CalledAt(place, typedName, itsName, asked, pipe) ==
    /\ place \in {"offline", "asking"} => Without(asked, {"LOGIN"}) /\ Without(pipe, LogAnswers)
    /\ place = "logging" =>
          \/ Sole(asked, "LOGIN", typedName) /\ Without(pipe, LogAnswers)
          \/ /\ Without(asked, {"LOGIN"}) /\ Once(pipe, LogAnswers)
             /\ \A j \in DOMAIN pipe : pipe[j].action = "LOGN:S" => itsName = typedName
    /\ place \in {"loading", "chat"} => Without(asked, {"LOGIN"}) /\ itsName = typedName
Called(c) == ~confused[c] => CalledAt(at[c], username[c], name[c], up[c], Pipe(c))

(***************************************************************************)
(* The channel: once the requests on their way are taken, the client is    *)
(* where it believes, or a refusal is the last it will have been told.     *)
(***************************************************************************)
Placed(c) ==
    in_channel[c] =>
        /\ at[c] = "chat"
        /\ Meant(inside[c], Denied(Pipe(c), told[c]), up[c], Len(up[c]) + 1,
                 current_channel[c])

\* The list: it was parsed, it is on its way, or it will be asked for.
Served(c) ==
    at[c] \in {"loading", "chat"} =>
        \/ channels_loaded[c] \/ ~Without(up[c], {"ONLINE"})
        \/ ~Without(Pipe(c), {"ONLINE"})

NameType  == name \in [Clients -> AllNames]
AtMostOne == \A c \in Clients : \A m, n \in inside[c] : m = n

\* No answer about a channel and no list is dropped: there is room for it in the
\* buffer when the server takes the request.
AnswersFit ==
    \A c \in Clients :
        Serve(c) /\ Head(up[c]).action \in Entering \cup {"ONLINE"} => Len(inbox[c]) < Capacity

-----------------------------------------------------------------------------
(***************************************************************************)
(* Queues of requests or of answers: what is added at the end, and what    *)
(* the tail of a queue keeps.                                              *)
(***************************************************************************)
LEMMA WithoutAdds ==
    ASSUME NEW S, NEW q \in Seq(S), NEW r \in Seq(S), NEW A
    PROVE  Without(q \o r, A) <=> Without(q, A) /\ Without(r, A)
<1> DEFINE s == q \o r
<1>1. /\ DOMAIN q = 1 .. Len(q) /\ DOMAIN r = 1 .. Len(r) /\ Len(q) \in Nat /\ Len(r) \in Nat
      /\ DOMAIN s = 1 .. Len(q) + Len(r)
      /\ \A j \in 1 .. Len(q) : s[j] = q[j]
      /\ \A j \in 1 .. Len(r) : s[Len(q) + j] = r[j]
  BY AddFacts
<1>2. \A j \in DOMAIN q : j \in DOMAIN s /\ s[j] = q[j]
  BY <1>1
<1>3. \A j \in DOMAIN r : Len(q) + j \in DOMAIN s /\ s[Len(q) + j] = r[j]
  BY <1>1
<1>4. ASSUME NEW j \in DOMAIN s
      PROVE  j \in DOMAIN q \/ \E l \in DOMAIN r : j = Len(q) + l
  <2>1. CASE j <= Len(q)
    BY <2>1, <1>1
  <2>2. CASE j > Len(q)
    <3>1. j - Len(q) \in DOMAIN r /\ j = Len(q) + (j - Len(q))
      BY <2>2, <1>1
    <3> QED BY <3>1
  <2> QED BY <2>1, <2>2, <1>1
<1> HIDE DEF s
<1>5. Without(s, A) <=> Without(q, A) /\ Without(r, A)
  BY <1>2, <1>3, <1>4, ZenonT(60) DEF Without
<1> QED BY <1>5 DEF s

\* The first of a queue and the others.
LEMMA HeadOrTail ==
    ASSUME NEW S, NEW q \in Seq(S), q # <<>>
    PROVE  /\ 1 \in DOMAIN q /\ Head(q) = q[1]
           /\ \A j \in DOMAIN Tail(q) : j + 1 \in DOMAIN q /\ j + 1 # 1 /\ Tail(q)[j] = q[j + 1]
           /\ \A j \in DOMAIN q : j # 1 => j - 1 \in DOMAIN Tail(q) /\ Tail(q)[j - 1] = q[j]
           /\ DOMAIN q \subseteq Nat /\ DOMAIN Tail(q) \subseteq Nat
<1>1. /\ Len(q) \in Nat \ {0} /\ DOMAIN q = 1 .. Len(q)
      /\ DOMAIN Tail(q) = 1 .. Len(q) - 1
      /\ \A j \in 1 .. Len(q) - 1 : Tail(q)[j] = q[j + 1]
      /\ Head(q) = q[1]
  BY TailFacts
<1>2. ASSUME NEW j \in DOMAIN q, j # 1
      PROVE  j - 1 \in DOMAIN Tail(q) /\ Tail(q)[j - 1] = q[j]
  <2>1. j - 1 \in 1 .. Len(q) - 1 /\ j - 1 + 1 = j
    BY <1>1, <1>2
  <2> QED BY <2>1, <1>1
<1> QED BY <1>1, <1>2

LEMMA WithoutTail ==
    ASSUME NEW S, NEW q \in Seq(S), q # <<>>, NEW A
    PROVE  Without(q, A) <=> Head(q).action \notin A /\ Without(Tail(q), A)
<1> DEFINE t == Tail(q)
<1>1. /\ 1 \in DOMAIN q /\ Head(q) = q[1]
      /\ \A j \in DOMAIN t : j + 1 \in DOMAIN q /\ t[j] = q[j + 1]
      /\ \A j \in DOMAIN q : j # 1 => j - 1 \in DOMAIN t /\ t[j - 1] = q[j]
  BY HeadOrTail
<1> HIDE DEF t
<1>2. Without(q, A) <=> Head(q).action \notin A /\ Without(t, A)
  BY <1>1 DEF Without
<1> QED BY <1>2 DEF t

LEMMA OnceTail ==
    ASSUME NEW S, NEW q \in Seq(S), q # <<>>, NEW A, Once(q, A)
    PROVE  Once(Tail(q), A) /\ (Head(q).action \in A => Without(Tail(q), A))
<1> DEFINE t == Tail(q)
<1>1. /\ 1 \in DOMAIN q /\ Head(q) = q[1] /\ DOMAIN t \subseteq Nat
      /\ \A j \in DOMAIN t : j + 1 \in DOMAIN q /\ j + 1 # 1 /\ t[j] = q[j + 1]
  BY HeadOrTail
<1> HIDE DEF t
<1>2. ASSUME NEW j \in DOMAIN t, NEW l \in DOMAIN t, t[j].action \in A, t[l].action \in A
      PROVE  j = l
  <2>1. j + 1 = l + 1
    BY <1>1, <1>2 DEF Once
  <2> QED BY <2>1, <1>1
<1>3. ASSUME Head(q).action \in A, NEW j \in DOMAIN t, t[j].action \in A PROVE FALSE
  BY <1>1, <1>3 DEF Once
<1>4. Once(t, A)
  BY <1>2 DEF Once
<1>5. Head(q).action \in A => Without(t, A)
  BY <1>3 DEF Without
<1> QED BY <1>4, <1>5 DEF t

LEMMA OnceAdds ==
    ASSUME NEW S, NEW q \in Seq(S), NEW r \in Seq(S), NEW A
    PROVE  /\ Once(q, A) /\ Without(r, A) => Once(q \o r, A)
           /\ Without(q, A) /\ Once(r, A) => Once(q \o r, A)
<1> DEFINE s == q \o r
           n == Len(q)
<1>1. /\ DOMAIN q = 1 .. n /\ DOMAIN r = 1 .. Len(r) /\ n \in Nat /\ Len(r) \in Nat
      /\ DOMAIN s = 1 .. n + Len(r)
      /\ \A j \in 1 .. n : s[j] = q[j]
      /\ \A j \in 1 .. Len(r) : s[n + j] = r[j]
  BY AddFacts
<1> HIDE DEF s, n
<1>2. ASSUME NEW j \in DOMAIN s
      PROVE  \/ j \in DOMAIN q /\ s[j] = q[j]
             \/ j \notin DOMAIN q /\ j - n \in DOMAIN r /\ s[j] = r[j - n]
  <2>1. CASE j <= n
    BY <2>1, <1>1
  <2>2. CASE j > n
    <3>1. j - n \in DOMAIN r /\ j = n + (j - n)
      BY <2>2, <1>1
    <3> QED BY <3>1, <1>1, <2>2
  <2> QED BY <2>1, <2>2, <1>1
<1>3. ASSUME (Once(q, A) /\ Without(r, A)) \/ (Without(q, A) /\ Once(r, A)),
             NEW j \in DOMAIN s, NEW l \in DOMAIN s, s[j].action \in A, s[l].action \in A
      PROVE  j = l
  <2>1. CASE Once(q, A) /\ Without(r, A)
    BY <1>2, <1>3, <2>1 DEF Once, Without
  <2>2. CASE Without(q, A) /\ Once(r, A)
    <3>1. j - n \in DOMAIN r /\ s[j] = r[j - n] /\ l - n \in DOMAIN r /\ s[l] = r[l - n]
      BY <1>2, <1>3, <2>2 DEF Without
    <3>2. j - n = l - n
      BY <3>1, <1>3, <2>2 DEF Once
    <3> QED BY <3>2, <1>1
  <2> QED BY <1>3, <2>1, <2>2
<1> DEFINE Either == (Once(q, A) /\ Without(r, A)) \/ (Without(q, A) /\ Once(r, A))
<1>4. /\ Once(q, A) /\ Without(r, A) => Either
      /\ Without(q, A) /\ Once(r, A) => Either
  OBVIOUS
<1>5. \A j, l \in DOMAIN s : Either /\ s[j].action \in A /\ s[l].action \in A => j = l
  BY <1>3
<1> HIDE DEF Either
<1>6. Either => Once(s, A)
  BY <1>5 DEF Once
<1> QED BY <1>4, <1>6 DEF s

LEMMA DeniedTail ==
    ASSUME NEW S, NEW q \in Seq(S), q # <<>>, NEW t, NEW u,
           u = IF Head(q).action \in Entries THEN Head(q).action ELSE t
    PROVE  Denied(Tail(q), u) <=> Denied(q, t)
<1> DEFINE r == Tail(q)
<1>1. /\ 1 \in DOMAIN q /\ Head(q) = q[1]
      /\ \A j \in DOMAIN r : j + 1 \in DOMAIN q /\ j + 1 # 1 /\ r[j] = q[j + 1]
      /\ \A j \in DOMAIN q : j # 1 => j - 1 \in DOMAIN r /\ r[j - 1] = q[j]
      /\ DOMAIN q \subseteq Nat \ {0} /\ DOMAIN r \subseteq Nat \ {0}
  BY HeadOrTail, TailFacts
<1>0. \A a \in Denials : a \in Entries
  BY DEF Denials, Entries
<1>2. Without(q, Entries) <=> Head(q).action \notin Entries /\ Without(r, Entries)
  BY WithoutTail
<1> HIDE DEF r
<1>3. ASSUME Denied(r, u) PROVE Denied(q, t)
  <2>1. ASSUME NEW l \in DOMAIN r, r[l].action \in Denials,
               \A m \in DOMAIN r : l < m => r[m].action \notin Entries
        PROVE  Denied(q, t)
    <3>1. l + 1 \in DOMAIN q /\ q[l + 1].action \in Denials
      BY <1>1, <2>1
    <3>2. ASSUME NEW m \in DOMAIN q, l + 1 < m PROVE q[m].action \notin Entries
      <4>1. m # 1 /\ l < m - 1
        BY <1>1, <3>2
      <4> QED BY <4>1, <1>1, <2>1
    <3> QED BY <3>1, <3>2 DEF Denied
  <2>2. CASE Without(r, Entries) /\ u \in Denials
    <3>1. CASE Head(q).action \in Entries
      <4>1. q[1].action \in Denials
        BY <1>1, <2>2, <3>1
      <4>2. \A m \in DOMAIN q : 1 < m => q[m].action \notin Entries
        BY <1>1, <2>2 DEF Without
      <4> QED BY <4>1, <4>2, <1>1 DEF Denied
    <3>2. CASE Head(q).action \notin Entries
      BY <1>2, <2>2, <3>2 DEF Denied
    <3> QED BY <3>1, <3>2
  <2> QED BY <1>3, <2>1, <2>2 DEF Denied
<1>4. ASSUME Denied(q, t) PROVE Denied(r, u)
  <2>1. ASSUME NEW l \in DOMAIN q, q[l].action \in Denials,
               \A m \in DOMAIN q : l < m => q[m].action \notin Entries
        PROVE  Denied(r, u)
    <3>1. CASE l = 1
      <4>1. Without(r, Entries)
        <5> SUFFICES ASSUME NEW m \in DOMAIN r PROVE r[m].action \notin Entries
          BY DEF Without
        <5>1. m + 1 \in DOMAIN q /\ 1 < m + 1 /\ r[m] = q[m + 1]
          BY <1>1
        <5> QED BY <5>1, <2>1, <3>1
      <4>2. u \in Denials
        BY <1>0, <1>1, <2>1, <3>1
      <4> QED BY <4>1, <4>2 DEF Denied
    <3>2. CASE l # 1
      <4>1. l - 1 \in DOMAIN r /\ r[l - 1].action \in Denials
        BY <1>1, <2>1, <3>2
      <4>2. ASSUME NEW m \in DOMAIN r, l - 1 < m PROVE r[m].action \notin Entries
        <5>1. m + 1 \in DOMAIN q /\ l < m + 1 /\ r[m] = q[m + 1]
          BY <1>1, <4>2
        <5> QED BY <5>1, <2>1
      <4> QED BY <4>1, <4>2 DEF Denied
    <3> QED BY <3>1, <3>2
  <2>2. CASE Without(q, Entries) /\ t \in Denials
    BY <1>2, <2>2 DEF Denied
  <2> QED BY <1>4, <2>1, <2>2 DEF Denied
<1>5. Denied(r, u) <=> Denied(q, t)
  BY <1>3, <1>4
<1> QED BY <1>5 DEF r

LEMMA DeniedAdds ==
    ASSUME NEW S, NEW q \in Seq(S), NEW r \in Seq(S), NEW t, Without(r, Entries)
    PROVE  Denied(q \o r, t) <=> Denied(q, t)
<1> DEFINE s == q \o r
<1>1. /\ DOMAIN q = 1 .. Len(q) /\ DOMAIN r = 1 .. Len(r) /\ Len(q) \in Nat /\ Len(r) \in Nat
      /\ DOMAIN s = 1 .. Len(q) + Len(r)
      /\ \A j \in 1 .. Len(q) : s[j] = q[j]
      /\ \A j \in 1 .. Len(r) : s[Len(q) + j] = r[j]
  BY AddFacts
<1>2. \A j \in DOMAIN q : j \in DOMAIN s /\ s[j] = q[j]
  BY <1>1
<1>3. ASSUME NEW j \in DOMAIN s, s[j].action \in Entries PROVE j \in DOMAIN q
  <2>1. CASE j > Len(q)
    <3>1. j - Len(q) \in DOMAIN r /\ j = Len(q) + (j - Len(q))
      BY <2>1, <1>1
    <3> QED BY <3>1, <1>1, <1>3 DEF Without
  <2> QED BY <2>1, <1>1
<1>4. Without(s, Entries) <=> Without(q, Entries)
  BY WithoutAdds
<1> HIDE DEF s
<1>5. \A a \in Denials : a \in Entries
  BY DEF Denials, Entries
<1>6. Denied(s, t) <=> Denied(q, t)
  BY <1>2, <1>3, <1>4, <1>5 DEF Denied
<1> QED BY <1>6 DEF s

LEMMA DeniedLast ==
    ASSUME NEW S, NEW q \in Seq(S), NEW m \in S, NEW t, m.action \in Denials
    PROVE  Denied(q \o <<m>>, t)
<1> DEFINE s == q \o <<m>>
           k == Len(q) + 1
<1>1. k \in DOMAIN s /\ s[k] = m /\ \A j \in DOMAIN s : ~(k < j)
  <2>1. <<m>> \in Seq(S) /\ Len(<<m>>) = 1 /\ <<m>>[1] = m
    OBVIOUS
  <2> QED BY <2>1, AddFacts
<1> HIDE DEF s, k
<1>2. Denied(s, t)
  BY <1>1 DEF Denied
<1> QED BY <1>2 DEF s

-----------------------------------------------------------------------------
(***************************************************************************)
(* What the server puts in an inbox: messages of certain kinds at its end. *)
(***************************************************************************)
Grown(b, b2, c, A) ==
    \E r \in Seq(Answers) : b2[c] = b[c] \o r /\ \A j \in DOMAIN r : r[j].action \in A

LEMMA SameGrown ==
    ASSUME NEW b, NEW b2, NEW c, NEW A, b[c] \in Seq(Answers), b2[c] = b[c]
    PROVE  Grown(b, b2, c, A)
<1>1. b[c] \o <<>> = b[c] /\ <<>> \in Seq(Answers) /\ DOMAIN <<>> = {}
  BY ConcatEmptySeq
<1> QED BY <1>1 DEF Grown

LEMMA TwiceGrown ==
    ASSUME NEW b, NEW b1, NEW b2, NEW c, NEW A, b[c] \in Seq(Answers),
           Grown(b, b1, c, A), Grown(b1, b2, c, A)
    PROVE  Grown(b, b2, c, A)
<1>1. PICK r \in Seq(Answers) : b1[c] = b[c] \o r /\ \A j \in DOMAIN r : r[j].action \in A
  BY DEF Grown
<1>2. PICK t \in Seq(Answers) : b2[c] = b1[c] \o t /\ \A j \in DOMAIN t : t[j].action \in A
  BY DEF Grown
<1> DEFINE s == r \o t
<1>3. b2[c] = b[c] \o s
  <2> DEFINE q == b[c]
  <2>1. q \in Seq(Answers)
    OBVIOUS
  <2> HIDE DEF q
  <2>2. (q \o r) \o t = q \o (r \o t)
    BY <2>1, ConcatAssociative
  <2> QED BY <1>1, <1>2, <2>2 DEF q
<1>4. /\ DOMAIN r = 1 .. Len(r) /\ DOMAIN t = 1 .. Len(t) /\ Len(r) \in Nat /\ Len(t) \in Nat
      /\ DOMAIN s = 1 .. Len(r) + Len(t) /\ s \in Seq(Answers)
      /\ \A j \in 1 .. Len(r) : s[j] = r[j]
      /\ \A j \in 1 .. Len(t) : s[Len(r) + j] = t[j]
  BY AddFacts
<1> HIDE DEF s
<1>5. ASSUME NEW j \in DOMAIN s PROVE s[j].action \in A
  <2>1. CASE j <= Len(r)
    BY <1>1, <1>4, <2>1
  <2>2. CASE j > Len(r)
    <3>1. j - Len(r) \in DOMAIN t /\ j = Len(r) + (j - Len(r))
      BY <1>4, <2>2
    <3> QED BY <3>1, <1>2, <1>4
  <2> QED BY <2>1, <2>2, <1>4
<1> QED BY <1>3, <1>4, <1>5 DEF Grown

\* One message more.
LEMMA OneMore ==
    ASSUME NEW q \in Seq(Answers), NEW m \in Answers
    PROVE  /\ Append(q, m) = q \o <<m>> /\ <<m>> \in Seq(Answers)
           /\ DOMAIN <<m>> = {1} /\ <<m>>[1] = m
<1>1. Append(q, m) = q \o <<m>>
  BY AppendIsConcat
<1>2. <<m>> \in Seq(Answers) /\ DOMAIN <<m>> = {1} /\ <<m>>[1] = m
  OBVIOUS
<1> QED BY <1>1, <1>2

LEMMA TellGrows ==
    ASSUME NEW b, Boxes(b), NEW T, NEW m \in Answers, NEW c \in Clients, NEW A,
           m.action \in A \/ c \notin T
    PROVE  Grown(b, Tell(b, T, m), c, A)
<1>1. b[c] \in Seq(Answers)
  BY DEF Boxes
<1>2. Tell(b, T, m)[c] = b[c] \/ (c \in T /\ Tell(b, T, m)[c] = Append(b[c], m))
  BY DEF Tell
<1>3. CASE Tell(b, T, m)[c] = b[c]
  BY <1>1, <1>3, SameGrown
<1>4. CASE c \in T /\ Tell(b, T, m)[c] = Append(b[c], m)
  <2>1. /\ Tell(b, T, m)[c] = b[c] \o <<m>> /\ <<m>> \in Seq(Answers)
        /\ DOMAIN <<m>> = {1} /\ <<m>>[1] = m
    BY <1>1, <1>4, OneMore
  <2>2. \A j \in DOMAIN <<m>> : <<m>>[j].action \in A
    BY <1>4, <2>1
  <2> QED BY <2>1, <2>2 DEF Grown
<1> QED BY <1>2, <1>3, <1>4

LEMMA RecountGrows ==
    ASSUME RoomType, NEW b, Boxes(b), NEW d \in Clients, NEW n, NEW c \in Clients, NEW A,
           "HIST" \in A \/ c # d
    PROVE  Grown(b, Recount(b, d, n), c, A)
<1> USE CapacityAssumption
<1> DEFINE free == Capacity - Len(b[d])
           take == IF Len(Told(n)) < free THEN Len(Told(n)) ELSE free
           hist == [j \in 1 .. take |-> Chat("HIST", Told(n)[j])]
<1>1. /\ Told(n) \in Seq(Nat) /\ b[d] \in Seq(Answers) /\ Len(b[d]) <= Capacity
      /\ b[c] \in Seq(Answers) /\ d \in DOMAIN b
  BY DEF RoomType, Told, Boxes
<1>2. Recount(b, d, n) = [b EXCEPT ![d] = @ \o hist]
  BY DEF Recount
<1>3. CASE c # d
  <2>1. Recount(b, d, n)[c] = b[c]
    BY <1>1, <1>2, <1>3
  <2> QED BY <1>1, <2>1, SameGrown
<1>4. CASE c = d /\ "HIST" \in A
  <2>1. /\ Len(Told(n)) \in Nat /\ Len(b[d]) \in Nat
        /\ \A j \in 1 .. Len(Told(n)) : Told(n)[j] \in Nat
    BY <1>1, LenProperties
  <2>2. take \in Nat /\ take <= Len(Told(n))
    <3>1. free \in Nat
      BY <1>1, <2>1
    <3> QED BY <3>1, <2>1
  <2> HIDE DEF take
  <2>3. \A j \in 1 .. take : Chat("HIST", Told(n)[j]) \in Answers
    BY <2>1, <2>2, MessageTypes DEF Actions
  <2>4. hist \in Seq(Answers) /\ DOMAIN hist = 1 .. take
    BY <2>2, <2>3, FunctionIsSequence
  <2>5. \A j \in DOMAIN hist : hist[j].action \in A
    BY <1>4 DEF Chat
  <2> HIDE DEF hist
  <2>6. Recount(b, d, n)[c] = b[c] \o hist
    BY <1>1, <1>2, <1>4
  <2> QED BY <2>4, <2>5, <2>6 DEF Grown
<1> QED BY <1>3, <1>4

\* Only the one who is told gets anything.
LEMMA ToldOne ==
    ASSUME NEW b, Boxes(b), NEW d \in Clients, NEW m \in Answers, NEW c \in Clients
    PROVE  IF c = d /\ Len(b[c]) < Capacity THEN Tell(b, {d}, m)[c] = b[c] \o <<m>>
                                            ELSE Tell(b, {d}, m)[c] = b[c]
<1>1. b[c] \in Seq(Answers)
  BY DEF Boxes
<1>2. Append(b[c], m) = b[c] \o <<m>>
  BY <1>1, OneMore
<1> QED BY <1>2 DEF Tell

-----------------------------------------------------------------------------
(***************************************************************************)
(* What is on its way to a client: more behind it, or the first taken off. *)
(***************************************************************************)
LEMMA PipeAdds ==
    ASSUME NEW q \in Seq(Answers), NEW b \in Seq(Answers), NEW r \in Seq(Answers)
    PROVE  q \o (b \o r) = (q \o b) \o r
BY ConcatAssociative

LEMMA PipeTail ==
    ASSUME NEW q \in Seq(Answers), NEW b \in Seq(Answers), q # <<>>
    PROVE  /\ q \o b \in Seq(Answers) /\ q \o b # <<>> /\ Head(q \o b) = Head(q)
           /\ Tail(q \o b) = Tail(q) \o b
<1> DEFINE s == q \o b
           n == Len(q)
           t == Tail(q)
           u == t \o b
<1>1. /\ t \in Seq(Answers) /\ n \in Nat \ {0} /\ Len(t) = n - 1 /\ Head(q) = q[1]
      /\ \A j \in 1 .. n - 1 : t[j] = q[j + 1]
  BY TailFacts
<1>2. /\ s \in Seq(Answers) /\ Len(s) = n + Len(b) /\ Len(b) \in Nat
      /\ \A j \in 1 .. n : s[j] = q[j]
      /\ \A j \in 1 .. Len(b) : s[n + j] = b[j]
  BY AddFacts
<1>3. /\ u \in Seq(Answers) /\ Len(u) = Len(t) + Len(b)
      /\ \A j \in 1 .. Len(t) : u[j] = t[j]
      /\ \A j \in 1 .. Len(b) : u[Len(t) + j] = b[j]
  BY <1>1, AddFacts
<1>4. s # <<>>
  BY <1>1, <1>2
<1> HIDE DEF s, n, u, t
<1>5. /\ Tail(s) \in Seq(Answers) /\ Len(Tail(s)) = Len(s) - 1 /\ Head(s) = s[1]
      /\ \A j \in 1 .. Len(s) - 1 : Tail(s)[j] = s[j + 1]
  BY <1>2, <1>4, TailFacts
<1>6. ASSUME NEW j \in 1 .. Len(u) PROVE Tail(s)[j] = u[j]
  <2>1. j \in 1 .. Len(s) - 1
    BY <1>1, <1>2, <1>3
  <2>2. CASE j <= n - 1
    <3>1. j \in 1 .. n - 1 /\ j + 1 \in 1 .. n /\ j \in 1 .. Len(t)
      BY <1>1, <2>1, <2>2
    <3>2. Tail(s)[j] = s[j + 1] /\ s[j + 1] = q[j + 1] /\ u[j] = t[j] /\ t[j] = q[j + 1]
      BY <1>1, <1>2, <1>3, <1>5, <2>1, <3>1
    <3> QED BY <3>2
  <2>3. CASE j > n - 1
    <3> DEFINE l == j - (n - 1)
    <3>1. l \in 1 .. Len(b) /\ n + l = j + 1 /\ Len(t) + l = j
      BY <1>1, <1>2, <1>3, <2>1, <2>3
    <3> HIDE DEF l
    <3>2. s[n + l] = b[l] /\ u[Len(t) + l] = b[l]
      BY <1>2, <1>3, <3>1
    <3>3. Tail(s)[j] = s[n + l]
      BY <1>5, <2>1, <3>1
    <3> QED BY <3>1, <3>2, <3>3
  <2>4. j <= n - 1 \/ j > n - 1
    BY <1>1, <1>2, <1>3
  <2> QED BY <2>2, <2>3, <2>4
<1>7. Len(Tail(s)) = Len(u)
  BY <1>1, <1>2, <1>3, <1>5
<1>8. Tail(s) = u
  <2>1. \A j \in 1 .. Len(Tail(s)) : Tail(s)[j] = u[j]
    BY <1>6, <1>7
  <2> QED BY <1>3, <1>5, <1>7, <2>1, SeqEqual
<1>9. Head(s) = Head(q)
  BY <1>1, <1>2, <1>5
<1> QED BY <1>2, <1>4, <1>8, <1>9 DEF s, u, t

LEMMA PipeType == ASSUME TypeInv, NEW c \in Clients PROVE Pipe(c) \in Seq(Answers)
<1>1. down[c] \in Seq(Answers) /\ inbox[c] \in Seq(Answers)
  BY DEF TypeInv, WireType, RoomType, Boxes
<1> QED BY <1>1, ConcatProperties DEF Pipe
-----------------------------------------------------------------------------
(***************************************************************************)
(* What the server puts in an inbox while it takes a request of e.         *)
(***************************************************************************)
LEMMA TellOn ==
    ASSUME NEW b, Boxes(b), NEW b2, Boxes(b2), NEW T, NEW m \in Answers,
           NEW c \in Clients, NEW A, Grown(b, b2, c, A), m.action \in A \/ c \notin T
    PROVE  Boxes(Tell(b2, T, m)) /\ Grown(b, Tell(b2, T, m), c, A)
<1>1. Grown(b2, Tell(b2, T, m), c, A) /\ Boxes(Tell(b2, T, m))
  BY TellGrows, TellType
<1>2. b[c] \in Seq(Answers)
  BY DEF Boxes
<1> DEFINE b3 == Tell(b2, T, m)
<1> HIDE DEF b3
<1>3. Grown(b, b3, c, A)
  BY <1>1, <1>2, TwiceGrown DEF b3
<1> QED BY <1>1, <1>3 DEF b3

LEMMA Kinds ==
    /\ \A a \in Actions, id \in Nat : Chat(a, id) \in Answers /\ Chat(a, id).action = a
    /\ \A a \in Actions : Notice(a) \in Answers /\ Notice(a).action = a
BY MessageTypes DEF Notice, Chat

LEMMA TellsGrow ==
    ASSUME TypeInv, NEW c \in Clients, NEW e \in Clients, NEW a \in Actions, NEW A,
           Answer(e, a), a \in A \/ c # e
    PROVE  Grown(inbox, inbox', c, A)
<1>1. Boxes(inbox) /\ Notice(a) \in Answers /\ Notice(a).action = a
  BY Kinds DEF TypeInv, RoomType
<1> QED BY <1>1, TellGrows DEF Answer

LEMMA CreatesGrow ==
    ASSUME TypeInv, NEW c \in Clients, NEW e \in Clients, NEW n, NEW A,
           Creates(e, n), "SYS" \in A, "START:S" \in A \/ c # e
    PROVE  Grown(inbox, inbox', c, A)
<1>1. Boxes(inbox) /\ Grown(inbox, inbox, c, A)
  BY SameGrown DEF TypeInv, RoomType, Boxes
<1>2. /\ Notice("SYS") \in Answers /\ Notice("SYS").action = "SYS"
      /\ Notice("START:S") \in Answers /\ Notice("START:S").action = "START:S"
  BY Kinds DEF Actions, Entries
<1> DEFINE b == Tell(inbox, {e}, Notice("START:S"))
<1>3. Boxes(b) /\ Grown(inbox, b, c, A)
  BY <1>1, <1>2, TellOn
<1>4. inbox' = Tell(b, Others(e), Notice("SYS"))
  BY DEF Creates
<1> HIDE DEF b
<1> QED BY <1>1, <1>2, <1>3, <1>4, TellOn

LEMMA EntersGrow ==
    ASSUME TypeInv, NEW c \in Clients, NEW e \in Clients, NEW n, NEW A,
           Enters(e, n), "SYS" \in A, {"JOIN:S", "HIST"} \subseteq A \/ c # e
    PROVE  Grown(inbox, inbox', c, A)
<1>1. RoomType /\ Boxes(inbox) /\ Grown(inbox, inbox, c, A)
  BY SameGrown DEF TypeInv, RoomType, Boxes
<1>2. /\ Notice("SYS") \in Answers /\ Notice("SYS").action = "SYS"
      /\ Notice("JOIN:S") \in Answers /\ Notice("JOIN:S").action = "JOIN:S"
  BY Kinds DEF Actions, Entries
<1> DEFINE b == Tell(inbox, {e}, Notice("JOIN:S"))
           d == Tell(b, Others(e), Notice("SYS"))
           h == Recount(d, e, n)
<1>3. Boxes(b) /\ Grown(inbox, b, c, A)
  BY <1>1, <1>2, TellOn
<1>4. PICK S : inbox' = Tell(h, S, Notice("SYS"))
  BY DEF Enters
<1> HIDE DEF b
<1>5. Boxes(d) /\ Grown(inbox, d, c, A)
  BY <1>1, <1>2, <1>3, TellOn
<1> HIDE DEF d
<1>6. Boxes(h) /\ Grown(d, h, c, A)
  BY <1>1, <1>5, RecountType, RecountGrows
<1> HIDE DEF h
<1>7. inbox[c] \in Seq(Answers)
  BY <1>1 DEF Boxes
<1>8. Grown(inbox, h, c, A)
  BY <1>5, <1>6, <1>7, TwiceGrown
<1> QED BY <1>1, <1>2, <1>4, <1>6, <1>8, TellOn

LEMMA BefriendsGrow ==
    ASSUME TypeInv, NEW c \in Clients, NEW e \in Clients, NEW f, NEW n, NEW A,
           Befriends(e, f, n), "SYS" \in A
    PROVE  Grown(inbox, inbox', c, A)
<1>1. Boxes(inbox) /\ Grown(inbox, inbox, c, A)
  BY SameGrown DEF TypeInv, RoomType, Boxes
<1>2. Notice("SYS") \in Answers /\ Notice("SYS").action = "SYS"
  BY Kinds DEF Actions
<1> DEFINE b == Tell(inbox, {f}, Notice("SYS"))
<1>3. Boxes(b) /\ Grown(inbox, b, c, A)
  BY <1>1, <1>2, TellOn
<1>4. inbox' = Tell(b, {e}, Notice("SYS"))
  BY DEF Befriends
<1> HIDE DEF b
<1> QED BY <1>1, <1>2, <1>3, <1>4, TellOn

LEMMA LeavesGrow ==
    ASSUME TypeInv, NEW c \in Clients, NEW e \in Clients, NEW A,
           Leaves(e), "SYS" \in A, "LEAVE:S" \in A \/ c # e
    PROVE  Grown(inbox, inbox', c, A)
<1>1. Boxes(inbox) /\ Grown(inbox, inbox, c, A)
  BY SameGrown DEF TypeInv, RoomType, Boxes
<1>2. /\ Notice("SYS") \in Answers /\ Notice("SYS").action = "SYS"
      /\ Notice("LEAVE:S") \in Answers /\ Notice("LEAVE:S").action = "LEAVE:S"
  BY Kinds DEF Actions
<1> DEFINE b == Tell(inbox, Others(e), Notice("SYS"))
<1>3. Boxes(b) /\ Grown(inbox, b, c, A)
  BY <1>1, <1>2, TellOn
<1>4. inbox' = Tell(b, {e}, Notice("LEAVE:S"))
  BY DEF Leaves
<1> HIDE DEF b
<1> QED BY <1>1, <1>2, <1>3, <1>4, TellOn

LEMMA SaysGrow ==
    ASSUME TypeInv, NEW c \in Clients, NEW e \in Clients, NEW A, Says(e), "SEND" \in A
    PROVE  Grown(inbox, inbox', c, A)
<1>1. Boxes(inbox) /\ said + 1 \in Nat
  BY DEF TypeInv, RoomType
<1>2. Chat("SEND", said + 1) \in Answers /\ Chat("SEND", said + 1).action = "SEND"
  BY <1>1, Kinds DEF Actions
<1>3. PICK S : inbox' = Tell(inbox, S, Chat("SEND", said + 1))
  BY DEF Says
<1> QED BY <1>1, <1>2, <1>3, TellGrows

\* Whoever did not ask is told of others, and nothing else is about it.
LEMMA ServeOthers ==
    ASSUME TypeInv, NameType, NEW c \in Clients, NEW e \in Clients, c # e, Serve(e)
    PROVE  /\ Grown(inbox, inbox', c, {"SYS", "SEND"})
           /\ name'[c] = name[c] /\ inside'[c] = inside[c]
           /\ up'[c] = up[c] /\ down' = down
<1>1. inside'[c] = inside[c] /\ up'[c] = up[c]
  BY ServeTakes DEF TypeInv, WireType
<1>2. down' = down
  BY DEF Serve, TakesLogin, TakesStart, TakesJoin, TakesLeave, TakesOnline, TakesSend,
         TakesFriend, Takes
<1>3. CASE TakesLogin(e)
  <2>1. Answer(e, "LOGN:S") \/ Answer(e, "LOGN:F")
    BY <1>3 DEF TakesLogin, Tells, LogsIn
  <2>2. name' = name \/ \E u : name' = [name EXCEPT ![e] = u]
    BY <1>3 DEF TakesLogin, Tells, LogsIn
  <2> QED BY <1>1, <1>2, <2>1, <2>2, TellsGrow DEF Actions, NameType
<1>4. CASE TakesStart(e) \/ TakesJoin(e)
  <2>1. name' = name
    BY <1>4 DEF TakesStart, TakesJoin, Tells, Creates, Enters
  <2>2. \/ Answer(e, "START:F") \/ Answer(e, "JOIN:F")
        \/ Creates(e, Asked(e)) \/ Enters(e, Asked(e))
    BY <1>4 DEF TakesStart, TakesJoin, Tells
  <2>3. Grown(inbox, inbox', c, {"SYS", "SEND"})
    BY <2>2, TellsGrow, CreatesGrow, EntersGrow DEF Actions, Entries
  <2> QED BY <1>1, <1>2, <2>1, <2>3
<1>5. CASE TakesLeave(e)
  BY <1>1, <1>2, <1>5, LeavesGrow DEF TakesLeave, Leaves
<1>6. CASE TakesOnline(e)
  BY <1>1, <1>2, <1>6, TellsGrow DEF TakesOnline, Tells, Actions
<1>7. CASE TakesSend(e)
  <2>1. CASE UNCHANGED roomVars
    <3>1. inbox' = inbox /\ name' = name /\ inbox[c] \in Seq(Answers)
      BY <2>1 DEF roomVars, TypeInv, RoomType, Boxes
    <3> QED BY <1>1, <1>2, <3>1, SameGrown
  <2>2. CASE Says(e)
    BY <1>1, <1>2, <2>2, SaysGrow DEF Says
  <2> QED BY <1>7, <2>1, <2>2 DEF TakesSend
<1>8. CASE TakesFriend(e)
  <2>1. name' = name
    BY <1>8 DEF TakesFriend, Tells, Befriends
  <2>2. Answer(e, "FRIEND") \/ \E f, n : Befriends(e, f, n)
    BY <1>8 DEF TakesFriend, Tells
  <2>3. Grown(inbox, inbox', c, {"SYS", "SEND"})
    BY <2>2, TellsGrow, BefriendsGrow DEF Actions
  <2> QED BY <1>1, <1>2, <2>1, <2>3
<1> QED BY <1>3, <1>4, <1>5, <1>6, <1>7, <1>8 DEF Serve

(***************************************************************************)
(* Whoever asked is answered, if there is room: what r adds to its inbox   *)
(* when its request m is taken.                                            *)
(***************************************************************************)
Reply(c, m, r) ==
    /\ m.action # "LOGIN" => Without(r, LogAnswers) /\ name'[c] = name[c]
    /\ m.action = "LOGIN" =>
          Once(r, LogAnswers) /\ \A j \in DOMAIN r : r[j].action = "LOGN:S" => name'[c] = m.data
    /\ m.action \notin Entering => Without(r, Entries)
    /\ m.action \in Entering /\ Len(inbox[c]) < Capacity =>
          inside'[c] = {m.data} \/ \E x \in Answers : r = <<x>> /\ x.action \in Denials
    /\ m.action = "ONLINE" /\ Len(inbox[c]) < Capacity => ~Without(r, {"ONLINE"})

LEMMA GrownReplies ==
    ASSUME NEW c, NEW A, Grown(inbox, inbox', c, A)
    PROVE  \E r \in Seq(Answers) :
              /\ inbox'[c] = inbox[c] \o r
              /\ \A B : B \cap A = {} => Without(r, B)
<1>1. PICK r \in Seq(Answers) : inbox'[c] = inbox[c] \o r /\ \A j \in DOMAIN r : r[j].action \in A
  BY DEF Grown
<1>2. \A B : B \cap A = {} => Without(r, B)
  BY <1>1 DEF Without
<1> QED BY <1>1, <1>2

LEMMA ServeReplies ==
    ASSUME TypeInv, NameType, NEW c \in Clients, Serve(c)
    PROVE  /\ down' = down
           /\ \E r \in Seq(Answers) : inbox'[c] = inbox[c] \o r /\ Reply(c, Head(up[c]), r)
<1> DEFINE m == Head(up[c])
<1>1. down' = down
  BY DEF Serve, TakesLogin, TakesStart, TakesJoin, TakesLeave, TakesOnline, TakesSend,
         TakesFriend, Takes
<1>2. Boxes(inbox) /\ inbox[c] \in Seq(Answers)
  BY DEF TypeInv, RoomType, Boxes
<1>3. ASSUME NEW A, Grown(inbox, inbox', c, A), A \cap LogAnswers = {}, A \cap Entries = {},
             name' = name, m.action \notin Entering \cup {"LOGIN", "ONLINE"}
      PROVE  \E r \in Seq(Answers) : inbox'[c] = inbox[c] \o r /\ Reply(c, m, r)
  <2>1. PICK r \in Seq(Answers) : inbox'[c] = inbox[c] \o r /\ \A B : B \cap A = {} => Without(r, B)
    BY <1>3, GrownReplies
  <2>2. Without(r, LogAnswers) /\ Without(r, Entries)
    BY <1>3, <2>1
  <2> QED BY <1>3, <2>1, <2>2 DEF Reply
\* One answer, or none.
<1>4. ASSUME NEW a \in Actions, Answer(c, a)
      PROVE  \E r \in Seq(Answers) :
                /\ inbox'[c] = inbox[c] \o r
                /\ DOMAIN r \subseteq {1} /\ \A j \in DOMAIN r : r[j].action = a
                /\ Len(inbox[c]) < Capacity => r = <<Notice(a)>>
  <2>0. Notice(a) \in Answers /\ Notice(a).action = a
    BY Kinds
  <2>1. CASE Len(inbox[c]) < Capacity
    <3> DEFINE r == <<Notice(a)>>
    <3>1. inbox'[c] = inbox[c] \o r
      BY <1>2, <1>4, <2>0, <2>1, ToldOne DEF Answer
    <3>2. r \in Seq(Answers) /\ DOMAIN r = {1} /\ r[1] = Notice(a)
      BY <1>2, <2>0, OneMore
    <3> HIDE DEF r
    <3>3. \A j \in DOMAIN r : r[j].action = a
      BY <3>2, <2>0
    <3>4. r = <<Notice(a)>>
      BY DEF r
    <3> QED BY <3>1, <3>2, <3>3, <3>4
  <2>2. CASE ~(Len(inbox[c]) < Capacity)
    <3>1. inbox'[c] = inbox[c]
      BY <1>2, <1>4, <2>0, <2>2, ToldOne DEF Answer
    <3>2. inbox[c] \o <<>> = inbox[c] /\ <<>> \in Seq(Answers) /\ DOMAIN <<>> = {}
      BY <1>2, ConcatEmptySeq
    <3> QED BY <2>2, <3>1, <3>2
  <2> QED BY <2>1, <2>2
<1>5. CASE TakesLogin(c)
  <2>1. m.action = "LOGIN"
    BY <1>5 DEF TakesLogin, Takes
  <2>2. PICK a \in LogAnswers : Answer(c, a) /\ (a = "LOGN:S" => name'[c] = m.data)
    <3>1. CASE Tells(c, "LOGN:F")
      BY <3>1 DEF Tells, LogAnswers
    <3>2. CASE LogsIn(c, Asked(c))
      BY <3>2 DEF LogsIn, LogAnswers, Asked, NameType
    <3> QED BY <1>5, <3>1, <3>2 DEF TakesLogin
  <2>3. PICK r \in Seq(Answers) : /\ inbox'[c] = inbox[c] \o r /\ DOMAIN r \subseteq {1}
                                  /\ \A j \in DOMAIN r : r[j].action = a
    BY <1>4, <2>2 DEF LogAnswers, Actions
  <2>4. Once(r, LogAnswers) /\ \A j \in DOMAIN r : r[j].action = "LOGN:S" => name'[c] = m.data
    BY <2>2, <2>3 DEF Once
  <2>5. a \notin Entries
    BY <2>2 DEF LogAnswers, Entries
  <2>6. Without(r, Entries)
    BY <2>3, <2>5 DEF Without
  <2>7. m.action \notin Entering /\ m.action # "ONLINE"
    BY <2>1 DEF Entering
  <2> HIDE DEF m
  <2>8. Reply(c, m, r)
    BY <2>1, <2>4, <2>6, <2>7 DEF Reply
  <2> QED BY <1>1, <2>3, <2>8 DEF m
<1>6. CASE TakesStart(c) \/ TakesJoin(c)
  <2>1. m.action \in Entering /\ m.action # "LOGIN" /\ m.action # "ONLINE" /\ name' = name
    BY <1>6 DEF TakesStart, TakesJoin, Takes, Entering, Tells, Creates, Enters
  <2>2. ASSUME NEW a \in Denials, Answer(c, a)
        PROVE  \E r \in Seq(Answers) : inbox'[c] = inbox[c] \o r /\ Reply(c, m, r)
    <3>1. a \in Actions /\ a \notin LogAnswers
      BY <2>2 DEF Actions, Denials, Entries, LogAnswers
    <3>2. PICK r \in Seq(Answers) : /\ inbox'[c] = inbox[c] \o r
                                    /\ \A j \in DOMAIN r : r[j].action = a
                                    /\ Len(inbox[c]) < Capacity => r = <<Notice(a)>>
      BY <1>4, <2>2, <3>1
    <3>3. Without(r, LogAnswers)
      BY <3>1, <3>2 DEF Without
    <3>4. Notice(a) \in Answers /\ Notice(a).action \in Denials
      BY <2>2, <3>1, Kinds
    <3> HIDE DEF m
    <3>5. Reply(c, m, r)
      BY <2>1, <3>2, <3>3, <3>4 DEF Reply
    <3> QED BY <3>2, <3>5
  <2>3. ASSUME Creates(c, m.data) \/ Enters(c, m.data)
        PROVE  \E r \in Seq(Answers) : inbox'[c] = inbox[c] \o r /\ Reply(c, m, r)
    <3> DEFINE A == {"START:S", "JOIN:S", "HIST", "SYS"}
    <3>1. Grown(inbox, inbox', c, A)
      BY <2>3, CreatesGrow, EntersGrow
    <3>2. inside'[c] = {m.data}
      BY <2>3 DEF Creates, Enters, TypeInv, RoomType
    <3>3. LogAnswers \cap A = {}
      BY DEF LogAnswers
    <3> HIDE DEF A
    <3>4. PICK r \in Seq(Answers) : inbox'[c] = inbox[c] \o r /\ \A B : B \cap A = {} => Without(r, B)
      BY <3>1, GrownReplies
    <3>5. Without(r, LogAnswers)
      BY <3>3, <3>4
    <3> HIDE DEF m
    <3>6. Reply(c, m, r)
      BY <2>1, <3>2, <3>5 DEF Reply
    <3> QED BY <3>4, <3>6
  <2>4. \/ Answer(c, "START:F") \/ Answer(c, "JOIN:F")
        \/ Creates(c, m.data) \/ Enters(c, m.data)
    BY <1>6 DEF TakesStart, TakesJoin, Tells, Asked
  <2> QED BY <1>1, <2>2, <2>3, <2>4 DEF Denials
<1>7. CASE TakesOnline(c)
  <2>1. m.action = "ONLINE" /\ Answer(c, "ONLINE") /\ name' = name
    BY <1>7 DEF TakesOnline, Takes, Tells
  <2>2. PICK r \in Seq(Answers) : /\ inbox'[c] = inbox[c] \o r
                                  /\ \A j \in DOMAIN r : r[j].action = "ONLINE"
                                  /\ Len(inbox[c]) < Capacity => r = <<Notice("ONLINE")>>
    BY <1>4, <2>1 DEF Actions
  <2>3. Without(r, LogAnswers) /\ Without(r, Entries)
    BY <2>2 DEF Without, LogAnswers, Entries
  <2>4. Len(inbox[c]) < Capacity => ~Without(r, {"ONLINE"})
    BY <2>2 DEF Without, Notice
  <2>5. m.action \notin Entering /\ m.action # "LOGIN"
    BY <2>1 DEF Entering
  <2> HIDE DEF m
  <2>6. Reply(c, m, r)
    BY <2>1, <2>3, <2>4, <2>5 DEF Reply
  <2> QED BY <1>1, <2>2, <2>6 DEF m
<1>8. CASE TakesLeave(c) \/ TakesSend(c) \/ TakesFriend(c)
  <2>1. m.action \notin Entering \cup {"LOGIN", "ONLINE"}
    BY <1>8 DEF TakesLeave, TakesSend, TakesFriend, Takes, Entering
  <2>2. name' = name
    BY <1>8 DEF TakesLeave, TakesSend, TakesFriend, Leaves, Says, Tells, Befriends, roomVars
  <2> DEFINE A == {"SYS", "LEAVE:S", "SEND", "FRIEND"}
  <2>3. A \cap LogAnswers = {} /\ A \cap Entries = {}
    BY DEF LogAnswers, Entries
  <2>4. \/ Leaves(c) \/ Says(c) \/ inbox' = inbox \/ Answer(c, "FRIEND")
        \/ \E f, n : Befriends(c, f, n)
    BY <1>8 DEF TakesLeave, TakesSend, TakesFriend, Tells, roomVars
  <2>5. Grown(inbox, inbox', c, A)
    <3>1. CASE Leaves(c) \/ Says(c)
      BY <3>1, LeavesGrow, SaysGrow
    <3>2. CASE inbox' = inbox
      BY <1>2, <3>2, SameGrown
    <3>3. CASE Answer(c, "FRIEND")
      BY <3>3, TellsGrow DEF Actions
    <3>4. CASE \E f, n : Befriends(c, f, n)
      BY <3>4, BefriendsGrow
    <3> QED BY <2>4, <3>1, <3>2, <3>3, <3>4
  <2> HIDE DEF A, m
  <2>6. \E r \in Seq(Answers) : inbox'[c] = inbox[c] \o r /\ Reply(c, m, r)
    BY <1>3, <2>1, <2>2, <2>3, <2>5
  <2> QED BY <1>1, <2>6 DEF m
<1> QED BY <1>5, <1>6, <1>7, <1>8 DEF Serve

-----------------------------------------------------------------------------
(***************************************************************************)
(* The name, one event after another.                                      *)
(***************************************************************************)
LEMMA SoleAdds ==
    ASSUME NEW q \in Seq(Requests), NEW r \in Seq(Requests), NEW a, NEW d,
           Sole(q, a, d), Without(r, {a})
    PROVE  Sole(q \o r, a, d)
<1> DEFINE s == q \o r
           n == Len(q)
<1>1. /\ DOMAIN q = 1 .. n /\ DOMAIN r = 1 .. Len(r) /\ n \in Nat /\ Len(r) \in Nat
      /\ DOMAIN s = 1 .. n + Len(r)
      /\ \A j \in 1 .. n : s[j] = q[j]
      /\ \A j \in 1 .. Len(r) : s[n + j] = r[j]
  BY AddFacts
<1> HIDE DEF s, n
<1>2. \A j \in DOMAIN q : j \in DOMAIN s /\ s[j] = q[j]
  BY <1>1
<1>3. ASSUME NEW j \in DOMAIN s, s[j].action = a PROVE j \in DOMAIN q
  <2>1. CASE j > n
    <3>1. j - n \in DOMAIN r /\ n + (j - n) = j
      BY <1>1, <2>1
    <3> QED BY <3>1, <1>1, <1>3 DEF Without
  <2> QED BY <2>1, <1>1
<1>4. Sole(s, a, d)
  BY <1>2, <1>3 DEF Sole
<1> QED BY <1>4 DEF s

LEMMA SoleLast ==
    ASSUME NEW q \in Seq(Requests), NEW m \in Requests, Without(q, {m.action})
    PROVE  Sole(q \o <<m>>, m.action, m.data)
<1> DEFINE r == <<m>>
           s == q \o r
           n == Len(q)
           k == n + 1
<1>1. r \in Seq(Requests) /\ Len(r) = 1 /\ r[1] = m
  OBVIOUS
<1> HIDE DEF r
<1>2. /\ DOMAIN q = 1 .. n /\ n \in Nat /\ DOMAIN s = 1 .. n + Len(r)
      /\ \A j \in 1 .. n : s[j] = q[j]
      /\ \A j \in 1 .. Len(r) : s[n + j] = r[j]
  <2>1. r \in Seq(Requests)
    BY <1>1
  <2> QED BY <2>1, AddFacts
<1> HIDE DEF s, n
<1>3. k \in DOMAIN s /\ s[k] = m /\ \A j \in DOMAIN s : j # k => j \in DOMAIN q /\ s[j] = q[j]
  BY <1>1, <1>2
<1> HIDE DEF k
<1>4. Sole(s, m.action, m.data)
  BY <1>3 DEF Sole, Without
<1> QED BY <1>4 DEF s, r

LEMMA SoleTail ==
    ASSUME NEW q \in Seq(Requests), q # <<>>, NEW a, NEW d, Sole(q, a, d)
    PROVE  /\ Head(q).action # a => Sole(Tail(q), a, d)
           /\ Head(q).action = a => Head(q).data = d /\ Without(Tail(q), {a})
<1> DEFINE t == Tail(q)
<1>1. /\ 1 \in DOMAIN q /\ Head(q) = q[1]
      /\ \A j \in DOMAIN t : j + 1 \in DOMAIN q /\ j + 1 # 1 /\ t[j] = q[j + 1]
      /\ \A j \in DOMAIN q : j # 1 => j - 1 \in DOMAIN t /\ t[j - 1] = q[j]
      /\ DOMAIN q \subseteq Nat /\ DOMAIN t \subseteq Nat
  BY HeadOrTail
<1> HIDE DEF t
<1>2. PICK l \in DOMAIN q : /\ q[l].action = a /\ q[l].data = d
                            /\ \A m \in DOMAIN q : q[m].action = a => m = l
  BY DEF Sole
<1>3. ASSUME q[1].action # a PROVE Sole(t, a, d)
  <2>1. l # 1 /\ l - 1 \in DOMAIN t /\ t[l - 1].action = a /\ t[l - 1].data = d
    BY <1>1, <1>2, <1>3
  <2>2. ASSUME NEW m \in DOMAIN t, t[m].action = a PROVE m = l - 1
    <3>1. m + 1 = l
      BY <1>1, <1>2, <2>2
    <3> QED BY <3>1, <1>1
  <2> QED BY <2>1, <2>2 DEF Sole
<1>4. ASSUME q[1].action = a PROVE Head(q).data = d /\ Without(t, {a})
  <2>1. l = 1
    BY <1>1, <1>2, <1>4
  <2>2. \A m \in DOMAIN t : t[m].action # a
    BY <1>1, <1>2, <2>1
  <2> QED BY <1>1, <1>2, <2>1, <2>2 DEF Without
<1> QED BY <1>1, <1>3, <1>4 DEF t

LEMMA CalledHears ==
    ASSUME NEW pl, NEW u, NEW n, NEW q, NEW p \in Seq(Answers), NEW r \in Seq(Answers),
           CalledAt(pl, u, n, q, p), Without(r, LogAnswers)
    PROVE  CalledAt(pl, u, n, q, p \o r)
<1> DEFINE s == p \o r
           k == Len(p)
<1>0. Without(p, LogAnswers) => Without(s, LogAnswers)
  BY WithoutAdds
<1>1. Once(p, LogAnswers) => Once(s, LogAnswers)
  BY OnceAdds
<1>2. /\ DOMAIN p = 1 .. k /\ DOMAIN r = 1 .. Len(r) /\ k \in Nat /\ Len(r) \in Nat
      /\ DOMAIN s = 1 .. k + Len(r)
      /\ \A j \in 1 .. k : s[j] = p[j]
      /\ \A j \in 1 .. Len(r) : s[k + j] = r[j]
  BY AddFacts
<1> HIDE DEF s, k
<1>3. ASSUME NEW j \in DOMAIN s, s[j].action = "LOGN:S" PROVE j \in DOMAIN p /\ p[j].action = "LOGN:S"
  <2>1. CASE j > k
    <3>1. j - k \in DOMAIN r /\ k + (j - k) = j
      BY <1>2, <2>1
    <3>2. r[j - k].action \in LogAnswers
      BY <3>1, <1>2, <1>3 DEF LogAnswers
    <3> QED BY <3>1, <3>2 DEF Without
  <2> QED BY <2>1, <1>2, <1>3
<1>4. CalledAt(pl, u, n, q, s)
  BY <1>0, <1>1, <1>3 DEF CalledAt
<1> QED BY <1>4 DEF s

LEMMA CalledAsks ==
    ASSUME NEW pl, NEW u, NEW n, NEW q \in Seq(Requests), NEW p, NEW r \in Seq(Requests),
           CalledAt(pl, u, n, q, p), Without(r, {"LOGIN"})
    PROVE  CalledAt(pl, u, n, q \o r, p)
<1>1. Without(q, {"LOGIN"}) => Without(q \o r, {"LOGIN"})
  BY WithoutAdds
<1>2. Sole(q, "LOGIN", u) => Sole(q \o r, "LOGIN", u)
  BY SoleAdds
<1> DEFINE s == q \o r
<1> HIDE DEF s
<1>3. CalledAt(pl, u, n, s, p)
  BY <1>1, <1>2 DEF CalledAt, s
<1> QED BY <1>3 DEF s

LEMMA CalledTaken ==
    ASSUME NEW pl, NEW u, NEW n, NEW q \in Seq(Requests), q # <<>>, NEW p,
           CalledAt(pl, u, n, q, p), Head(q).action # "LOGIN"
    PROVE  CalledAt(pl, u, n, Tail(q), p)
<1>1. Without(q, {"LOGIN"}) => Without(Tail(q), {"LOGIN"})
  BY WithoutTail
<1>2. Sole(q, "LOGIN", u) => Sole(Tail(q), "LOGIN", u)
  BY SoleTail
<1> QED BY <1>1, <1>2 DEF CalledAt

LEMMA CalledAnswered ==
    ASSUME NEW pl \in Places, NEW u, NEW n, NEW q \in Seq(Requests), q # <<>>, NEW n2,
           NEW p \in Seq(Answers), NEW r \in Seq(Answers),
           CalledAt(pl, u, n, q, p), Head(q).action = "LOGIN", Once(r, LogAnswers),
           \A j \in DOMAIN r : r[j].action = "LOGN:S" => n2 = Head(q).data
    PROVE  CalledAt(pl, u, n2, Tail(q), p \o r)
<1> DEFINE s == p \o r
           k == Len(p)
<1>1. ~Without(q, {"LOGIN"})
  BY WithoutTail
<1>2. pl = "logging" /\ Sole(q, "LOGIN", u) /\ Without(p, LogAnswers)
  BY <1>1 DEF CalledAt, Places
<1>3. Head(q).data = u /\ Without(Tail(q), {"LOGIN"})
  BY <1>2, SoleTail
<1>4. Once(s, LogAnswers)
  BY <1>2, OnceAdds
<1>5. /\ DOMAIN p = 1 .. k /\ DOMAIN r = 1 .. Len(r) /\ k \in Nat /\ Len(r) \in Nat
      /\ DOMAIN s = 1 .. k + Len(r)
      /\ \A j \in 1 .. k : s[j] = p[j]
      /\ \A j \in 1 .. Len(r) : s[k + j] = r[j]
  BY AddFacts
<1> HIDE DEF s, k
<1>6. ASSUME NEW j \in DOMAIN s, s[j].action = "LOGN:S" PROVE n2 = u
  <2>1. CASE j <= k
    <3>1. p[j].action \in LogAnswers /\ j \in DOMAIN p
      BY <1>5, <1>6, <2>1 DEF LogAnswers
    <3> QED BY <3>1, <1>2 DEF Without
  <2>2. CASE j > k
    <3>1. j - k \in DOMAIN r /\ k + (j - k) = j
      BY <1>5, <2>2
    <3> QED BY <3>1, <1>3, <1>5, <1>6
  <2> QED BY <2>1, <2>2, <1>5
<1>7. CalledAt(pl, u, n2, Tail(q), s)
  BY <1>2, <1>3, <1>4, <1>6 DEF CalledAt
<1> QED BY <1>7 DEF s

LEMMA CalledLogsIn ==
    ASSUME NEW u \in UserNames \cup {NoName}, NEW u0, NEW n, NEW q \in Seq(Requests), NEW p,
           CalledAt("asking", u0, n, q, p)
    PROVE  CalledAt("logging", u, n, q \o <<Request("LOGIN", u)>>, p)
<1> DEFINE m == Request("LOGIN", u)
<1>1. m \in Requests /\ m.action = "LOGIN" /\ m.data = u
  BY RequestType DEF Request, AllNames
<1>2. Without(q, {"LOGIN"}) /\ Without(p, LogAnswers)
  BY DEF CalledAt
<1> DEFINE s == q \o <<m>>
<1> HIDE DEF m
<1>3. Sole(s, "LOGIN", u)
  <2>1. Sole(s, m.action, m.data)
    BY <1>1, <1>2, SoleLast
  <2> QED BY <1>1, <2>1
<1> HIDE DEF s
<1>4. CalledAt("logging", u, n, s, p)
  BY <1>2, <1>3 DEF CalledAt
<1> QED BY <1>4 DEF s, m

LEMMA CalledLogged ==
    ASSUME NEW u, NEW n, NEW q, NEW p \in Seq(Answers), p # <<>>,
           CalledAt("logging", u, n, q, p), Head(p).action \in LogAnswers
    PROVE  /\ CalledAt("asking", u, n, q, Tail(p))
           /\ Head(p).action = "LOGN:S" => CalledAt("loading", u, n, q, Tail(p))
<1>1. ~Without(p, LogAnswers)
  BY WithoutTail
<1>2. /\ Without(q, {"LOGIN"}) /\ Once(p, LogAnswers)
      /\ \A j \in DOMAIN p : p[j].action = "LOGN:S" => n = u
  BY <1>1 DEF CalledAt
<1>3. Without(Tail(p), LogAnswers)
  BY <1>2, OnceTail
<1>4. 1 \in DOMAIN p /\ Head(p) = p[1]
  BY HeadOrTail
<1> QED BY <1>2, <1>3, <1>4 DEF CalledAt

-----------------------------------------------------------------------------
\* What a command sends, and where the client believes itself to be after it.
LEMMA CommandSends ==
    ASSUME TypeInv, NEW c \in Clients, Command(c)
    PROVE  /\ UNCHANGED <<roomVars, at, username, channels_loaded, confused, told, down>>
           /\ at[c] = "chat"
           /\ \A d \in Clients : d # c => /\ in_channel'[d] = in_channel[d]
                                          /\ current_channel'[d] = current_channel[d]
           /\ \E r \in Seq(Requests) :
                 /\ up' = [up EXCEPT ![c] = @ \o r] /\ Without(r, {"LOGIN"})
                 /\ in_channel'[c] =>
                       \/ /\ in_channel[c] /\ current_channel'[c] = current_channel[c]
                          /\ Without(r, Moving)
                       \/ \A here, no : Meant(here, no, up[c] \o r, Len(up[c] \o r) + 1,
                                              current_channel'[c])
<1> USE DEF TypeInv
<1>1. UNCHANGED <<roomVars, at, username, channels_loaded, confused, told, down>> /\ at[c] = "chat"
  BY DEF Command, JoinCommand, CreateCommand, LeaveCommand, ChannelsCommand, Line,
         FriendCommand, Types
<1>2. \A d \in Clients : d # c => /\ in_channel'[d] = in_channel[d]
                                  /\ current_channel'[d] = current_channel[d]
  BY DEF Command, JoinCommand, CreateCommand, LeaveCommand, ChannelsCommand, Line,
         FriendCommand, EnterCommand, ClientType
<1>3. up[c] \in Seq(Requests) /\ up \in [Clients -> Seq(Requests)]
  BY DEF WireType
<1> DEFINE Sent(r) == /\ up' = [up EXCEPT ![c] = @ \o r] /\ Without(r, {"LOGIN"})
                      /\ in_channel'[c] =>
                           \/ /\ in_channel[c] /\ current_channel'[c] = current_channel[c]
                              /\ Without(r, Moving)
                           \/ \A here, no : Meant(here, no, up[c] \o r, Len(up[c] \o r) + 1,
                                                  current_channel'[c])
<1>4. ASSUME NEW a \in {"ONLINE", "SEND", "FRIEND"}, NEW d \in AllNames,
             Sends(c, <<Request(a, d)>>), UNCHANGED <<in_channel, current_channel>>
      PROVE  \E r \in Seq(Requests) : Sent(r)
  <2> DEFINE r == <<Request(a, d)>>
  <2>1. r \in Seq(Requests) /\ DOMAIN r = {1} /\ r[1].action = a
    BY RequestType DEF Request
  <2>2. up' = [up EXCEPT ![c] = @ \o r]
    BY <1>4 DEF Sends
  <2> HIDE DEF r
  <2>3. a \notin {"LOGIN"} /\ a \notin Moving
    BY DEF Moving, Entering
  <2>4. Without(r, {"LOGIN"}) /\ Without(r, Moving)
    BY <2>1, <2>3 DEF Without
  <2>5. Sent(r)
    BY <1>4, <2>2, <2>4
  <2> QED BY <2>1, <2>5
<1>5. ASSUME NEW n \in RoomNames, JoinCommand(c, n) \/ CreateCommand(c, n)
      PROVE  \E r \in Seq(Requests) : Sent(r)
  <2>1. PICK a \in Entering : EnterCommand(c, a, n)
    BY <1>5 DEF JoinCommand, CreateCommand, Entering
  <2> DEFINE r == <<Request("ONLINE", NoName), Request(a, n)>>
  <2>2. r \in Seq(Requests)
    BY TwoRequests DEF Entering, AllNames
  <2>3. /\ DOMAIN r = {1, 2} /\ Len(r) = 2
        /\ r[1].action = "ONLINE" /\ r[2].action = a /\ r[2].data = n
    <3>1. DOMAIN r = {1, 2} /\ Len(r) = 2 /\ r[1] = Request("ONLINE", NoName) /\ r[2] = Request(a, n)
      BY TwoLong
    <3> QED BY <3>1 DEF Request
  <2>4. up' = [up EXCEPT ![c] = @ \o r] /\ current_channel'[c] = n
    BY <2>1 DEF EnterCommand, Sends, ClientType
  <2> HIDE DEF r
  <2>5. Without(r, {"LOGIN"})
    BY <2>3 DEF Without, Entering
  <2> DEFINE s == up[c] \o r
             k == Len(up[c]) + 2
  <2>6. /\ Len(up[c]) \in Nat /\ DOMAIN s = 1 .. k /\ Len(s) = k /\ s[k] = r[2]
    BY <1>3, <2>2, <2>3, TwoAdded
  <2>7. k \in DOMAIN s /\ k < Len(s) + 1 /\ \A m \in DOMAIN s : ~(k < m /\ m < Len(s) + 1)
    BY <2>6
  <2> HIDE DEF s, k
  <2>8. \A here, no : Meant(here, no, s, Len(s) + 1, n)
    BY <2>3, <2>6, <2>7 DEF Meant
  <2>9. Sent(r)
    BY <2>4, <2>5, <2>8 DEF s
  <2> QED BY <2>2, <2>9
<1>6. ASSUME LeaveCommand(c) PROVE \E r \in Seq(Requests) : Sent(r)
  <2> DEFINE r == LeaveRequests(c)
  <2>1. r \in Seq(Requests) /\ Without(r, {"LOGIN"})
    <3>1. CASE r = <<Request("LEAVE", NoName), Request("ONLINE", NoName)>>
      <4>1. r \in Seq(Requests)
        BY <3>1, TwoRequests DEF Entering, AllNames
      <4>2. DOMAIN r = {1, 2} /\ r[1] = Request("LEAVE", NoName) /\ r[2] = Request("ONLINE", NoName)
        BY <3>1, TwoLong
      <4> HIDE DEF r
      <4> QED BY <4>1, <4>2 DEF Request, Without
    <3>2. CASE r = <<Request("ONLINE", NoName)>>
      <4>1. r \in Seq(Requests) /\ DOMAIN r = {1} /\ r[1].action = "ONLINE"
        BY <3>2, RequestType DEF Request, AllNames
      <4> HIDE DEF r
      <4> QED BY <4>1 DEF Without
    <3> QED BY <3>1, <3>2 DEF LeaveRequests
  <2>2. up' = [up EXCEPT ![c] = @ \o r] /\ in_channel'[c] = FALSE
    BY <1>6 DEF LeaveCommand, Sends, ClientType
  <2> HIDE DEF r
  <2>3. Sent(r)
    BY <2>1, <2>2
  <2> QED BY <2>1, <2>3
<1>7. ASSUME ChannelsCommand(c) PROVE \E r \in Seq(Requests) : Sent(r)
  <2>1. Sends(c, <<Request("ONLINE", NoName)>>) /\ UNCHANGED <<in_channel, current_channel>>
    BY <1>7 DEF ChannelsCommand
  <2> HIDE DEF Sent
  <2> QED BY <1>4, <2>1 DEF AllNames
<1>8. ASSUME Line(c) \/ \E u \in UserNames : FriendCommand(c, u)
      PROVE  \E r \in Seq(Requests) : Sent(r)
  <2>1. CASE in_channel[c]
    <3>1. current_channel[c] \in AllNames
      BY <2>1 DEF ClientType, AllNames
    <3>2. /\ UNCHANGED <<in_channel, current_channel>>
          /\ \/ Sends(c, <<Request("SEND", current_channel[c])>>)
             \/ \E u \in UserNames : Sends(c, <<Request("FRIEND", u)>>)
      BY <1>8, <2>1 DEF Line, FriendCommand
    <3> HIDE DEF Sent
    <3> QED BY <1>4, <3>1, <3>2 DEF AllNames
  <2>2. CASE ~in_channel[c]
    <3>1. UNCHANGED <<up, in_channel, current_channel>>
      BY <1>8, <2>2 DEF Line, FriendCommand
    <3>2. <<>> \in Seq(Requests) /\ up[c] \o <<>> = up[c] /\ DOMAIN <<>> = {}
      BY <1>3, ConcatEmptySeq
    <3>3. up' = [up EXCEPT ![c] = @ \o <<>>] /\ Without(<<>>, {"LOGIN"}) /\ ~in_channel'[c]
      BY <1>3, <2>2, <3>1, <3>2 DEF Without
    <3> QED BY <3>2, <3>3
  <2> QED BY <2>1, <2>2
<1> HIDE DEF Sent
<1>9. \E r \in Seq(Requests) : Sent(r)
  BY <1>5, <1>6, <1>7, <1>8 DEF Command
<1> QED BY <1>1, <1>2, <1>9 DEF Sent

-----------------------------------------------------------------------------
(***************************************************************************)
(* The steps, as a client sees them: nothing of it moves, somebody else    *)
(* is served, it is served, something is written to it.                    *)
(***************************************************************************)
Still(c) ==
    /\ at'[c] = at[c] /\ username'[c] = username[c] /\ confused'[c] = confused[c]
    /\ in_channel'[c] = in_channel[c] /\ current_channel'[c] = current_channel[c]
    /\ channels_loaded'[c] = channels_loaded[c] /\ told'[c] = told[c]

LEMMA ServeStill ==
    ASSUME NEW c \in Clients, NEW e, Serve(e)
    PROVE  Still(c) /\ down' = down
BY DEF Serve, TakesLogin, TakesStart, TakesJoin, TakesLeave, TakesOnline, TakesSend,
       TakesFriend, Takes, clientVars, Still

LEMMA PipeHears ==
    ASSUME TypeInv, NEW c \in Clients, NEW e \in Clients, NameType, c # e, Serve(e)
    PROVE  /\ \E r \in Seq(Answers) : /\ Pipe(c)' = Pipe(c) \o r
                                      /\ Without(r, LogAnswers) /\ Without(r, Entries)
           /\ Still(c) /\ up'[c] = up[c] /\ name'[c] = name[c] /\ inside'[c] = inside[c]
<1>1. /\ Grown(inbox, inbox', c, {"SYS", "SEND"})
      /\ name'[c] = name[c] /\ inside'[c] = inside[c] /\ up'[c] = up[c] /\ down' = down
  BY ServeOthers
<1>2. PICK r \in Seq(Answers) : /\ inbox'[c] = inbox[c] \o r
                                /\ \A B : B \cap {"SYS", "SEND"} = {} => Without(r, B)
  BY <1>1, GrownReplies
<1>3. Without(r, LogAnswers) /\ Without(r, Entries)
  <2>1. LogAnswers \cap {"SYS", "SEND"} = {} /\ Entries \cap {"SYS", "SEND"} = {}
    BY DEF LogAnswers, Entries
  <2> QED BY <1>2, <2>1
<1>4. down[c] \in Seq(Answers) /\ inbox[c] \in Seq(Answers)
  BY DEF TypeInv, WireType, RoomType, Boxes
<1> DEFINE d == down[c]
           b == inbox[c]
<1> HIDE DEF d, b
<1>5. d \o (b \o r) = (d \o b) \o r
  BY <1>4, PipeAdds DEF d, b
<1>6. Pipe(c)' = d \o (b \o r)
  BY <1>1, <1>2 DEF Pipe, d, b
<1>7. Pipe(c) = d \o b
  BY DEF Pipe, d, b
<1>8. Pipe(c)' = Pipe(c) \o r
  BY <1>5, <1>6, <1>7
<1> QED BY <1>1, <1>3, <1>8, ServeStill

LEMMA PipeReplies ==
    ASSUME TypeInv, NameType, NEW c \in Clients, Serve(c)
    PROVE  /\ \E r \in Seq(Answers) : Pipe(c)' = Pipe(c) \o r /\ Reply(c, Head(up[c]), r)
           /\ Still(c)
<1>1. PICK r \in Seq(Answers) : inbox'[c] = inbox[c] \o r /\ Reply(c, Head(up[c]), r)
  BY ServeReplies
<1>2. down' = down
  BY ServeReplies
<1>4. down[c] \in Seq(Answers) /\ inbox[c] \in Seq(Answers)
  BY DEF TypeInv, WireType, RoomType, Boxes
<1> DEFINE d == down[c]
           b == inbox[c]
<1> HIDE DEF d, b
<1>5. d \o (b \o r) = (d \o b) \o r
  BY <1>4, PipeAdds DEF d, b
<1>6. Pipe(c)' = d \o (b \o r)
  BY <1>1, <1>2 DEF Pipe, d, b
<1>7. Pipe(c) = d \o b
  BY DEF Pipe, d, b
<1>8. Pipe(c)' = Pipe(c) \o r
  BY <1>5, <1>6, <1>7
<1> QED BY <1>1, <1>8, ServeStill

LEMMA PipeWritten ==
    ASSUME TypeInv, NEW c \in Clients, NEW e \in Clients, Write(e)
    PROVE  /\ Pipe(c)' = Pipe(c)
           /\ Still(c) /\ up' = up /\ name' = name /\ inside' = inside
<1>1. Still(c) /\ up' = up /\ name' = name /\ inside' = inside
  BY DEF Write, Delivers, clientVars, Still
<1>2. /\ down[c] \in Seq(Answers) /\ inbox[c] \in Seq(Answers)
      /\ inbox' = [inbox EXCEPT ![e] = <<>>] /\ down' = [down EXCEPT ![e] = @ \o inbox[e]]
      /\ c \in DOMAIN inbox /\ c \in DOMAIN down
  BY DEF TypeInv, WireType, RoomType, Boxes, Write, Delivers
<1>3. CASE c # e
  BY <1>1, <1>2, <1>3 DEF Pipe
<1>4. CASE c = e
  <2>1. down[c] \o inbox[c] \in Seq(Answers)
    BY <1>2, ConcatProperties
  <2> DEFINE q == down[c] \o inbox[c]
  <2>2. down'[c] = q /\ inbox'[c] = <<>>
    BY <1>2, <1>4
  <2> HIDE DEF q
  <2>3. q \o <<>> = q
    BY <2>1, ConcatEmptySeq DEF q
  <2>4. Pipe(c)' = q \o <<>>
    BY <2>2 DEF Pipe
  <2>5. Pipe(c) = q
    BY DEF Pipe, q
  <2>6. Pipe(c)' = Pipe(c)
    BY <2>3, <2>4, <2>5
  <2> QED BY <1>1, <2>6
<1> QED BY <1>3, <1>4

\* The client takes the first message that is there.
LEMMA PipeRead ==
    ASSUME TypeInv, NEW c \in Clients, down[c] # <<>>, down' = [down EXCEPT ![c] = Tail(@)],
           inbox' = inbox
    PROVE  /\ Pipe(c) # <<>> /\ Head(Pipe(c)) = Head(down[c])
           /\ Pipe(c)' = Tail(Pipe(c))
           /\ \A d \in Clients : d # c => Pipe(d)' = Pipe(d)
<1>1. /\ down[c] \in Seq(Answers) /\ inbox[c] \in Seq(Answers)
      /\ down \in [Clients -> Seq(Answers)]
  BY DEF TypeInv, WireType, RoomType, Boxes
<1>2. Pipe(c) # <<>> /\ Head(Pipe(c)) = Head(down[c]) /\ Tail(Pipe(c)) = Tail(down[c]) \o inbox[c]
  BY <1>1, PipeTail DEF Pipe
<1>3. down'[c] = Tail(down[c]) /\ \A d \in Clients : d # c => down'[d] = down[d]
  BY <1>1
<1>4. Pipe(c)' = Tail(down[c]) \o inbox[c]
  BY <1>3 DEF Pipe
<1>5. \A d \in Clients : d # c => Pipe(d)' = Pipe(d)
  BY <1>3 DEF Pipe
<1> QED BY <1>2, <1>4, <1>5

LEMMA CalledSame ==
    ASSUME NEW c \in Clients, Called(c), Still(c), up'[c] = up[c], name'[c] = name[c],
           Pipe(c)' = Pipe(c)
    PROVE  Called(c)'
BY DEF Called, Still

LEMMA CalledStep ==
    ASSUME TypeInv, NameType, \A c \in Clients : Called(c), [Next]_vars, NEW c \in Clients
    PROVE  Called(c)'
<1>0. /\ up[c] \in Seq(Requests) /\ Pipe(c) \in Seq(Answers) /\ Called(c) /\ at[c] \in Places
      /\ \A e \in Clients : confused[e] \in BOOLEAN
  BY PipeType DEF TypeInv, WireType, ClientType
<1>1. ASSUME NEW e \in Clients, Serve(e), e # c PROVE Called(c)'
  <2>1. PICK r \in Seq(Answers) : /\ Pipe(c)' = Pipe(c) \o r /\ Without(r, LogAnswers)
    BY <1>1, PipeHears
  <2>2. Still(c) /\ up'[c] = up[c] /\ name'[c] = name[c]
    BY <1>1, PipeHears
  <2>3. CalledAt(at[c], username[c], name[c], up[c], Pipe(c)) =>
           CalledAt(at[c], username[c], name[c], up[c], Pipe(c) \o r)
    BY <1>0, <2>1, CalledHears
  <2> DEFINE s == Pipe(c) \o r
  <2> HIDE DEF s
  <2> QED BY <1>0, <2>1, <2>2, <2>3 DEF Called, Still, s
<1>2. CASE Serve(c)
  <2>1. PICK r \in Seq(Answers) : Pipe(c)' = Pipe(c) \o r /\ Reply(c, Head(up[c]), r)
    BY <1>2, PipeReplies
  <2>2. Still(c) /\ up[c] # <<>> /\ up'[c] = Tail(up[c])
    BY <1>2, PipeReplies, ServeTakes DEF TypeInv, WireType
  <2> DEFINE s == Pipe(c) \o r
             t == Tail(up[c])
  <2>3. ASSUME CalledAt(at[c], username[c], name[c], up[c], Pipe(c))
        PROVE  CalledAt(at[c], username[c], name'[c], t, s)
    <3>1. CASE Head(up[c]).action = "LOGIN"
      <4>1. /\ Once(r, LogAnswers)
            /\ \A j \in DOMAIN r : r[j].action = "LOGN:S" => name'[c] = Head(up[c]).data
        BY <2>1, <3>1 DEF Reply
      <4> QED BY <1>0, <2>2, <2>3, <3>1, <4>1, CalledAnswered
    <3>2. CASE Head(up[c]).action # "LOGIN"
      <4>1. Without(r, LogAnswers) /\ name'[c] = name[c]
        BY <2>1, <3>2 DEF Reply
      <4>2. CalledAt(at[c], username[c], name[c], t, Pipe(c))
        BY <1>0, <2>2, <2>3, <3>2, CalledTaken
      <4>3. CalledAt(at[c], username[c], name[c], t, s)
        BY <1>0, <4>1, <4>2, CalledHears
      <4> HIDE DEF s, t
      <4> QED BY <4>1, <4>3
    <3> QED BY <3>1, <3>2
  <2> HIDE DEF s, t
  <2> QED BY <1>0, <2>1, <2>2, <2>3 DEF Called, Still, s, t
<1>3. ASSUME NEW e \in Clients, Write(e) PROVE Called(c)'
  BY <1>0, <1>3, PipeWritten, CalledSame
<1>4. CASE Launch \/ UNCHANGED vars
  BY <1>0, <1>4 DEF Launch, Start, vars, roomVars, clientVars, Called, Pipe
<1>5. ASSUME NEW e \in Clients, setup_socket(e) \/ render_menu(e) PROVE Called(c)'
  <2>1. UNCHANGED <<username, name, confused, up, Pipe(c)>>
    BY <1>5 DEF setup_socket, render_menu, roomVars, Pipe
  <2>2. \/ at'[c] = at[c]
        \/ at[c] = "offline" /\ at'[c] = "asking"
        \/ at[c] = "loading" /\ at'[c] = "chat"
    BY <1>5 DEF setup_socket, render_menu, TypeInv, ClientType
  <2> QED BY <1>0, <2>1, <2>2 DEF Called, CalledAt
<1>6. ASSUME NEW e \in Clients, NEW u \in UserNames \cup {NoName}, get_username(e, u)
      PROVE  Called(c)'
  <2>1. UNCHANGED <<name, confused, Pipe(c)>>
    BY <1>6 DEF get_username, roomVars, Pipe
  <2>2. CASE e # c
    <3>1. UNCHANGED <<at[c], username[c], up[c]>>
      BY <1>6, <2>2 DEF get_username, Sends, TypeInv, ClientType, WireType
    <3> QED BY <1>0, <2>1, <3>1 DEF Called
  <2>3. CASE e = c
    <3>1. /\ at[c] = "asking" /\ at'[c] = "logging" /\ username'[c] = u
          /\ up'[c] = up[c] \o <<Request("LOGIN", u)>>
      BY <1>6, <2>3 DEF get_username, Sends, TypeInv, ClientType, WireType
    <3>2. CalledAt("asking", username[c], name[c], up[c], Pipe(c)) =>
             CalledAt("logging", u, name[c], up[c] \o <<Request("LOGIN", u)>>, Pipe(c))
      BY <1>0, CalledLogsIn
    <3> DEFINE s == up[c] \o <<Request("LOGIN", u)>>
    <3> HIDE DEF s
    <3> QED BY <1>0, <2>1, <3>1, <3>2 DEF Called, s
  <2> QED BY <2>2, <2>3
<1>7. ASSUME NEW e \in Clients, handle_login(e) PROVE Called(c)'
  <2>1. /\ down[e] # <<>> /\ down' = [down EXCEPT ![e] = Tail(@)] /\ inbox' = inbox
        /\ name' = name /\ username' = username
    BY <1>7 DEF handle_login, roomVars
  <2>2. CASE e # c
    <3>1. UNCHANGED <<at[c], up[c], confused[c]>>
      BY <1>7, <2>2 DEF handle_login, Sends, TypeInv, ClientType, WireType
    <3>2. Pipe(c)' = Pipe(c)
      BY <2>1, <2>2, PipeRead
    <3> QED BY <1>0, <2>1, <3>1, <3>2 DEF Called
  <2>3. CASE e = c
    <3>1. Pipe(c) # <<>> /\ Head(Pipe(c)) = Head(down[c]) /\ Pipe(c)' = Tail(Pipe(c))
      BY <2>1, <2>3, PipeRead
    <3>2. /\ at[c] = "logging"
          /\ confused'[c] = (confused[c] \/ Head(down[c]).action \notin LogAnswers)
      BY <1>7, <2>3 DEF handle_login, TypeInv, ClientType, LogAnswers
    <3>3. \/ at'[c] = "asking" /\ up'[c] = up[c]
          \/ /\ at'[c] = "loading" /\ Head(down[c]).action = "LOGN:S"
             /\ up'[c] = up[c] \o <<Request("ONLINE", NoName)>>
      BY <1>7, <2>3 DEF handle_login, Accepted, Sends, TypeInv, ClientType, WireType
    <3> SUFFICES ASSUME ~confused[c], Head(down[c]).action \in LogAnswers
                 PROVE  CalledAt(at[c], username[c], name[c], up[c], Pipe(c))'
      BY <3>2 DEF Called
    <3>4. CalledAt("logging", username[c], name[c], up[c], Pipe(c))
      BY <1>0, <3>2 DEF Called
    <3>5. /\ CalledAt("asking", username[c], name[c], up[c], Tail(Pipe(c)))
          /\ Head(down[c]).action = "LOGN:S" =>
                CalledAt("loading", username[c], name[c], up[c], Tail(Pipe(c)))
      BY <1>0, <3>1, <3>4, CalledLogged
    <3> DEFINE r == <<Request("ONLINE", NoName)>>
    <3>6. r \in Seq(Requests) /\ Without(r, {"LOGIN"})
      <4>1. r \in Seq(Requests) /\ DOMAIN r = {1} /\ r[1].action = "ONLINE"
        BY RequestType DEF Request, AllNames
      <4> HIDE DEF r
      <4> QED BY <4>1 DEF Without
    <3> HIDE DEF r
    <3>7. Head(down[c]).action = "LOGN:S" =>
             CalledAt("loading", username[c], name[c], up[c] \o r, Tail(Pipe(c)))
      BY <1>0, <3>5, <3>6, CalledAsks
    <3> DEFINE s == up[c] \o r
    <3> HIDE DEF s
    <3> QED BY <2>1, <3>1, <3>3, <3>5, <3>7 DEF s, r
  <2> QED BY <2>2, <2>3
<1>8. ASSUME NEW e \in Clients, handle_server_message(e) PROVE Called(c)'
  <2>1. /\ down[e] # <<>> /\ down' = [down EXCEPT ![e] = Tail(@)] /\ inbox' = inbox
        /\ UNCHANGED <<name, username, at, up, confused>> /\ at[e] \in {"loading", "chat"}
    BY <1>8 DEF handle_server_message, roomVars
  <2>2. CASE e # c
    <3>1. Pipe(c)' = Pipe(c)
      BY <2>1, <2>2, PipeRead
    <3> QED BY <1>0, <2>1, <3>1 DEF Called
  <2>3. CASE e = c
    BY <1>0, <2>1, <2>3 DEF Called, CalledAt
  <2> QED BY <2>2, <2>3
<1>9. ASSUME NEW e \in Clients, Command(e) PROVE Called(c)'
  <2>1. UNCHANGED <<name, username, at, confused, Pipe(c)>>
    BY <1>9, CommandSends DEF roomVars, Pipe
  <2>2. PICK r \in Seq(Requests) : up' = [up EXCEPT ![e] = @ \o r] /\ Without(r, {"LOGIN"})
    BY <1>9, CommandSends
  <2>3. CASE e # c
    <3>1. up'[c] = up[c]
      BY <2>2, <2>3 DEF TypeInv, WireType
    <3> QED BY <1>0, <2>1, <3>1 DEF Called
  <2>4. CASE e = c
    <3>1. up'[c] = up[c] \o r
      BY <2>2, <2>4 DEF TypeInv, WireType
    <3>2. CalledAt(at[c], username[c], name[c], up[c], Pipe(c)) =>
             CalledAt(at[c], username[c], name[c], up[c] \o r, Pipe(c))
      BY <1>0, <2>2, CalledAsks
    <3> DEFINE s == up[c] \o r
    <3> HIDE DEF s
    <3> QED BY <1>0, <2>1, <3>1, <3>2 DEF Called, s
  <2> QED BY <2>3, <2>4
<1> QED BY <1>1, <1>2, <1>3, <1>4, <1>5, <1>6, <1>7, <1>8, <1>9 DEF Next, Programs, Users

LEMMA NameStep == ASSUME TypeInv, NameType, [Next]_vars PROVE NameType'
<1>1. ASSUME NEW e \in Clients, Serve(e) PROVE NameType'
  <2>1. up[e] \in Seq(Requests) /\ up[e] # <<>>
    BY <1>1, ServeTakes DEF TypeInv, WireType
  <2>2. Head(up[e]) \in Requests
    BY <2>1, TailFacts
  <2>3. Asked(e) \in AllNames
    BY <2>2 DEF Asked, Requests
  <2>4. name' = name \/ name' = [name EXCEPT ![e] = Asked(e)]
    BY <1>1 DEF Serve, TakesLogin, TakesStart, TakesJoin, TakesLeave, TakesOnline, TakesSend,
                TakesFriend, Tells, LogsIn, Creates, Enters, Leaves, Says, Befriends, roomVars
  <2> QED BY <2>3, <2>4 DEF NameType
<1>2. ASSUME NEW e \in Clients,
             \/ Write(e) \/ setup_socket(e) \/ handle_login(e) \/ render_menu(e)
             \/ handle_server_message(e) \/ \E u \in UserNames \cup {NoName} : get_username(e, u)
      PROVE  NameType'
  BY <1>2 DEF Write, Delivers, setup_socket, handle_login, render_menu, handle_server_message,
              get_username, roomVars, NameType
<1>3. ASSUME NEW e \in Clients, Command(e) PROVE NameType'
  BY <1>3, CommandSends DEF roomVars, NameType
<1>4. CASE Launch \/ UNCHANGED vars
  BY <1>4 DEF Launch, Start, vars, roomVars, NameType
<1> QED BY <1>1, <1>2, <1>3, <1>4 DEF Next, Programs, Users

LEMMA OneStep == ASSUME TypeInv, AtMostOne, [Next]_vars PROVE AtMostOne'
<1>1. Rooming
  BY RoomingStep
<1>2. \/ inside' = inside
      \/ \E e \in Clients : \/ inside' = [inside EXCEPT ![e] = {}]
                            \/ \E n : inside' = [inside EXCEPT ![e] = {n}]
  BY <1>1 DEF Rooming, roomVars, Start, Tells, LogsIn, Creates, Enters, Befriends, Leaves, Says,
              Delivers
<1>3. inside \in [Clients -> SUBSET RoomNames]
  BY DEF TypeInv, RoomType
<1> QED BY <1>2, <1>3 DEF AtMostOne

LEMMA MeantSame ==
    ASSUME NEW here, NEW no, NEW no2, NEW q, NEW j, NEW d, Meant(here, no, q, j, d), no <=> no2
    PROVE  Meant(here, no2, q, j, d)
BY DEF Meant

\* A client that nothing but news of others reaches.
LEMMA PlacedHears ==
    ASSUME TypeInv, NEW c \in Clients, Placed(c), Still(c), up'[c] = up[c], inside'[c] = inside[c],
           NEW r \in Seq(Answers), Pipe(c)' = Pipe(c) \o r, Without(r, Entries)
    PROVE  Placed(c)'
<1> DEFINE s == Pipe(c) \o r
<1>1. Denied(s, told[c]) <=> Denied(Pipe(c), told[c])
  BY PipeType, DeniedAdds
<1> HIDE DEF s
<1>2. Pipe(c)' = s
  BY DEF s
<1>3. Denied(Pipe(c), told[c])' <=> Denied(Pipe(c), told[c])
  BY <1>1, <1>2 DEF Still
<1> DEFINE no == Denied(Pipe(c), told[c])
           no2 == Denied(Pipe(c), told[c])'
<1> HIDE DEF no, no2
<1>4. \A q, j, d : Meant(inside[c], no, q, j, d) => Meant(inside[c], no2, q, j, d)
  BY <1>3, MeantSame DEF no, no2
<1> QED BY <1>4 DEF Placed, Still, no, no2

LEMMA PlacedSame ==
    ASSUME NEW c \in Clients, Placed(c), Still(c), up'[c] = up[c], inside'[c] = inside[c],
           Pipe(c)' = Pipe(c)
    PROVE  Placed(c)'
BY DEF Placed, Still

LEMMA PlacedReplies ==
    ASSUME TypeInv, NameType, NEW c \in Clients, Placed(c), Serve(c),
           Head(up[c]).action \in Entering => Len(inbox[c]) < Capacity
    PROVE  Placed(c)'
<1> DEFINE q == up[c]
           p == Pipe(c)
           t == told[c]
           no == Denied(p, t)
           no2 == Denied(p, t)'
<1>1. PICK r \in Seq(Answers) : Pipe(c)' = Pipe(c) \o r /\ Reply(c, Head(up[c]), r)
  BY PipeReplies
<1>2. Still(c) /\ t' = t
  BY PipeReplies DEF Still
<1>3. /\ q \in Seq(Requests) /\ q # <<>> /\ q' = Tail(q) /\ p \in Seq(Answers)
  BY ServeTakes, PipeType DEF TypeInv, WireType
<1>4. Head(q).action \notin Moving => inside'[c] = inside[c]
  BY ServeTakes
<1> HIDE DEF q, p, t
<1>5. Head(q).action \notin Moving => (no2 <=> no)
  <2> SUFFICES ASSUME Head(q).action \notin Moving PROVE no2 <=> no
    OBVIOUS
  <2>1. Without(r, Entries)
    BY <1>1 DEF Reply, Moving, q
  <2>2. Denied(p \o r, t) <=> Denied(p, t)
    BY <1>3, <2>1, DeniedAdds
  <2> DEFINE s == p \o r
  <2> HIDE DEF s
  <2>3. p' = s
    BY <1>1 DEF s, p
  <2> QED BY <1>2, <2>2, <2>3 DEF s
<1>6. Head(q).action \in Entering => inside'[c] = {Head(q).data} \/ no2
  <2> SUFFICES ASSUME NEW x \in Answers, r = <<x>>, x.action \in Denials PROVE no2
    BY <1>1 DEF Reply, q
  <2>1. Denied(p \o <<x>>, t)
    BY <1>3, DeniedLast
  <2> DEFINE s == p \o <<x>>
  <2> HIDE DEF s
  <2>2. p' = s
    BY <1>1 DEF s, p
  <2> QED BY <1>2, <2>1, <2>2 DEF s
<1> HIDE DEF no, no2
<1>7. /\ Len(q) \in Nat \ {0} /\ Len(Tail(q)) = Len(q) - 1
      /\ Len(q) + 1 \in 2 .. Len(q) + 1 /\ Len(q) + 1 - 1 = Len(Tail(q)) + 1
  <2>1. Len(q) \in Nat \ {0} /\ Len(Tail(q)) = Len(q) - 1
    BY <1>3, TailFacts
  <2> QED BY <2>1
<1>8. ASSUME NEW d, Meant(inside[c], no, q, Len(q) + 1, d)
      PROVE  Meant(inside'[c], no2, Tail(q), Len(Tail(q)) + 1, d)
  <2>1. Meant(inside'[c], no2, Tail(q), Len(q) + 1 - 1, d)
    <3> DEFINE k == Len(q) + 1
               here2 == inside'[c]
    <3>1. k \in 2 .. Len(q) + 1 /\ Meant(inside[c], no, q, k, d)
      BY <1>7, <1>8
    <3>2. /\ Head(q).action \in Entering => here2 = {Head(q).data} \/ no2
          /\ Head(q).action \notin Moving => here2 = inside[c] /\ (no2 <=> no)
      BY <1>4, <1>5, <1>6
    <3> HIDE DEF k, here2
    <3>3. Meant(here2, no2, Tail(q), k - 1, d)
      BY <1>3, <3>1, <3>2, MeantTaken
    <3> QED BY <3>3 DEF k, here2
  <2> QED BY <1>7, <2>1
<1> QED BY <1>2, <1>3, <1>8 DEF Placed, Still, no, no2, q, p, t

LEMMA PlacedStep ==
    ASSUME TypeInv, NameType, NEW c \in Clients, Placed(c), [Next]_vars, AnswersFit
    PROVE  Placed(c)'
<1>0. /\ up[c] \in Seq(Requests) /\ Pipe(c) \in Seq(Answers) /\ at[c] \in Places
      /\ \A e \in Clients : in_channel[e] \in BOOLEAN
  BY PipeType DEF TypeInv, WireType, ClientType
<1>1. ASSUME NEW e \in Clients, Serve(e), e # c PROVE Placed(c)'
  BY <1>1, PipeHears, PlacedHears
<1>2. CASE Serve(c)
  BY <1>2, PlacedReplies DEF AnswersFit
<1>3. ASSUME NEW e \in Clients, Write(e) PROVE Placed(c)'
  BY <1>3, PipeWritten, PlacedSame
<1>4. CASE Launch \/ UNCHANGED vars
  <2>1. /\ Still(c) /\ up'[c] = up[c] /\ inside'[c] = inside[c] /\ Pipe(c)' = Pipe(c)
    BY <1>4 DEF Launch, Start, vars, roomVars, clientVars, Still, Pipe
  <2> QED BY <2>1, PlacedSame
<1>5. ASSUME NEW e \in Clients,
             \/ setup_socket(e) \/ render_menu(e) \/ handle_login(e)
             \/ \E u \in UserNames \cup {NoName} : get_username(e, u)
      PROVE  Placed(c)'
  <2>1. UNCHANGED <<in_channel, current_channel, told, inside, inbox>>
    BY <1>5 DEF setup_socket, render_menu, handle_login, get_username, roomVars
  <2>2. CASE e # c
    <3>1. at'[c] = at[c] /\ up'[c] = up[c] /\ down'[c] = down[c]
      BY <1>5, <2>2 DEF setup_socket, render_menu, handle_login, get_username, Sends,
                        TypeInv, ClientType, WireType
    <3> QED BY <2>1, <3>1 DEF Placed, Pipe
  <2>3. CASE e = c
    <3>1. at[c] # "chat"
      BY <1>5, <2>3 DEF setup_socket, render_menu, handle_login, get_username
    <3> QED BY <2>1, <3>1 DEF Placed
  <2> QED BY <2>2, <2>3
<1>6. ASSUME NEW e \in Clients, handle_server_message(e) PROVE Placed(c)'
  <2>1. /\ down[e] # <<>> /\ down' = [down EXCEPT ![e] = Tail(@)] /\ inbox' = inbox
        /\ UNCHANGED <<at, up, inside, in_channel, current_channel>>
    BY <1>6 DEF handle_server_message, roomVars
  <2>2. CASE e # c
    <3>1. Pipe(c)' = Pipe(c) /\ told'[c] = told[c]
      BY <1>6, <2>1, <2>2, PipeRead DEF handle_server_message, TypeInv, ClientType
    <3> QED BY <2>1, <3>1 DEF Placed
  <2>3. CASE e = c
    <3> DEFINE p == Pipe(c)
               u == IF Head(p).action \in Entries THEN Head(p).action ELSE told[c]
    <3>1. p # <<>> /\ Head(p) = Head(down[c]) /\ p' = Tail(p)
      BY <2>1, <2>3, PipeRead
    <3>2. told'[c] = u
      BY <1>6, <2>3, <3>1 DEF handle_server_message, TypeInv, ClientType
    <3>3. Denied(Tail(p), u) <=> Denied(p, told[c])
      BY <1>0, <3>1, DeniedTail
    <3> HIDE DEF u
    <3> DEFINE no == Denied(p, told[c])
               no2 == Denied(p, told[c])'
    <3>4. no <=> no2
      BY <3>1, <3>2, <3>3
    <3> HIDE DEF p, no, no2
    <3>5. \A q, j, d : Meant(inside[c], no, q, j, d) => Meant(inside[c], no2, q, j, d)
      BY <3>4, MeantSame
    <3> QED BY <2>1, <3>5 DEF Placed, no, no2, p
  <2> QED BY <2>2, <2>3
<1>7. ASSUME NEW e \in Clients, Command(e) PROVE Placed(c)'
  <2>1. UNCHANGED <<at, told, inside, Pipe(c)>> /\ at[e] = "chat"
    BY <1>7, CommandSends DEF roomVars, Pipe
  <2>2. CASE e # c
    <3>1. up'[c] = up[c] /\ in_channel'[c] = in_channel[c] /\ current_channel'[c] = current_channel[c]
      BY <1>7, <2>2, CommandSends DEF TypeInv, WireType
    <3> QED BY <2>1, <3>1 DEF Placed
  <2>3. CASE e = c
    <3>1. PICK r \in Seq(Requests) :
             /\ up' = [up EXCEPT ![c] = @ \o r]
             /\ in_channel'[c] =>
                   \/ /\ in_channel[c] /\ current_channel'[c] = current_channel[c]
                      /\ Without(r, Moving)
                   \/ \A here, no : Meant(here, no, up[c] \o r, Len(up[c] \o r) + 1,
                                          current_channel'[c])
      BY <1>7, <2>3, CommandSends
    <3> DEFINE s == up[c] \o r
               no == Denied(Pipe(c), told[c])
    <3>2. up'[c] = s /\ no' = no
      BY <2>1, <3>1 DEF TypeInv, WireType
    <3>3. ASSUME in_channel'[c] PROVE Meant(inside[c], no, s, Len(s) + 1, current_channel'[c])
      <4>1. CASE \A here, x : Meant(here, x, s, Len(s) + 1, current_channel'[c])
        BY <4>1
      <4>2. CASE in_channel[c] /\ current_channel'[c] = current_channel[c] /\ Without(r, Moving)
        <5>1. Meant(inside[c], no, up[c], Len(up[c]) + 1, current_channel[c])
          BY <4>2 DEF Placed
        <5>2. \A j \in DOMAIN r : r[j].action \notin Moving
          BY <4>2 DEF Without
        <5> HIDE DEF no
        <5>3. Meant(inside[c], no, s, Len(s) + 1, current_channel[c])
          BY <1>0, <5>1, <5>2, MeantPasts
        <5> QED BY <4>2, <5>3
      <4> QED BY <3>1, <3>3, <4>1, <4>2
    <3> HIDE DEF s
    <3> QED BY <2>1, <2>3, <3>2, <3>3 DEF Placed
  <2> QED BY <2>2, <2>3
<1> QED BY <1>1, <1>2, <1>3, <1>4, <1>5, <1>6, <1>7 DEF Next, Programs, Users

LEMMA ServedStep ==
    ASSUME TypeInv, NameType, NEW c \in Clients, Served(c), [Next]_vars, AnswersFit
    PROVE  Served(c)'
<1> DEFINE ON == {"ONLINE"}
<1>0. up[c] \in Seq(Requests) /\ Pipe(c) \in Seq(Answers)
  BY PipeType DEF TypeInv, WireType
<1>1. ASSUME NEW r \in Seq(Answers), Pipe(c)' = Pipe(c) \o r
      PROVE  ~Without(Pipe(c), ON) \/ ~Without(r, ON) => ~Without(Pipe(c), ON)'
  <2>1. ~Without(Pipe(c), ON) \/ ~Without(r, ON) => ~Without(Pipe(c) \o r, ON)
    BY <1>0, WithoutAdds
  <2> DEFINE s == Pipe(c) \o r
  <2> HIDE DEF s
  <2> QED BY <1>1, <2>1 DEF s
<1>2. ASSUME NEW e \in Clients, Serve(e), e # c PROVE Served(c)'
  <2>1. PICK r \in Seq(Answers) : Pipe(c)' = Pipe(c) \o r
    BY <1>2, PipeHears
  <2>2. Still(c) /\ up'[c] = up[c]
    BY <1>2, PipeHears
  <2> QED BY <1>1, <2>1, <2>2 DEF Served, Still
<1>3. CASE Serve(c)
  <2>1. PICK r \in Seq(Answers) : Pipe(c)' = Pipe(c) \o r /\ Reply(c, Head(up[c]), r)
    BY <1>3, PipeReplies
  <2>2. /\ Still(c) /\ up[c] # <<>> /\ up'[c] = Tail(up[c])
        /\ Head(up[c]).action = "ONLINE" => Len(inbox[c]) < Capacity
    BY <1>3, PipeReplies, ServeTakes DEF TypeInv, WireType, AnswersFit
  <2>3. Head(up[c]).action = "ONLINE" => ~Without(r, ON)
    BY <2>1, <2>2 DEF Reply
  <2>4. Without(up[c], ON) <=> Head(up[c]).action \notin ON /\ Without(Tail(up[c]), ON)
    BY <1>0, <2>2, WithoutTail
  <2> QED BY <1>1, <2>1, <2>2, <2>3, <2>4 DEF Served, Still
<1>4. ASSUME NEW e \in Clients, Write(e) PROVE Served(c)'
  BY <1>4, PipeWritten DEF Served, Still
<1>5. CASE Launch \/ UNCHANGED vars
  BY <1>5 DEF Launch, Start, vars, roomVars, clientVars, Served, Pipe
<1>6. ASSUME NEW e \in Clients,
             \/ setup_socket(e) \/ render_menu(e)
             \/ \E u \in UserNames \cup {NoName} : get_username(e, u)
      PROVE  Served(c)'
  <2>1. UNCHANGED <<channels_loaded, Pipe(c)>>
    BY <1>6 DEF setup_socket, render_menu, get_username, roomVars, Pipe
  <2>2. CASE e # c
    <3>1. at'[c] = at[c] /\ up'[c] = up[c]
      BY <1>6, <2>2 DEF setup_socket, render_menu, get_username, Sends, TypeInv, ClientType, WireType
    <3> QED BY <2>1, <3>1 DEF Served
  <2>3. CASE e = c
    <3>1. \/ at'[c] \in {"asking", "logging"}
          \/ at[c] = "loading" /\ at'[c] = "chat" /\ up'[c] = up[c]
      BY <1>6, <2>3 DEF setup_socket, render_menu, get_username, TypeInv, ClientType
    <3> QED BY <2>1, <3>1 DEF Served
  <2> QED BY <2>2, <2>3
<1>7. ASSUME NEW e \in Clients, handle_login(e) PROVE Served(c)'
  <2>1. /\ down[e] # <<>> /\ down' = [down EXCEPT ![e] = Tail(@)] /\ inbox' = inbox
        /\ channels_loaded' = channels_loaded
    BY <1>7 DEF handle_login, roomVars
  <2>2. CASE e # c
    <3>1. at'[c] = at[c] /\ up'[c] = up[c] /\ Pipe(c)' = Pipe(c)
      BY <1>7, <2>1, <2>2, PipeRead DEF handle_login, Sends, TypeInv, ClientType, WireType
    <3> QED BY <2>1, <3>1 DEF Served
  <2>3. CASE e = c
    <3> DEFINE r == <<Request("ONLINE", NoName)>>
    <3>1. at'[c] = "asking" \/ (at'[c] = "loading" /\ up'[c] = up[c] \o r)
      BY <1>7, <2>3 DEF handle_login, Sends, TypeInv, ClientType, WireType
    <3>2. r \in Seq(Requests) /\ DOMAIN r = {1} /\ r[1].action = "ONLINE"
      BY RequestType DEF Request, AllNames
    <3> HIDE DEF r
    <3>3. ~Without(r, ON)
      BY <3>2 DEF Without
    <3>4. ~Without(up[c] \o r, ON)
      BY <1>0, <3>2, <3>3, WithoutAdds
    <3> DEFINE s == up[c] \o r
    <3> HIDE DEF s
    <3>5. at'[c] = "asking" \/ ~Without(up'[c], ON)
      BY <3>1, <3>4 DEF s
    <3> QED BY <3>1, <3>5 DEF Served
  <2> QED BY <2>2, <2>3
<1>8. ASSUME NEW e \in Clients, handle_server_message(e) PROVE Served(c)'
  <2>1. /\ down[e] # <<>> /\ down' = [down EXCEPT ![e] = Tail(@)] /\ inbox' = inbox
        /\ UNCHANGED <<at, up>>
    BY <1>8 DEF handle_server_message, roomVars
  <2>2. CASE e # c
    <3>1. Pipe(c)' = Pipe(c) /\ channels_loaded'[c] = channels_loaded[c]
      BY <1>8, <2>1, <2>2, PipeRead DEF handle_server_message, TypeInv, ClientType
    <3> QED BY <2>1, <3>1 DEF Served
  <2>3. CASE e = c
    <3>1. Pipe(c) # <<>> /\ Head(Pipe(c)) = Head(down[c]) /\ Pipe(c)' = Tail(Pipe(c))
      BY <2>1, <2>3, PipeRead
    <3>2. /\ channels_loaded[c] => channels_loaded'[c]
          /\ Head(down[c]).action = "ONLINE" => channels_loaded'[c]
      BY <1>8, <2>3 DEF handle_server_message, Ignored, IsList, TypeInv, ClientType
    <3>3. Without(Pipe(c), ON) <=> Head(Pipe(c)).action \notin ON /\ Without(Tail(Pipe(c)), ON)
      BY <1>0, <3>1, WithoutTail
    <3> QED BY <2>1, <3>1, <3>2, <3>3 DEF Served
  <2> QED BY <2>2, <2>3
<1>9. ASSUME NEW e \in Clients, Command(e) PROVE Served(c)'
  <2>1. UNCHANGED <<at, channels_loaded, Pipe(c)>>
    BY <1>9, CommandSends DEF roomVars, Pipe
  <2>2. PICK r \in Seq(Requests) : up' = [up EXCEPT ![e] = @ \o r]
    BY <1>9, CommandSends
  <2>3. up'[c] = up[c] \/ up'[c] = up[c] \o r
    BY <2>2 DEF TypeInv, WireType
  <2>4. ~Without(up[c], ON) => ~Without(up[c] \o r, ON)
    BY <1>0, WithoutAdds
  <2> DEFINE s == up[c] \o r
  <2> HIDE DEF s
  <2>5. ~Without(up[c], ON) => ~Without(up'[c], ON)
    BY <2>3, <2>4 DEF s
  <2> QED BY <2>1, <2>5 DEF Served
<1> QED BY <1>2, <1>3, <1>4, <1>5, <1>6, <1>7, <1>8, <1>9 DEF Next, Programs, Users

-----------------------------------------------------------------------------
LEMMA NothingComes ==
    ASSUME Init, NEW c \in Clients
    PROVE  /\ at[c] = "offline" /\ ~in_channel[c] /\ inside[c] = {}
           /\ DOMAIN up[c] = {} /\ DOMAIN Pipe(c) = {}
<1>1. /\ at[c] = "offline" /\ ~in_channel[c] /\ inside[c] = {}
      /\ up[c] = <<>> /\ down[c] = <<>> /\ inbox[c] = <<>>
  BY DEF Init, RoomInit, Down
<1>2. <<>> \in Seq(Answers) /\ DOMAIN <<>> = {}
  OBVIOUS
<1>3. <<>> \o <<>> = <<>>
  BY <1>2, ConcatEmptySeq
<1>4. Pipe(c) = <<>>
  BY <1>1, <1>3 DEF Pipe
<1> QED BY <1>1, <1>2, <1>4

Naming == NameType /\ AtMostOne /\ \A c \in Clients : Called(c)

LEMMA NamesHold == Spec => [](TypeInv /\ Naming)
<1>1. Init => Naming
  <2> SUFFICES ASSUME Init PROVE Naming
    OBVIOUS
  <2>1. NameType
    BY DEF Init, RoomInit, Down, NameType, AllNames
  <2>2. AtMostOne
    BY NothingComes DEF AtMostOne
  <2>3. ASSUME NEW c \in Clients PROVE Called(c)
    BY NothingComes DEF Called, CalledAt, Without
  <2> QED BY <2>1, <2>2, <2>3 DEF Naming
<1>2. TypeInv /\ Naming /\ [Next]_vars => Naming'
  BY NameStep, OneStep, CalledStep DEF Naming
<1> QED BY <1>1, <1>2, TypeInvHolds, PTL DEF Spec

(***************************************************************************)
(* Past its login a client calls itself by the name the server has for it, *)
(* however many names it tried and whatever else came between, unless a    *)
(* notice was taken for an answer to LOGIN (client.c:265-306).             *)
(***************************************************************************)
THEOREM NamesAgree == Spec => []NameAgrees
<1>1. TypeInv /\ Naming => NameAgrees
  BY DEF Naming, Called, CalledAt, NameAgrees
<1> QED BY <1>1, NamesHold, PTL

Informed == \A c \in Clients : Placed(c) /\ Served(c)

LEMMA ToldHolds == Spec /\ [][AnswersFit]_vars => [](TypeInv /\ Naming /\ Informed)
<1>1. Init => Informed
  <2> SUFFICES ASSUME Init, NEW c \in Clients PROVE Placed(c) /\ Served(c)
    BY DEF Informed
  <2> QED BY NothingComes DEF Placed, Served
<1>2. TypeInv /\ Naming /\ Informed /\ [Next]_vars /\ AnswersFit => Informed'
  BY PlacedStep, ServedStep DEF Naming, Informed
<1>3. TypeInv /\ Naming /\ Informed /\ UNCHANGED vars => Informed'
  BY DEF vars, roomVars, clientVars, Informed, Placed, Served, Pipe
<1> QED BY <1>1, <1>2, <1>3, NamesHold, PTL DEF Spec

LEMMA NothingLeft ==
    ASSUME TypeInv, NEW c \in Clients, Settled(c)
    PROVE  Len(up[c]) = 0 /\ DOMAIN up[c] = {} /\ DOMAIN Pipe(c) = {}
<1>1. <<>> \in Seq(Answers) /\ DOMAIN <<>> = {} /\ Len(<<>>) = 0
  OBVIOUS
<1>2. <<>> \o <<>> = <<>>
  BY <1>1, ConcatEmptySeq
<1>3. Pipe(c) = <<>> /\ up[c] = <<>>
  BY <1>2 DEF Pipe, Settled
<1> QED BY <1>1, <1>3

(***************************************************************************)
(* Once all its answers were displayed, a client is in the channel it      *)
(* believes it is in, or the last it was told of channels is a refusal:    *)
(* with any number of requests and answers in flight, as long as none of   *)
(* the answers found its buffer full (client.c:215-228, server.c:363-415). *)
(***************************************************************************)
THEOREM BelievesWhereItIs == Spec /\ [][AnswersFit]_vars => []BelievesRightly
<1>1. TypeInv /\ Naming /\ Informed => BelievesRightly
  <2> SUFFICES ASSUME TypeInv, Naming, Informed, NEW c \in Clients, in_channel[c], Settled(c),
                      told[c] \notin {"JOIN:F", "START:F"}
               PROVE  inside[c] = {current_channel[c]}
    BY DEF BelievesRightly
  <2>1. DOMAIN up[c] = {} /\ DOMAIN Pipe(c) = {}
    BY NothingLeft
  <2>2. ~Denied(Pipe(c), told[c])
    BY <2>1 DEF Denied, Denials
  <2>3. current_channel[c] \in inside[c]
    BY <2>1, <2>2 DEF Informed, Placed, Meant
  <2>4. \A n \in inside[c] : n = current_channel[c]
    BY <2>3 DEF Naming, AtMostOne
  <2> QED BY <2>3, <2>4
<1> QED BY <1>1, ToldHolds, PTL

(***************************************************************************)
(* A client whose answers were all displayed has a list of channels, under *)
(* the same condition (client.c:147, 175-190).                             *)
(***************************************************************************)
THEOREM ListHasArrived == Spec /\ [][AnswersFit]_vars => []ListArrives
<1>1. TypeInv /\ Naming /\ Informed => ListArrives
  <2> SUFFICES ASSUME TypeInv, Naming, Informed, NEW c \in Clients, at[c] = "chat", Settled(c)
               PROVE  channels_loaded[c]
    BY DEF ListArrives
  <2>1. DOMAIN up[c] = {} /\ DOMAIN Pipe(c) = {}
    BY NothingLeft
  <2> QED BY <2>1 DEF Informed, Served, Without
<1> QED BY <1>1, ToldHolds, PTL
=============================================================================
