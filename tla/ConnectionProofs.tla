--------------------------- MODULE ConnectionProofs ---------------------------
(***************************************************************************)
(* Framing: what is on its way from one program to the other is always the *)
(* bytes of whole messages in order, the first of them the one that comes  *)
(* after the last one acted on.  The stream is what its reader has         *)
(* collected, what the kernels hold and what its writer has left.          *)
(***************************************************************************)
EXTENDS Connection, SequenceTheorems, TLAPS

\* s is the messages after first, up to last, byte by byte.
Starts(s, first, last) ==
    /\ s = <<>> => first = last
    /\ s # <<>> => /\ s[1] = [id |-> first + 1, at |-> 1]
                   /\ s[Len(s)] = [id |-> last, at |-> MsgSize]
Runs(s) ==
    \A k \in 1 .. Len(s), l \in Nat :
        k + l <= Len(s) /\ s[k].at + l <= MsgSize =>
            s[k + l] = [id |-> s[k].id, at |-> s[k].at + l]
Follows(s) ==
    \A k \in 1 .. Len(s) - 1 :
        s[k].at = MsgSize => s[k + 1] = [id |-> s[k].id + 1, at |-> 1]
Carries(s, first, last) == Starts(s, first, last) /\ Runs(s) /\ Follows(s)

\* The bytes of one message have their type.
LEMMA BytesType ==
    ASSUME NEW m \in Nat \ {0}
    PROVE  /\ Bytes(m) \in Seq(Byte) /\ Len(Bytes(m)) = MsgSize
           /\ \A k \in 1 .. MsgSize : Bytes(m)[k] = [id |-> m, at |-> k]
BY SizesAssumption DEF Bytes, Byte

\* A sequence that has these bytes is that message.
LEMMA BytesOnly ==
    ASSUME NEW h \in Seq(Byte), Len(h) = MsgSize, NEW m \in Nat \ {0},
           \A k \in 1 .. MsgSize : h[k] = [id |-> m, at |-> k]
    PROVE  h = Bytes(m)
<1>1. DOMAIN h = 1 .. MsgSize /\ h = [k \in DOMAIN h |-> h[k]]
  OBVIOUS
<1> QED
  BY <1>1, SizesAssumption DEF Bytes

\* A message that is queued behind the others.
LEMMA CarriesMore ==
    ASSUME NEW s \in Seq(Byte), NEW first \in Nat, NEW last \in Nat,
           Carries(s, first, last)
    PROVE  Carries(s \o Bytes(last + 1), first, last + 1)
<1> DEFINE t == s \o Bytes(last + 1)
<1>1. /\ Bytes(last + 1) \in Seq(Byte) /\ Len(Bytes(last + 1)) = MsgSize
      /\ \A k \in 1 .. MsgSize : Bytes(last + 1)[k] = [id |-> last + 1, at |-> k]
  BY BytesType
<1>2. /\ t \in Seq(Byte) /\ Len(t) = Len(s) + MsgSize
      /\ \A k \in 1 .. Len(s) : t[k] = s[k]
      /\ \A k \in Len(s) + 1 .. Len(t) : t[k] = [id |-> last + 1, at |-> k - Len(s)]
  BY <1>1, SizesAssumption
<1> HIDE DEF t
<1>3. Len(s) \in Nat /\ MsgSize \in Nat \ {0}
  BY SizesAssumption
<1>4. Starts(t, first, last + 1)
  <2>1. t # <<>> /\ Len(t) \in Len(s) + 1 .. Len(t)
    BY <1>2, <1>3
  <2>2. t[Len(t)] = [id |-> last + 1, at |-> MsgSize]
    BY <2>1, <1>2, <1>3
  <2>3. t[1] = [id |-> first + 1, at |-> 1]
    <3>1. CASE s = <<>>
      <4>1. Len(s) = 0 /\ first = last
        BY <3>1 DEF Carries, Starts
      <4>2. 1 \in Len(s) + 1 .. Len(t) /\ 1 - Len(s) = 1
        BY <4>1, <1>2, <1>3
      <4> QED BY <4>1, <4>2, <1>2
    <3>2. CASE s # <<>>
      <4>1. 1 \in 1 .. Len(s) /\ s[1] = [id |-> first + 1, at |-> 1]
        BY <3>2, <1>3 DEF Carries, Starts
      <4> QED BY <4>1, <1>2
    <3> QED BY <3>1, <3>2
  <2> QED BY <2>1, <2>2, <2>3 DEF Starts
<1>5. Runs(t)
  <2> SUFFICES ASSUME NEW k \in 1 .. Len(t), NEW l \in Nat,
                      k + l <= Len(t), t[k].at + l <= MsgSize
               PROVE  t[k + l] = [id |-> t[k].id, at |-> t[k].at + l]
    BY DEF Runs
  <2>1. CASE k > Len(s)
    <3>1. /\ k \in Len(s) + 1 .. Len(t) /\ k + l \in Len(s) + 1 .. Len(t)
          /\ (k + l) - Len(s) = (k - Len(s)) + l
      BY <2>1, <1>2, <1>3
    <3>2. /\ t[k] = [id |-> last + 1, at |-> k - Len(s)]
          /\ t[k + l] = [id |-> last + 1, at |-> (k + l) - Len(s)]
      BY <3>1, <1>2
    <3> QED
      BY <3>1, <3>2
  <2>2. CASE k <= Len(s) /\ k + l <= Len(s)
    <3>1. k \in 1 .. Len(s) /\ k + l \in 1 .. Len(s)
      BY <2>2, <1>3
    <3>2. t[k] = s[k] /\ t[k + l] = s[k + l]
      BY <3>1, <1>2
    <3>3. s[k].at + l <= MsgSize
      BY <3>2
    <3>4. s[k + l] = [id |-> s[k].id, at |-> s[k].at + l]
      BY <3>1, <3>3, <2>2 DEF Carries, Runs
    <3> QED
      BY <3>2, <3>4
  <2>3. CASE k <= Len(s) /\ k + l > Len(s)
    <3>1. /\ s # <<>> /\ s[k] \in Byte /\ t[k] = s[k]
          /\ s[Len(s)] = [id |-> last, at |-> MsgSize]
      BY <2>3, <1>2, <1>3 DEF Carries, Starts
    <3>2. Len(s) - k \in Nat /\ k + (Len(s) - k) = Len(s) /\ Len(s) - k < l
      BY <2>3, <1>3
    <3>3. s[k].at + (Len(s) - k) <= MsgSize /\ k \in 1 .. Len(s)
      BY <3>1, <3>2, <2>3, <1>3 DEF Byte
    <3>4. s[k + (Len(s) - k)] = [id |-> s[k].id, at |-> s[k].at + (Len(s) - k)]
      <4>1. \A d \in Nat : k + d <= Len(s) /\ s[k].at + d <= MsgSize =>
                              s[k + d] = [id |-> s[k].id, at |-> s[k].at + d]
        BY <3>3 DEF Carries, Runs
      <4>2. k + (Len(s) - k) <= Len(s)
        BY <3>2, <1>3
      <4> QED BY <3>2, <3>3, <4>1, <4>2
    <3>5. s[k].at + (Len(s) - k) = MsgSize
      BY <3>1, <3>2, <3>4
    <3>6. s[k].at \in Int
      BY <3>1 DEF Byte
    <3> QED
      BY <3>1, <3>2, <3>5, <3>6, <1>3
  <2> QED
    BY <2>1, <2>2, <2>3, <1>2, <1>3
<1>6. Follows(t)
  <2> SUFFICES ASSUME NEW k \in 1 .. Len(t) - 1, t[k].at = MsgSize
               PROVE  t[k + 1] = [id |-> t[k].id + 1, at |-> 1]
    BY DEF Follows
  <2>1. CASE k > Len(s)
    <3>1. k \in Len(s) + 1 .. Len(t) /\ k - Len(s) < MsgSize
      BY <2>1, <1>2, <1>3
    <3>2. t[k] = [id |-> last + 1, at |-> k - Len(s)]
      BY <3>1, <1>2
    <3> QED
      BY <3>1, <3>2, <1>3
  <2>2. CASE k = Len(s)
    BY <2>2, <1>2, <1>3 DEF Carries, Starts
  <2>3. CASE k < Len(s)
    <3>1. k \in 1 .. Len(s) - 1 /\ k \in 1 .. Len(s) /\ k + 1 \in 1 .. Len(s)
      BY <2>3, <1>3
    <3>2. t[k] = s[k] /\ t[k + 1] = s[k + 1]
      BY <3>1, <1>2
    <3> QED
      BY <3>1, <3>2 DEF Carries, Follows
  <2> QED
    BY <2>1, <2>2, <2>3, <1>3
<1> QED
  BY <1>4, <1>5, <1>6 DEF Carries, t

\* A message that is complete at the front of a stream, and what is left of it.
LEMMA CarriesLess ==
    ASSUME NEW s \in Seq(Byte), NEW first \in Nat, NEW last \in Nat,
           Carries(s, first, last), Len(s) >= MsgSize
    PROVE  /\ SubSeq(s, 1, MsgSize) = Bytes(first + 1)
           /\ Carries(SubSeq(s, MsgSize + 1, Len(s)), first + 1, last)
<1> DEFINE t == SubSeq(s, MsgSize + 1, Len(s))
           h == SubSeq(s, 1, MsgSize)
<1>1. Len(s) \in Nat /\ MsgSize \in Nat \ {0} /\ s # <<>>
  BY SizesAssumption
<1>2. /\ t \in Seq(Byte) /\ Len(t) = Len(s) - MsgSize
      /\ \A k \in 1 .. Len(t) : t[k] = s[k + MsgSize]
  BY <1>1
<1>3. s[1] = [id |-> first + 1, at |-> 1]
  BY <1>1 DEF Carries, Starts
<1>4. \A k \in 1 .. MsgSize : s[k] = [id |-> first + 1, at |-> k]
  <2> TAKE k \in 1 .. MsgSize
  <2>1. k - 1 \in Nat /\ 1 + (k - 1) = k /\ k <= Len(s) /\ 1 \in 1 .. Len(s)
    BY <1>1
  <2>2. s[1].at + (k - 1) <= MsgSize /\ s[1].at + (k - 1) = k /\ s[1].id = first + 1
    BY <1>3, <1>1
  <2> QED
    BY <2>1, <2>2 DEF Carries, Runs
<1>5. h \in Seq(Byte) /\ Len(h) = MsgSize /\ \A k \in 1 .. MsgSize : h[k] = s[k]
  BY <1>1
<1> HIDE DEF t, h
<1>9. h = Bytes(first + 1)
  <2>1. \A k \in 1 .. MsgSize : h[k] = [id |-> first + 1, at |-> k]
    BY <1>5, <1>4
  <2>2. first + 1 \in Nat \ {0}
    OBVIOUS
  <2> QED
    BY <2>1, <2>2, <1>5, BytesOnly
<1>6. Starts(t, first + 1, last)
  <2>1. s[MsgSize] = [id |-> first + 1, at |-> MsgSize]
    BY <1>4, <1>1
  <2>2. CASE t = <<>>
    <3>1. Len(s) = MsgSize
      BY <2>2, <1>2, <1>1
    <3> QED
      BY <3>1, <2>1, <2>2, <1>1 DEF Carries, Starts
  <2>3. CASE t # <<>>
    <3>1. Len(t) > 0 /\ Len(t) \in Nat
      BY <2>3, <1>2
    <3>2. t[1] = s[1 + MsgSize] /\ t[Len(t)] = s[Len(s)]
      BY <3>1, <1>2, <1>1
    <3>3. s[MsgSize + 1] = [id |-> first + 2, at |-> 1]
      <4>1. MsgSize \in 1 .. Len(s) - 1 /\ s[MsgSize].at = MsgSize
        BY <3>1, <2>1, <1>1, <1>2
      <4>2. s[MsgSize + 1] = [id |-> s[MsgSize].id + 1, at |-> 1]
        BY <4>1 DEF Carries, Follows
      <4> QED
        BY <4>2, <2>1
    <3> QED
      BY <3>2, <3>3, <2>3, <1>1 DEF Carries, Starts
  <2> QED
    BY <2>2, <2>3
<1>7. Runs(t)
  <2> SUFFICES ASSUME NEW k \in 1 .. Len(t), NEW l \in Nat,
                      k + l <= Len(t), t[k].at + l <= MsgSize
               PROVE  t[k + l] = [id |-> t[k].id, at |-> t[k].at + l]
    BY DEF Runs
  <2>1. /\ k + MsgSize \in 1 .. Len(s) /\ (k + MsgSize) + l <= Len(s)
        /\ k + l \in 1 .. Len(t) /\ (k + l) + MsgSize = (k + MsgSize) + l
    BY <1>1, <1>2
  <2>2. t[k] = s[k + MsgSize] /\ t[k + l] = s[(k + MsgSize) + l]
    BY <2>1, <1>2
  <2> QED
    BY <2>1, <2>2 DEF Carries, Runs
<1>8. Follows(t)
  <2> SUFFICES ASSUME NEW k \in 1 .. Len(t) - 1, t[k].at = MsgSize
               PROVE  t[k + 1] = [id |-> t[k].id + 1, at |-> 1]
    BY DEF Follows
  <2>1. k + MsgSize \in 1 .. Len(s) - 1 /\ k \in 1 .. Len(t) /\ k + 1 \in 1 .. Len(t)
    BY <1>1, <1>2
  <2>2. t[k] = s[k + MsgSize] /\ t[k + 1] = s[(k + MsgSize) + 1]
    BY <2>1, <1>1, <1>2
  <2> QED
    BY <2>1, <2>2 DEF Carries, Follows
<1> QED
  BY <1>9, <1>6, <1>7, <1>8 DEF Carries, t, h

\* What a message reads as that is complete.
LEMMA DecodeBytes ==
    ASSUME NEW m \in Nat \ {0}
    PROVE  Decode(Bytes(m)) = m
<1>1. Bytes(m)[1] = [id |-> m, at |-> 1]
  BY BytesType, SizesAssumption
<1> QED
  BY <1>1 DEF Decode

-----------------------------------------------------------------------------
\* The sequences of bytes, where the provers can apply what they know of any.
LEMMA BytesConcat ==
    ASSUME NEW a \in Seq(Byte), NEW b \in Seq(Byte)
    PROVE  /\ a \o b \in Seq(Byte)
           /\ Len(a \o b) = Len(a) + Len(b)
           /\ \A k \in 1 .. Len(a) : (a \o b)[k] = a[k]
           /\ \A k \in 1 .. Len(b) : (a \o b)[Len(a) + k] = b[k]
OBVIOUS
LEMMA BytesAssoc ==
    ASSUME NEW a \in Seq(Byte), NEW b \in Seq(Byte), NEW c \in Seq(Byte)
    PROVE  (a \o b) \o c = a \o (b \o c)
<1> DEFINE l == (a \o b) \o c
           m == a \o (b \o c)
<1>1. /\ l \in Seq(Byte) /\ Len(l) = Len(a) + Len(b) + Len(c)
      /\ \A k \in 1 .. Len(a) + Len(b) + Len(c) :
           l[k] = IF k <= Len(a) THEN a[k]
                  ELSE IF k <= Len(a) + Len(b) THEN b[k - Len(a)]
                  ELSE c[k - (Len(a) + Len(b))]
  OBVIOUS
<1>2. /\ m \in Seq(Byte) /\ Len(m) = Len(a) + Len(b) + Len(c)
      /\ \A k \in 1 .. Len(a) + Len(b) + Len(c) :
           m[k] = IF k <= Len(a) THEN a[k]
                  ELSE IF k <= Len(a) + Len(b) THEN b[k - Len(a)]
                  ELSE c[k - (Len(a) + Len(b))]
  OBVIOUS
<1> HIDE DEF l, m
<1>3. l = m
  <2>1. Len(l) = Len(m) /\ \A k \in 1 .. Len(l) : l[k] = m[k]
    BY <1>1, <1>2
  <2> QED BY <1>1, <1>2, <2>1, SeqEqual
<1> QED
  BY <1>3 DEF l, m

\* A sequence that is cut in two.
LEMMA Cut ==
    ASSUME NEW s \in Seq(Byte), NEW n \in 1 .. Len(s)
    PROVE  /\ SubSeq(s, 1, n) \in Seq(Byte) /\ Len(SubSeq(s, 1, n)) = n
           /\ SubSeq(s, n + 1, Len(s)) \in Seq(Byte)
           /\ SubSeq(s, 1, n) \o SubSeq(s, n + 1, Len(s)) = s
<1>1. SubSeq(s, 1, n) \o SubSeq(s, n + 1, Len(s)) = SubSeq(s, 1, Len(s))
  <2>1. 1 \in 1 .. Len(s) + 1 /\ n \in 1 - 1 .. Len(s) /\ Len(s) \in n .. Len(s)
    OBVIOUS
  <2> QED
    BY <2>1, ConcatAdjacentSubSeq
<1>2. SubSeq(s, 1, Len(s)) = s
  BY SubSeqFull
<1>3. /\ SubSeq(s, 1, n) \in Seq(Byte) /\ Len(SubSeq(s, 1, n)) = n
      /\ SubSeq(s, n + 1, Len(s)) \in Seq(Byte)
  OBVIOUS
<1> QED
  BY <1>1, <1>2, <1>3, Zenon

\* write() leaves the stream as it is.
LEMMA MovesKeeps ==
    ASSUME NEW b \in Seq(Byte), NEW w \in Seq(Byte), NEW f \in Seq(Byte),
           NEW n \in 1 .. Len(f)
    PROVE  (b \o (w \o SubSeq(f, 1, n))) \o SubSeq(f, n + 1, Len(f)) = (b \o w) \o f
<1> DEFINE h == SubSeq(f, 1, n)
           r == SubSeq(f, n + 1, Len(f))
<1>1. h \in Seq(Byte) /\ r \in Seq(Byte)
  BY Cut
<1>2. h \o r = f
  BY Cut
<1> HIDE DEF h, r
<1>3. b \o (w \o h) = (b \o w) \o h
  BY <1>1, BytesAssoc, ZenonT(60)
<1>4. b \o w \in Seq(Byte)
  BY BytesConcat
<1>5. ((b \o w) \o h) \o r = (b \o w) \o (h \o r)
  BY <1>1, <1>4, BytesAssoc, ZenonT(60)
<1>6. (b \o (w \o h)) \o r = (b \o w) \o f
  BY <1>2, <1>3, <1>5
<1> QED
  BY <1>6 DEF h, r

\* So does read(), and the message it completes is the next one.
LEMMA CollectsNext ==
    ASSUME NEW b \in Seq(Byte), NEW f \in Seq(Byte), NEW w \in Seq(Byte),
           NEW first \in Nat, NEW last \in Nat, Carries((b \o f) \o w, first, last),
           NEW n \in 1 .. Len(f)
    PROVE  LET got == b \o SubSeq(f, 1, n)
               r   == SubSeq(f, n + 1, Len(f))
           IN  /\ got \in Seq(Byte) /\ r \in Seq(Byte)
               /\ (got \o r) \o w = (b \o f) \o w
               /\ Len(got) = MsgSize =>
                    /\ Decode(got) = first + 1
                    /\ Carries((<<>> \o r) \o w, first + 1, last)
<1> DEFINE h == SubSeq(f, 1, n)
           r == SubSeq(f, n + 1, Len(f))
           got == b \o h
           s == (b \o f) \o w
           t == r \o w
<1>1. h \in Seq(Byte) /\ r \in Seq(Byte)
  BY Cut
<1>2. got \in Seq(Byte) /\ t \in Seq(Byte)
  BY <1>1, BytesConcat
<1>3. got \o r = b \o f
  <2>1. h \o r = f
    BY Cut
  <2> HIDE DEF h, r
  <2>2. (b \o h) \o r = b \o (h \o r)
    BY <1>1, BytesAssoc, ZenonT(60)
  <2> QED
    BY <2>1, <2>2
<1> HIDE DEF h, r, got
<1>4. got \o t = s
  <2>1. (got \o r) \o w = got \o (r \o w)
    <3>1. got \in Seq(Byte)
      BY <1>2
    <3> QED
      BY <1>1, <3>1, BytesAssoc
  <2> QED
    BY <2>1, <1>3
<1>5. <<>> \o r = r
  BY <1>1, ConcatEmptySeq
<1>6. ASSUME Len(got) = MsgSize
      PROVE  Decode(got) = first + 1 /\ Carries(t, first + 1, last)
  <2> HIDE DEF s, t
  <2>1. s \in Seq(Byte) /\ Len(s) = MsgSize + Len(t) /\ Len(t) \in Nat
        /\ MsgSize \in Nat \ {0}
    <3>1. got \o t \in Seq(Byte) /\ Len(got \o t) = Len(got) + Len(t)
      BY <1>2, BytesConcat
    <3>2. Len(t) \in Nat /\ MsgSize \in Nat \ {0}
      BY <1>2, SizesAssumption
    <3> QED
      BY <3>1, <3>2, <1>4, <1>6
  <2>2. \A k \in 1 .. MsgSize : s[k] = got[k]
    <3>1. \A k \in 1 .. Len(got) : (got \o t)[k] = got[k]
      BY <1>2, BytesConcat
    <3> QED
      BY <3>1, <1>4, <1>6
  <2>3. \A k \in 1 .. Len(t) : s[MsgSize + k] = t[k]
    <3>1. \A k \in 1 .. Len(t) : (got \o t)[Len(got) + k] = t[k]
      BY <1>2, BytesConcat
    <3> QED
      BY <3>1, <1>4, <1>6
  <2>4. Carries(s, first, last) /\ Len(s) >= MsgSize
    BY <2>1 DEF s
  <2>5. SubSeq(s, 1, MsgSize) = got
    <3> DEFINE u == SubSeq(s, 1, MsgSize)
    <3>1. u \in Seq(Byte) /\ Len(u) = MsgSize /\ \A k \in 1 .. MsgSize : u[k] = s[k]
      BY <2>1
    <3> HIDE DEF u
    <3>2. Len(u) = Len(got) /\ \A k \in 1 .. Len(u) : u[k] = got[k]
      BY <3>1, <2>2, <1>6
    <3>3. u = got
      BY <3>1, <3>2, <1>2, SeqEqual
    <3> QED
      BY <3>3 DEF u
  <2>6. SubSeq(s, MsgSize + 1, Len(s)) = t
    <3> DEFINE u == SubSeq(s, MsgSize + 1, Len(s))
    <3>1. u \in Seq(Byte) /\ Len(u) = Len(t) /\ \A k \in 1 .. Len(t) : u[k] = s[MsgSize + k]
      BY <2>1
    <3> HIDE DEF u
    <3>2. \A k \in 1 .. Len(u) : u[k] = t[k]
      BY <3>1, <2>3
    <3>3. u = t
      BY <3>1, <3>2, <1>2, SeqEqual
    <3> QED
      BY <3>3 DEF u
  <2>7. got = Bytes(first + 1) /\ Carries(t, first + 1, last)
    BY <2>1, <2>4, <2>5, <2>6, CarriesLess
  <2>8. first + 1 \in Nat \ {0}
    OBVIOUS
  <2> QED
    BY <2>7, <2>8, DecodeBytes
<1>7. (got \o r) \o w = (b \o f) \o w
  BY <1>3
<1> QED
  BY <1>1, <1>2, <1>5, <1>6, <1>7 DEF h, r, got

-----------------------------------------------------------------------------
(***************************************************************************)
(* The inductive invariant: both streams carry what was not acted on yet,  *)
(* the client leaves nothing unwritten when it goes back to its loop, and  *)
(* it only calls getchar() when the terminal has a key.                    *)
(***************************************************************************)
ToClient == (soc_msg_buf \o down) \o out_buf
ToServer == (in_buf \o up) \o out_msg_buf
Streams ==
    /\ Carries(ToClient, Len(shown), queued)
    /\ Carries(ToServer, Len(served), asked)
Idle ==
    /\ client # "writing" => out_msg_buf = <<>>
    /\ client = "key" => tty # <<>>
ConnectionInv == TypeOK /\ Streams /\ Idle /\ ShownInOrder /\ ServedInOrder

LEMMA InitInv == Init => ConnectionInv
<1> SUFFICES ASSUME Init PROVE ConnectionInv
  OBVIOUS
<1>1. TypeOK
  <2>1. <<>> \in Seq(Byte) /\ <<>> \in Seq(Nat) /\ <<>> \in Seq(Keys) /\ Len(<<>>) = 0
    OBVIOUS
  <2>2. 0 < MsgSize /\ 0 <= WireSize /\ 0 \in 0 .. LineSize - 1
    BY SizesAssumption
  <2> QED
    BY <2>1, <2>2 DEF Init, TypeOK
<1>2. Carries((<<>> \o <<>>) \o <<>>, 0, 0)
  <2>1. (<<>> \o <<>>) \o <<>> \in Seq(Byte) /\ Len((<<>> \o <<>>) \o <<>>) = 0
    OBVIOUS
  <2> DEFINE e == (<<>> \o <<>>) \o <<>>
  <2>2. e = <<>> /\ Len(e) = 0
    BY <2>1
  <2> HIDE DEF e
  <2>3. Carries(e, 0, 0)
    BY <2>2 DEF Carries, Starts, Runs, Follows
  <2> QED
    BY <2>3 DEF e
<1>3. Streams
  BY <1>2 DEF Init, Streams, ToClient, ToServer
<1>4. Idle /\ ShownInOrder /\ ServedInOrder
  BY DEF Init, Idle, ShownInOrder, ServedInOrder, InOrder
<1> QED
  BY <1>1, <1>3, <1>4 DEF ConnectionInv

\* One more message acted on, the next one, keeps the order.
LEMMA OneMore ==
    ASSUME NEW done \in Seq(Nat), InOrder(done)
    PROVE  LET d == Append(done, Len(done) + 1)
           IN  d \in Seq(Nat) /\ InOrder(d) /\ Len(d) = Len(done) + 1
BY DEF InOrder

LEMMA QueueInv == ConnectionInv /\ Queue => ConnectionInv'
<1> SUFFICES ASSUME ConnectionInv, Queue PROVE ConnectionInv'
  OBVIOUS
<1> DEFINE m == Bytes(queued + 1)
           b == soc_msg_buf \o down
<1>1. TypeOK /\ queued \in Nat /\ Len(shown) \in Nat /\ out_buf \in Seq(Byte)
  BY DEF ConnectionInv, TypeOK
<1>2. m \in Seq(Byte)
  BY <1>1, BytesType
<1>3. b \in Seq(Byte)
  BY <1>1, BytesConcat DEF TypeOK
<1>4. out_buf' = out_buf \o m
  BY DEF Queue
<1>5. TypeOK'
  <2>1. out_buf' \in Seq(Byte)
    BY <1>1, <1>2, <1>4, BytesConcat
  <2> QED
    BY <2>1, <1>1 DEF TypeOK, Queue, clientVars, keyVars
<1>6. Carries(ToClient, Len(shown), queued)' 
  <2>1. ToClient' = b \o (out_buf \o m)
    BY <1>4 DEF ToClient, Queue, clientVars
  <2>2. ToClient = b \o out_buf
    BY DEF ToClient
  <2> HIDE DEF b, m
  <2>3. (b \o out_buf) \o m = b \o (out_buf \o m)
    BY <1>1, <1>2, <1>3, BytesAssoc
  <2>4. ToClient' = ToClient \o m
    BY <2>1, <2>2, <2>3
  <2>5. ToClient \in Seq(Byte)
    BY <2>2, <1>1, <1>3, BytesConcat
  <2>6. Carries(ToClient, Len(shown), queued)
    BY DEF ConnectionInv, Streams
  <2>7. Carries(ToClient \o m, Len(shown), queued + 1)
    BY <2>5, <2>6, <1>1, CarriesMore DEF m
  <2>8. shown' = shown /\ queued' = queued + 1
    BY DEF Queue, clientVars
  <2> QED
    BY <2>4, <2>7, <2>8
<1>7. Carries(ToServer, Len(served), asked)'
  <2>1. UNCHANGED <<ToServer, served, asked>>
    BY DEF Queue, ToServer, clientVars
  <2> QED
    BY <2>1 DEF ConnectionInv, Streams
<1>8. Idle' /\ ShownInOrder' /\ ServedInOrder'
  BY DEF ConnectionInv, Queue, Idle, ShownInOrder, ServedInOrder, clientVars, keyVars
<1> QED
  BY <1>5, <1>6, <1>7, <1>8 DEF ConnectionInv, Streams

\* The two places where a message is collected, from one stream and its reader.
LEMMA CollectsInv ==
    ASSUME NEW f \in Seq(Byte), NEW b \in Seq(Byte), NEW w \in Seq(Byte),
           NEW done \in Seq(Nat), NEW last \in Nat,
           Carries((b \o f) \o w, Len(done), last), InOrder(done), Len(f) <= WireSize,
           NEW n \in 1 .. Len(f), Len(b \o SubSeq(f, 1, n)) <= MsgSize
    PROVE  LET got   == b \o SubSeq(f, 1, n)
               f2    == SubSeq(f, n + 1, Len(f))
               b2    == IF Len(got) = MsgSize THEN <<>> ELSE got
               done2 == IF Len(got) = MsgSize THEN Append(done, Decode(got)) ELSE done
           IN  /\ f2 \in Seq(Byte) /\ Len(f2) <= WireSize
               /\ b2 \in Seq(Byte) /\ Len(b2) < MsgSize
               /\ done2 \in Seq(Nat) /\ InOrder(done2)
               /\ Carries((b2 \o f2) \o w, Len(done2), last)
<1> DEFINE got == b \o SubSeq(f, 1, n)
           r   == SubSeq(f, n + 1, Len(f))
           b2  == IF Len(got) = MsgSize THEN <<>> ELSE got
           done2 == IF Len(got) = MsgSize THEN Append(done, Decode(got)) ELSE done
<1>1. Len(done) \in Nat
  OBVIOUS
<1>2. /\ got \in Seq(Byte) /\ r \in Seq(Byte)
      /\ (got \o r) \o w = (b \o f) \o w
      /\ Len(got) = MsgSize =>
           /\ Decode(got) = Len(done) + 1
           /\ Carries((<<>> \o r) \o w, Len(done) + 1, last)
  BY <1>1, CollectsNext
<1>3. Len(r) <= WireSize
  BY SizesAssumption
<1>4. /\ Len(got) <= MsgSize
      /\ IF Len(got) = MsgSize
         THEN b2 = <<>> /\ done2 = Append(done, Decode(got))
         ELSE b2 = got /\ done2 = done
  OBVIOUS
<1> SUFFICES /\ r \in Seq(Byte) /\ Len(r) <= WireSize
             /\ b2 \in Seq(Byte) /\ Len(b2) < MsgSize
             /\ done2 \in Seq(Nat) /\ InOrder(done2)
             /\ Carries((b2 \o r) \o w, Len(done2), last)
  OBVIOUS
<1> HIDE DEF got, r, b2, done2
<1>5. CASE Len(got) = MsgSize
  <2>1. b2 = <<>> /\ done2 = Append(done, Len(done) + 1)
    BY <1>2, <1>4, <1>5
  <2>2. done2 \in Seq(Nat) /\ InOrder(done2) /\ Len(done2) = Len(done) + 1
    BY <2>1, OneMore
  <2>3. b2 \in Seq(Byte) /\ Len(b2) < MsgSize
    BY <2>1, SizesAssumption
  <2>4. Carries((b2 \o r) \o w, Len(done2), last)
    BY <2>1, <2>2, <1>2, <1>4, <1>5
  <2> QED
    BY <2>2, <2>3, <2>4, <1>2, <1>3
<1>6. CASE Len(got) # MsgSize
  <2>1. b2 = got /\ done2 = done
    BY <1>4, <1>6
  <2>2. Len(got) \in Nat /\ MsgSize \in Nat
    BY <1>2, SizesAssumption
  <2>3. Len(b2) < MsgSize
    BY <2>1, <2>2, <1>4, <1>6
  <2>4. Carries((b2 \o r) \o w, Len(done2), last)
    BY <2>1, <1>2, <1>4
  <2> QED
    BY <2>1, <2>3, <2>4, <1>2, <1>3
<1> QED
  BY <1>5, <1>6

LEMMA ServerReadsInv == ConnectionInv /\ ServerReads => ConnectionInv'
<1> SUFFICES ASSUME ConnectionInv, ServerReads PROVE ConnectionInv'
  OBVIOUS
<1>1. TypeOK
  BY DEF ConnectionInv
<1>2. UNCHANGED <<ToClient, shown, queued>>
  BY DEF ServerReads, ToClient, clientVars
<1>3. /\ up' \in Seq(Byte) /\ Len(up') <= WireSize
      /\ in_buf' \in Seq(Byte) /\ Len(in_buf') < MsgSize
      /\ served' \in Seq(Nat) /\ InOrder(served')
      /\ Carries((in_buf' \o up') \o out_msg_buf, Len(served'), asked)
  <2>1. /\ up \in Seq(Byte) /\ Len(up) <= WireSize
        /\ in_buf \in Seq(Byte) /\ Len(in_buf) < MsgSize /\ out_msg_buf \in Seq(Byte)
        /\ served \in Seq(Nat) /\ asked \in Nat
    BY <1>1 DEF TypeOK
  <2>2. InOrder(served) /\ Carries((in_buf \o up) \o out_msg_buf, Len(served), asked)
    BY DEF ConnectionInv, Streams, ToServer, ServedInOrder
  <2>3. CASE UNCHANGED <<up, in_buf, served>>
    BY <2>1, <2>2, <2>3
  <2>4. CASE Collects(up, in_buf, served)
    <3>1. PICK n \in 1 .. Len(up) :
             LET got == in_buf \o SubSeq(up, 1, n)
             IN  /\ Len(got) <= MsgSize
                 /\ up' = SubSeq(up, n + 1, Len(up))
                 /\ IF Len(got) = MsgSize
                    THEN in_buf' = <<>> /\ served' = Append(served, Decode(got))
                    ELSE in_buf' = got /\ served' = served
      BY <2>4 DEF Collects
    <3> DEFINE got == in_buf \o SubSeq(up, 1, n)
               f2  == SubSeq(up, n + 1, Len(up))
               b2  == IF Len(got) = MsgSize THEN <<>> ELSE got
               done2 == IF Len(got) = MsgSize THEN Append(served, Decode(got)) ELSE served
    <3>2. Len(got) <= MsgSize
      BY <3>1
    <3>3. /\ f2 \in Seq(Byte) /\ Len(f2) <= WireSize
          /\ b2 \in Seq(Byte) /\ Len(b2) < MsgSize
          /\ done2 \in Seq(Nat) /\ InOrder(done2)
          /\ Carries((b2 \o f2) \o out_msg_buf, Len(done2), asked)
      BY <2>1, <2>2, <3>2, CollectsInv
    <3>4. up' = f2 /\ in_buf' = b2 /\ served' = done2
      BY <3>1
    <3> HIDE DEF got, f2, b2, done2
    <3> QED
      BY <3>3, <3>4
  <2> QED
    BY <2>3, <2>4 DEF ServerReads
<1>4. Carries(ToServer, Len(served), asked)'
  <2>1. out_msg_buf' = out_msg_buf /\ asked' = asked
    BY DEF ServerReads, clientVars
  <2> QED
    BY <2>1, <1>3 DEF ToServer
<1>5. Carries(ToClient, Len(shown), queued)'
  BY <1>2 DEF ConnectionInv, Streams
<1>6. TypeOK'
  BY <1>1, <1>3 DEF TypeOK, ServerReads, clientVars, keyVars
<1>7. Idle' /\ ShownInOrder' /\ ServedInOrder'
  BY <1>3 DEF ConnectionInv, ServerReads, Idle, ShownInOrder, ServedInOrder, clientVars, keyVars
<1> QED
  BY <1>4, <1>5, <1>6, <1>7 DEF ConnectionInv, Streams

LEMMA ServerWritesInv == ConnectionInv /\ ServerWrites => ConnectionInv'
<1> SUFFICES ASSUME ConnectionInv, ServerWrites PROVE ConnectionInv'
  OBVIOUS
<1>1. TypeOK
  BY DEF ConnectionInv
<1>2. PICK n \in 1 .. Len(out_buf) :
         /\ n <= WireSize - Len(down)
         /\ out_buf' = SubSeq(out_buf, n + 1, Len(out_buf))
         /\ down' = down \o SubSeq(out_buf, 1, n)
  BY DEF ServerWrites, Moves
<1>3. /\ soc_msg_buf \in Seq(Byte) /\ down \in Seq(Byte) /\ out_buf \in Seq(Byte)
  BY <1>1 DEF TypeOK
<1>4. /\ out_buf' \in Seq(Byte) /\ down' \in Seq(Byte) /\ Len(down') <= WireSize
  <2>1. SubSeq(out_buf, 1, n) \in Seq(Byte) /\ Len(SubSeq(out_buf, 1, n)) = n
        /\ SubSeq(out_buf, n + 1, Len(out_buf)) \in Seq(Byte)
    BY <1>3, Cut
  <2>2. down' \in Seq(Byte) /\ Len(down') = Len(down) + n
    BY <2>1, <1>2, <1>3, BytesConcat
  <2> QED
    BY <2>1, <2>2, <1>2, <1>3, SizesAssumption
<1>5. ToClient' = ToClient
  <2>1. (soc_msg_buf \o (down \o SubSeq(out_buf, 1, n)))
          \o SubSeq(out_buf, n + 1, Len(out_buf))
        = (soc_msg_buf \o down) \o out_buf
    BY <1>3, MovesKeeps, ZenonT(60)
  <2>2. soc_msg_buf' = soc_msg_buf
    BY DEF ServerWrites, clientVars
  <2> QED
    BY <2>1, <2>2, <1>2 DEF ToClient
<1>6. UNCHANGED <<ToServer, served, asked, shown, queued>>
  BY DEF ServerWrites, ToServer, clientVars
<1>7. Streams'
  BY <1>5, <1>6 DEF ConnectionInv, Streams
<1>8. TypeOK'
  BY <1>1, <1>4 DEF TypeOK, ServerWrites, clientVars, keyVars
<1>9. Idle' /\ ShownInOrder' /\ ServedInOrder'
  BY DEF ConnectionInv, ServerWrites, Idle, ShownInOrder, ServedInOrder, clientVars, keyVars
<1> QED
  BY <1>7, <1>8, <1>9 DEF ConnectionInv

LEMMA handle_server_messageInv == ConnectionInv /\ handle_server_message => ConnectionInv'
<1> SUFFICES ASSUME ConnectionInv, handle_server_message PROVE ConnectionInv'
  OBVIOUS
<1>1. TypeOK
  BY DEF ConnectionInv
<1>2. UNCHANGED <<ToServer, served, asked>>
  BY DEF handle_server_message, ToServer, serverVars
<1>3. /\ down' \in Seq(Byte) /\ Len(down') <= WireSize
      /\ soc_msg_buf' \in Seq(Byte) /\ Len(soc_msg_buf') < MsgSize
      /\ shown' \in Seq(Nat) /\ InOrder(shown')
      /\ Carries((soc_msg_buf' \o down') \o out_buf, Len(shown'), queued)
  <2>1. /\ down \in Seq(Byte) /\ Len(down) <= WireSize
        /\ soc_msg_buf \in Seq(Byte) /\ Len(soc_msg_buf) < MsgSize /\ out_buf \in Seq(Byte)
        /\ shown \in Seq(Nat) /\ queued \in Nat
    BY <1>1 DEF TypeOK
  <2>2. InOrder(shown) /\ Carries((soc_msg_buf \o down) \o out_buf, Len(shown), queued)
    BY DEF ConnectionInv, Streams, ToClient, ShownInOrder
  <2>3. CASE UNCHANGED <<down, soc_msg_buf, shown>>
    BY <2>1, <2>2, <2>3
  <2>4. CASE Collects(down, soc_msg_buf, shown)
    <3>1. PICK n \in 1 .. Len(down) :
             LET got == soc_msg_buf \o SubSeq(down, 1, n)
             IN  /\ Len(got) <= MsgSize
                 /\ down' = SubSeq(down, n + 1, Len(down))
                 /\ IF Len(got) = MsgSize
                    THEN soc_msg_buf' = <<>> /\ shown' = Append(shown, Decode(got))
                    ELSE soc_msg_buf' = got /\ shown' = shown
      BY <2>4 DEF Collects
    <3> DEFINE got == soc_msg_buf \o SubSeq(down, 1, n)
               f2  == SubSeq(down, n + 1, Len(down))
               b2  == IF Len(got) = MsgSize THEN <<>> ELSE got
               done2 == IF Len(got) = MsgSize THEN Append(shown, Decode(got)) ELSE shown
    <3>2. Len(got) <= MsgSize
      BY <3>1
    <3>3. /\ f2 \in Seq(Byte) /\ Len(f2) <= WireSize
          /\ b2 \in Seq(Byte) /\ Len(b2) < MsgSize
          /\ done2 \in Seq(Nat) /\ InOrder(done2)
          /\ Carries((b2 \o f2) \o out_buf, Len(done2), queued)
      BY <2>1, <2>2, <3>2, CollectsInv
    <3>4. down' = f2 /\ soc_msg_buf' = b2 /\ shown' = done2
      BY <3>1
    <3> HIDE DEF got, f2, b2, done2
    <3> QED
      BY <3>3, <3>4
  <2> QED
    BY <2>3, <2>4 DEF handle_server_message
<1>4. Carries(ToClient, Len(shown), queued)'
  <2>1. out_buf' = out_buf /\ queued' = queued
    BY DEF handle_server_message, serverVars
  <2> QED
    BY <2>1, <1>3 DEF ToClient
<1>5. Carries(ToServer, Len(served), asked)'
  BY <1>2 DEF ConnectionInv, Streams
<1>6. TypeOK'
  BY <1>1, <1>3 DEF TypeOK, handle_server_message, serverVars, keyVars
<1>7. Idle' /\ ShownInOrder' /\ ServedInOrder'
  BY <1>3 DEF ConnectionInv, handle_server_message, Idle, ShownInOrder, ServedInOrder, serverVars, keyVars
<1> QED
  BY <1>4, <1>5, <1>6, <1>7 DEF ConnectionInv, Streams

LEMMA send_message_to_serverInv == ConnectionInv /\ send_message_to_server => ConnectionInv'
<1> SUFFICES ASSUME ConnectionInv, send_message_to_server PROVE ConnectionInv'
  OBVIOUS
<1>1. TypeOK
  BY DEF ConnectionInv
<1>2. PICK n \in 1 .. Len(out_msg_buf) :
         /\ n <= WireSize - Len(up)
         /\ out_msg_buf' = SubSeq(out_msg_buf, n + 1, Len(out_msg_buf))
         /\ up' = up \o SubSeq(out_msg_buf, 1, n)
  BY DEF send_message_to_server, Moves
<1>3. /\ in_buf \in Seq(Byte) /\ up \in Seq(Byte) /\ out_msg_buf \in Seq(Byte)
  BY <1>1 DEF TypeOK
<1>4. /\ out_msg_buf' \in Seq(Byte) /\ up' \in Seq(Byte) /\ Len(up') <= WireSize
  <2>1. SubSeq(out_msg_buf, 1, n) \in Seq(Byte) /\ Len(SubSeq(out_msg_buf, 1, n)) = n
        /\ SubSeq(out_msg_buf, n + 1, Len(out_msg_buf)) \in Seq(Byte)
    BY <1>3, Cut
  <2>2. up' \in Seq(Byte) /\ Len(up') = Len(up) + n
    BY <2>1, <1>2, <1>3, BytesConcat
  <2> QED
    BY <2>1, <2>2, <1>2, <1>3, SizesAssumption
<1>5. ToServer' = ToServer
  <2>1. (in_buf \o (up \o SubSeq(out_msg_buf, 1, n)))
          \o SubSeq(out_msg_buf, n + 1, Len(out_msg_buf))
        = (in_buf \o up) \o out_msg_buf
    BY <1>3, MovesKeeps, ZenonT(60)
  <2>2. in_buf' = in_buf
    BY DEF send_message_to_server, serverVars
  <2> QED
    BY <2>1, <2>2, <1>2 DEF ToServer
<1>6. UNCHANGED <<ToClient, shown, queued, served, asked>>
  BY DEF send_message_to_server, ToClient, serverVars
<1>7. Streams'
  BY <1>5, <1>6 DEF ConnectionInv, Streams
<1>8. TypeOK'
  BY <1>1, <1>4 DEF TypeOK, send_message_to_server, serverVars, keyVars
<1>9. Idle' /\ ShownInOrder' /\ ServedInOrder'
  BY DEF ConnectionInv, send_message_to_server, Idle, ShownInOrder, ServedInOrder, serverVars, keyVars
<1> QED
  BY <1>7, <1>8, <1>9 DEF ConnectionInv

LEMMA SkipWriteInv == ConnectionInv /\ SkipWrite => ConnectionInv'
<1> SUFFICES ASSUME ConnectionInv, SkipWrite PROVE ConnectionInv'
  OBVIOUS
<1>1. TypeOK'
  BY DEF ConnectionInv, TypeOK, SkipWrite, clientVars, keyVars
<1>2. UNCHANGED <<ToClient, ToServer, shown, queued, served, asked>>
  BY DEF SkipWrite, ToClient, ToServer, clientVars
<1>3. Streams' /\ ShownInOrder' /\ ServedInOrder'
  BY <1>2 DEF ConnectionInv, Streams, ShownInOrder, ServedInOrder
<1>4. Idle'
  BY DEF ConnectionInv, Idle, SkipWrite, clientVars, keyVars
<1> QED
  BY <1>1, <1>3, <1>4 DEF ConnectionInv

LEMMA PressInv == ASSUME NEW k \in Keys, ConnectionInv, Press(k) PROVE ConnectionInv'
<1>1. TypeOK'
  BY DEF ConnectionInv, TypeOK, Press, serverVars, clientVars
<1>2. UNCHANGED <<ToClient, ToServer, shown, queued, served, asked>>
  BY DEF Press, ToClient, ToServer, serverVars, clientVars
<1>3. Streams' /\ ShownInOrder' /\ ServedInOrder'
  BY <1>2 DEF ConnectionInv, Streams, ShownInOrder, ServedInOrder
<1>4. Idle'
  <2>1. tty' # <<>> /\ client' = client /\ out_msg_buf' = out_msg_buf
    <3>1. tty \in Seq(Keys) /\ tty' = Append(tty, k)
      BY DEF ConnectionInv, TypeOK, Press
    <3>2. tty' # <<>>
      BY <3>1, AppendProperties
    <3> QED
      BY <3>2 DEF Press, clientVars
  <2> QED
    BY <2>1 DEF ConnectionInv, Idle
<1> QED
  BY <1>1, <1>3, <1>4 DEF ConnectionInv

\* The requests that a line brings on continue the stream to the server.
LEMMA RequestsCarry ==
    ASSUME NEW s \in Seq(Byte), NEW first \in Nat, asked \in Nat,
           Carries(s, first, asked), NEW n \in 0 .. 2
    PROVE  /\ Requests(n) \in Seq(Byte)
           /\ Carries(s \o Requests(n), first, asked + n)
<1> DEFINE m1 == Bytes(asked + 1)
           m2 == Bytes(asked + 2)
<1>1. m1 \in Seq(Byte) /\ m2 \in Seq(Byte)
  BY BytesType
<1>2. Carries(s \o m1, first, asked + 1)
  BY CarriesMore
<1>3. Carries((s \o m1) \o m2, first, asked + 2)
  <2>1. s \o m1 \in Seq(Byte)
    BY <1>1, BytesConcat
  <2>2. asked + 1 \in Nat /\ (asked + 1) + 1 = asked + 2
    OBVIOUS
  <2> HIDE DEF m1
  <2>3. Carries((s \o m1) \o Bytes((asked + 1) + 1), first, (asked + 1) + 1)
    BY <2>1, <2>2, <1>2, CarriesMore
  <2> QED
    BY <2>2, <2>3
<1> HIDE DEF m1, m2
<1>4. CASE n = 0
  <2>1. Requests(n) = <<>> /\ s \o <<>> = s
    BY <1>4, ConcatEmptySeq DEF Requests
  <2> QED
    BY <2>1, <1>4
<1>5. CASE n = 1
  <2>1. Requests(n) = m1
    BY <1>5 DEF Requests, m1
  <2> QED
    BY <2>1, <1>1, <1>2, <1>5
<1>6. CASE n = 2
  <2>1. Requests(n) = m1 \o m2
    BY <1>6 DEF Requests, m1, m2
  <2>2. (s \o m1) \o m2 = s \o (m1 \o m2)
    BY <1>1, BytesAssoc
  <2>3. m1 \o m2 \in Seq(Byte)
    BY <1>1, BytesConcat
  <2> QED
    BY <2>1, <2>2, <2>3, <1>3, <1>6
<1> QED
  BY <1>4, <1>5, <1>6

\* getchar() finds a key, and leaves keys.
LEMMA GetcharKeys ==
    ASSUME TypeOK, tty # <<>>, getchar
    PROVE  stdio' \in Seq(Keys) /\ tty' \in Seq(Keys) /\ UNCHANGED pressed
<1>1. Buffered \in Seq(Keys) /\ Buffered # <<>>
  BY DEF TypeOK, Buffered
<1>2. Tail(Buffered) \in Seq(Keys)
  BY <1>1, HeadTailProperties
<1> QED
  BY <1>2 DEF TypeOK, getchar

LEMMA handle_user_inputInv == ConnectionInv /\ handle_user_input => ConnectionInv'
<1> SUFFICES ASSUME ConnectionInv, handle_user_input PROVE ConnectionInv'
  OBVIOUS
<1>1. TypeOK /\ Idle /\ client = "key" /\ out_msg_buf = <<>> /\ tty # <<>>
  BY DEF ConnectionInv, Idle, handle_user_input
<1>2. stdio' \in Seq(Keys) /\ tty' \in Seq(Keys) /\ UNCHANGED pressed
  BY <1>1, GetcharKeys DEF handle_user_input
<1>3. PICK requests \in 0 .. 2 :
         /\ out_msg_buf' = Requests(requests)
         /\ asked' = asked + requests
         /\ line' \in 0 .. LineSize - 1
         /\ client' = IF requests = 0 THEN "socket" ELSE "writing"
  <2> DEFINE k == Head(Buffered)
             n == LineAfter(k)
  <2>1. asked \in Nat /\ line \in 0 .. LineSize - 1 /\ LineSize \in Nat \ {0}
    BY <1>1, SizesAssumption DEF TypeOK
  <2>2. n \in 0 .. LineSize
    BY <2>1 DEF LineAfter
  <2>3. CASE ~Complete(k, n) /\ line' = n /\ client' = "socket" /\ UNCHANGED <<out_msg_buf, asked>>
    <3>1. line' \in 0 .. LineSize - 1
      BY <2>1, <2>2, <2>3 DEF Complete
    <3>2. Requests(0) = <<>> /\ asked' = asked + 0
      BY <2>1, <2>3 DEF Requests
    <3>3. out_msg_buf' = Requests(0) /\ client' = "socket"
      BY <2>3, <3>2, <1>1
    <3> QED
      BY <3>1, <3>2, <3>3
  <2>4. CASE /\ Complete(k, n) /\ line' = 0
             /\ \E requests \in IF k = "newline" /\ n <= 1 THEN {0} ELSE 0 .. 2 :
                   /\ out_msg_buf' = Requests(requests)
                   /\ asked' = asked + requests
                   /\ client' = IF requests = 0 THEN "socket" ELSE "writing"
    <3>1. line' \in 0 .. LineSize - 1
      BY <2>1, <2>4
    <3> QED
      BY <3>1, <2>4
  <2> QED
    BY <2>3, <2>4 DEF handle_user_input
<1>4. Carries(ToServer', Len(served), asked') /\ out_msg_buf' \in Seq(Byte)
  <2> DEFINE b == in_buf \o up
  <2>1. in_buf \in Seq(Byte) /\ up \in Seq(Byte) /\ asked \in Nat /\ Len(served) \in Nat
    BY <1>1 DEF TypeOK
  <2>2. b \in Seq(Byte) /\ b \o <<>> = b
    BY <2>1, BytesConcat, ConcatEmptySeq
  <2>3. ToServer = b \o <<>> /\ ToServer' = b \o Requests(requests)
    BY <1>1, <1>3 DEF ToServer, handle_user_input, serverVars
  <2>4. Carries(b, Len(served), asked)
    BY <2>2, <2>3 DEF ConnectionInv, Streams
  <2> HIDE DEF b
  <2> QED
    BY <2>1, <2>2, <2>3, <2>4, <1>3, RequestsCarry
<1>5. TypeOK'
  <2>1. asked' \in Nat /\ client' \in {"socket", "key", "writing"}
    BY <1>1, <1>3 DEF TypeOK
  <2> QED
    BY <2>1, <1>1, <1>2, <1>3, <1>4 DEF TypeOK, handle_user_input, serverVars
<1>6. UNCHANGED <<ToClient, shown, queued, served>>
  BY DEF handle_user_input, ToClient, serverVars
<1>7. Streams' /\ ShownInOrder' /\ ServedInOrder'
  BY <1>4, <1>6 DEF ConnectionInv, Streams, ShownInOrder, ServedInOrder
<1>8. Idle'
  BY <1>3 DEF Idle, Requests
<1> QED
  BY <1>5, <1>7, <1>8 DEF ConnectionInv

LEMMA NextInv == ConnectionInv /\ [Next]_vars => ConnectionInv'
<1> SUFFICES ASSUME ConnectionInv, [Next]_vars PROVE ConnectionInv'
  OBVIOUS
<1>1. CASE Queue
  BY <1>1, QueueInv
<1>2. CASE ServerReads
  BY <1>2, ServerReadsInv
<1>3. CASE SkipWrite
  BY <1>3, SkipWriteInv
<1>4. CASE ServerWrites
  BY <1>4, ServerWritesInv
<1>5. CASE handle_server_message
  BY <1>5, handle_server_messageInv
<1>6. CASE handle_user_input
  BY <1>6, handle_user_inputInv
<1>7. CASE send_message_to_server
  BY <1>7, send_message_to_serverInv
<1>8. CASE \E k \in Keys : Press(k)
  BY <1>8, PressInv
<1>9. CASE UNCHANGED vars
  BY <1>9 DEF vars, serverVars, clientVars, keyVars, ConnectionInv, TypeOK, Streams,
              ToClient, ToServer, Idle, ShownInOrder, ServedInOrder
<1> QED
  BY <1>1, <1>2, <1>3, <1>4, <1>5, <1>6, <1>7, <1>8, <1>9 DEF Next, Server, Client

\* The inductive invariant holds of every connection, whatever the sizes are.
THEOREM ConnectionInvariant == Spec => []ConnectionInv
<1>1. Init => ConnectionInv
  BY InitInv
<1>2. ConnectionInv /\ [Next]_vars => ConnectionInv'
  BY NextInv
<1> QED
  BY <1>1, <1>2, PTL DEF Spec

(***************************************************************************)
(* Types; no buffer of the client's or of a message in the making is       *)
(* written past its end, for every size of them.                           *)
(***************************************************************************)
THEOREM TypeCorrect == Spec => []TypeOK
<1>1. ConnectionInv => TypeOK
  BY DEF ConnectionInv
<1> QED
  BY <1>1, ConnectionInvariant, PTL

(***************************************************************************)
(* However the stream is split, the client displays the messages queued    *)
(* for it whole, each once, in order (client.c:434-452, server.c:456-470). *)
(***************************************************************************)
THEOREM ClientShowsInOrder == Spec => []ShownInOrder
<1>1. ConnectionInv => ShownInOrder
  BY DEF ConnectionInv
<1> QED
  BY <1>1, ConnectionInvariant, PTL

(***************************************************************************)
(* However the stream is split, the server serves the requests of a client *)
(* whole, each once, in order (client.c:629-639, server.c:302-341).        *)
(***************************************************************************)
THEOREM ServerServesInOrder == Spec => []ServedInOrder
<1>1. ConnectionInv => ServedInOrder
  BY DEF ConnectionInv
<1> QED
  BY <1>1, ConnectionInvariant, PTL

(***************************************************************************)
(* What OutBufFits needs: a test that is no larger than the array.  The    *)
(* code's is 16728 against 16384 (server.c:40, entities.h:57).             *)
(***************************************************************************)
THEOREM SmallTestFits ==
    ASSUME OutTest <= OutArray
    PROVE  Spec => []OutBufFits
<1>1. Init => OutBufFits
  BY SizesAssumption DEF Init, OutBufFits
<1>2. ConnectionInv /\ OutBufFits /\ [Next]_vars => OutBufFits'
  <2> SUFFICES ASSUME ConnectionInv, OutBufFits, [Next]_vars PROVE OutBufFits'
    OBVIOUS
  <2>1. out_buf \in Seq(Byte) /\ queued \in Nat
    BY DEF ConnectionInv, TypeOK
  <2>2. CASE Queue
    <3>1. Bytes(queued + 1) \in Seq(Byte) /\ Len(Bytes(queued + 1)) = MsgSize
      BY <2>1, BytesType
    <3>2. Len(out_buf') = Len(out_buf) + MsgSize
      BY <3>1, <2>1, <2>2, BytesConcat DEF Queue
    <3>3. Len(out_buf) + MsgSize < OutTest
      BY <2>2 DEF Queue
    <3>4. Len(out_buf) \in Nat
      BY <2>1
    <3> QED
      BY <3>2, <3>3, <3>4, SizesAssumption DEF OutBufFits
  <2>3. CASE ServerWrites
    <3>1. PICK n \in 1 .. Len(out_buf) : out_buf' = SubSeq(out_buf, n + 1, Len(out_buf))
      BY <2>3 DEF ServerWrites, Moves
    <3>2. Len(out_buf') <= Len(out_buf) /\ Len(out_buf') \in Nat /\ Len(out_buf) \in Nat
      BY <3>1, <2>1
    <3> QED
      BY <3>2, SizesAssumption DEF OutBufFits
  <2>4. CASE UNCHANGED out_buf
    BY <2>4 DEF OutBufFits
  <2> QED
    BY <2>2, <2>3, <2>4 DEF Next, Server, Client, ServerReads, SkipWrite, Press, vars,
       handle_server_message, handle_user_input, send_message_to_server, serverVars
<1> QED
  BY <1>1, <1>2, ConnectionInvariant, PTL DEF Spec
=============================================================================
