---------------------------- MODULE TransportsProofs ----------------------------
(***************************************************************************)
(* Proofs about Transports, for any workers, messages, scripts and size of *)
(* a byte.                                                                 *)
(***************************************************************************)
EXTENDS Transports, WellFoundedInduction, SequenceTheorems, TLAPS

(***************************************************************************)
(* Sequences.                                                              *)
(***************************************************************************)
\* equal concatenations whose first parts are equally long
LEMMA SameParts ==
    ASSUME NEW S, NEW a \in Seq(S), NEW b \in Seq(S), NEW c \in Seq(S), NEW d \in Seq(S),
           Len(a) = Len(c), a \o b = c \o d
    PROVE  a = c /\ b = d
<1>1. /\ \A i \in 1 .. Len(a) + Len(b) :
           (a \o b)[i] = IF i <= Len(a) THEN a[i] ELSE b[i - Len(a)]
      /\ Len(a \o b) = Len(a) + Len(b)
  BY ConcatProperties
<1>2. /\ \A i \in 1 .. Len(c) + Len(d) :
           (c \o d)[i] = IF i <= Len(c) THEN c[i] ELSE d[i - Len(c)]
      /\ Len(c \o d) = Len(c) + Len(d)
  BY ConcatProperties
<1>3. Len(a) \in Nat /\ Len(b) \in Nat /\ Len(c) \in Nat /\ Len(d) \in Nat
  BY LenProperties
<1>4. Len(b) = Len(d)
  BY <1>1, <1>2, <1>3
<1>5. ASSUME NEW i \in 1 .. Len(a) PROVE a[i] = c[i]
  <2>1. i \in 1 .. Len(a) + Len(b) /\ i <= Len(a)
    BY <1>3
  <2> QED BY <1>1, <1>2, <1>4, <2>1
<1>6. ASSUME NEW j \in 1 .. Len(b) PROVE b[j] = d[j]
  <2> DEFINE i == Len(a) + j
  <2>1. i \in 1 .. Len(a) + Len(b) /\ ~(i <= Len(a)) /\ i - Len(a) = j
    BY <1>3
  <2> HIDE DEF i
  <2> QED BY <1>1, <1>2, <1>4, <2>1
<1> QED BY <1>4, <1>5, <1>6, SeqEqual

\* a sequence cut in two
LEMMA CutInTwo ==
    ASSUME NEW S, NEW s \in Seq(S), NEW n \in 0 .. Len(s)
    PROVE  /\ SubSeq(s, 1, n) \in Seq(S) /\ Drop(s, n) \in Seq(S)
           /\ Len(SubSeq(s, 1, n)) = n /\ Len(Drop(s, n)) = Len(s) - n
           /\ s = SubSeq(s, 1, n) \o Drop(s, n)
<1>1. Len(s) \in Nat /\ n \in Nat /\ \A i \in 1 .. Len(s) : s[i] \in S
  BY LenProperties, ElementOfSeq
<1>2. SubSeq(s, 1, n) \in Seq(S) /\ Len(SubSeq(s, 1, n)) = n
  <2>1. /\ SubSeq(s, 1, n) \in Seq(S)
        /\ Len(SubSeq(s, 1, n)) = IF 1 <= n THEN n - 1 + 1 ELSE 0
    BY <1>1, SubSeqProperties
  <2> QED BY <1>1, <2>1
<1>3. SubSeq(s, n + 1, Len(s)) \in Seq(S)
      /\ Len(SubSeq(s, n + 1, Len(s))) = Len(s) - n
  <2> DEFINE m == n + 1
  <2>1. m \in Int /\ Len(s) \in Int /\ \A i \in m .. Len(s) : s[i] \in S
    BY <1>1
  <2>a. m - 1 = n /\ Len(s) >= n
    BY <1>1
  <2> HIDE DEF m
  <2>2. /\ SubSeq(s, m, Len(s)) \in Seq(S)
        /\ Len(SubSeq(s, m, Len(s))) = IF m <= Len(s) THEN Len(s) - m + 1 ELSE 0
    BY <2>1, SubSeqProperties
  <2>3. Len(SubSeq(s, m, Len(s))) = Len(s) - (m - 1)
    BY <1>1, <2>1, <2>2, <2>a
  <2>4. SubSeq(s, m, Len(s)) \in Seq(S) /\ Len(SubSeq(s, m, Len(s))) = Len(s) - n
    BY <2>2, <2>3, <2>a
  <2> QED BY <2>4 DEF m
<1>4. SubSeq(s, 1, n) \o SubSeq(s, n + 1, Len(s)) = SubSeq(s, 1, Len(s))
  <2>1. 1 \in 1 .. Len(s) + 1 /\ n \in 1 - 1 .. Len(s) /\ Len(s) \in n .. Len(s)
    BY <1>1
  <2> QED BY <2>1, ConcatAdjacentSubSeq
<1> QED BY <1>2, <1>3, <1>4, SubSeqFull DEF Drop

LEMMA OneElement ==
    ASSUME NEW S, NEW e \in S
    PROVE  <<e>> \in Seq(S) /\ Len(<<e>>) = 1 /\ <<e>>[1] = e
OBVIOUS
-----------------------------------------------------------------------------
(***************************************************************************)
(* Frames.                                                                 *)
(***************************************************************************)
Byte == 0 .. Base - 1

LEMMA Bytes == Base \in Nat \ {0} /\ \A m \in Message : m \in Seq(Byte)
BY ByteAssumption DEF Byte

LEMMA Digits ==
    ASSUME NEW m \in Message
    PROVE  /\ Len(m) \in 0 .. Base * Base - 1
           /\ Len(m) \div Base \in Byte /\ Len(m) % Base \in Byte
           /\ Base * (Len(m) \div Base) + (Len(m) % Base) = Len(m)
<1> DEFINE n == Len(m)
           q == n \div Base
           r == n % Base
<1>1. Base \in Nat \ {0} /\ n \in Nat /\ n < Base * Base
  BY Bytes, FrameAssumption, LenProperties
<1> HIDE DEF n
<1>2. q \in Nat /\ r \in 0 .. Base - 1 /\ n = Base * q + r
  BY <1>1
<1> HIDE DEF q, r
<1>3. q < Base
  <2> SUFFICES ASSUME q >= Base PROVE FALSE
    BY <1>1, <1>2
  <2>1. PICK d \in Nat : q = Base + d
    BY <1>1, <1>2
  <2>2. Base * q = Base * Base + Base * d /\ Base * d \in Nat
    BY <1>1, <2>1
  <2> QED BY <1>1, <1>2, <2>2
<1>4. q \in Byte /\ r \in Byte /\ Base * q + r = n /\ n \in 0 .. Base * Base - 1
  BY <1>1, <1>2, <1>3 DEF Byte
<1> QED BY <1>4 DEF n, q, r

\* a frame is the two digits of the message's length, and the message
LEMMA FrameParts ==
    ASSUME NEW m \in Message
    PROVE  /\ <<Len(m) \div Base, Len(m) % Base>> \in Seq(Byte)
           /\ Len(<<Len(m) \div Base, Len(m) % Base>>) = 2
           /\ m \in Seq(Byte) /\ Frame(m) \in Seq(Byte)
           /\ Frame(m) = <<Len(m) \div Base, Len(m) % Base>> \o m
           /\ Len(Frame(m)) = Len(m) + 2 /\ Len(m) \in Nat
<1> DEFINE h == <<Len(m) \div Base, Len(m) % Base>>
<1>1. h \in Seq(Byte) /\ Len(h) = 2
  BY Digits
<1>2. m \in Seq(Byte) /\ Len(m) \in Nat
  BY Bytes, LenProperties
<1> HIDE DEF h
<1>3. h \o m \in Seq(Byte) /\ Len(h \o m) = Len(h) + Len(m)
  BY <1>1, <1>2, ConcatProperties
<1> QED BY <1>1, <1>2, <1>3 DEF Frame, h
-----------------------------------------------------------------------------
(***************************************************************************)
(* Streams.  Stream(s) is the value at Len(s) of a recursive function; it  *)
(* exists and is unique, which an induction on a least counterexample      *)
(* shows, and may be extended at both ends.                                *)
(***************************************************************************)
LEMMA LeastNumber ==
    ASSUME NEW S \in SUBSET Nat, S # {}
    PROVE  \E n \in S : \A m \in S : n <= m
<1> DEFINE R == OpToRel(<, Nat)
<1>1. IsWellFoundedOn(R, Nat)
  BY NatLessThanWellFounded
<1>2. PICK n \in S : \A m \in S : ~(<<m, n>> \in R)
  <2> HIDE DEF R
  <2> QED BY <1>1, WFMin
<1>3. ASSUME NEW m \in S PROVE n <= m
  <2>1. m \in Nat /\ n \in Nat
    OBVIOUS
  <2>2. ~(m < n)
    BY <1>2, <2>1 DEF OpToRel
  <2> QED BY <2>1, <2>2
<1> QED BY <1>3

\* f holds the streams of the first k messages of s, for k up to n
Streams(f, s, n) ==
    f = [k \in 0 .. n |-> IF k = 0 THEN <<>> ELSE f[k - 1] \o Frame(s[k])]

LEMMA StreamsAt ==
    ASSUME NEW n \in Nat, NEW s, NEW f, Streams(f, s, n)
    PROVE  /\ f[0] = <<>>
           /\ \A k \in 0 .. n - 1 : f[k + 1] = f[k] \o Frame(s[k + 1])
<1>1. f[0] = <<>>
  BY DEF Streams
<1>2. ASSUME NEW k \in 0 .. n - 1
      PROVE  f[k + 1] = f[k] \o Frame(s[k + 1])
  <2> DEFINE j == k + 1
  <2>1. j \in 0 .. n /\ j # 0 /\ j - 1 = k
    OBVIOUS
  <2> HIDE DEF j
  <2>2. f[j] = f[j - 1] \o Frame(s[j])
    BY <2>1 DEF Streams
  <2>3. f[j] = f[k] \o Frame(s[j])
    BY <2>1, <2>2
  <2> QED BY <2>3 DEF j
<1> QED BY <1>1, <1>2

\* a function with these values is one
LEMMA StreamsBy ==
    ASSUME NEW n \in Nat, NEW s, NEW T, NEW f \in [0 .. n -> T], f[0] = <<>>,
           \A k \in 0 .. n - 1 : f[k + 1] = f[k] \o Frame(s[k + 1])
    PROVE  Streams(f, s, n)
<1>1. ASSUME NEW j \in 0 .. n
      PROVE  f[j] = IF j = 0 THEN <<>> ELSE f[j - 1] \o Frame(s[j])
  <2>1. CASE j = 0
    BY <2>1
  <2>2. CASE j # 0
    <3>1. PICK k \in 0 .. n - 1 : j = k + 1
      BY <2>2
    <3>2. j - 1 = k /\ f[k + 1] = f[k] \o Frame(s[k + 1])
      BY <3>1
    <3> QED BY <2>2, <3>1, <3>2
  <2> QED BY <2>1, <2>2
<1> QED BY <1>1 DEF Streams

LEMMA StreamsExist ==
    ASSUME NEW s \in Seq(Message), NEW n \in 0 .. Len(s)
    PROVE  \E f \in [0 .. n -> Seq(Byte)] : Streams(f, s, n)
<1> DEFINE Good(k) == \E f \in [0 .. k -> Seq(Byte)] : Streams(f, s, k)
           Bad     == {k \in 0 .. Len(s) : ~Good(k)}
<1>0. Len(s) \in Nat /\ \A k \in 1 .. Len(s) : s[k] \in Message
  BY LenProperties, ElementOfSeq
<1>1. Good(0)
  <2> DEFINE f == [k \in 0 .. 0 |-> <<>>]
  <2>1. f \in [0 .. 0 -> Seq(Byte)] /\ f[0] = <<>>
    BY EmptySeq
  <2>2. \A k \in 0 .. 0 - 1 : f[k + 1] = f[k] \o Frame(s[k + 1])
    OBVIOUS
  <2> HIDE DEF f
  <2>3. Streams(f, s, 0)
    BY <2>1, <2>2, StreamsBy
  <2> QED BY <2>1, <2>3
<1>2. ASSUME NEW k \in 0 .. Len(s) - 1, Good(k)
      PROVE  Good(k + 1)
  <2>1. PICK f \in [0 .. k -> Seq(Byte)] : Streams(f, s, k)
    BY <1>2
  <2>2. k \in Nat /\ k + 1 \in 1 .. Len(s) /\ s[k + 1] \in Message
    BY <1>0
  <2> DEFINE g == [j \in 0 .. k + 1 |-> IF j <= k THEN f[j] ELSE f[k] \o Frame(s[k + 1])]
  <2>3. f[0] = <<>> /\ \A j \in 0 .. k - 1 : f[j + 1] = f[j] \o Frame(s[j + 1])
    BY <2>1, <2>2, StreamsAt
  <2>4. f[k] \o Frame(s[k + 1]) \in Seq(Byte)
    <3>1. Frame(s[k + 1]) \in Seq(Byte)
      BY <2>2, FrameParts
    <3>2. f[k] \in Seq(Byte)
      BY <2>2
    <3> QED BY <3>1, <3>2, ConcatProperties
  <2>5. g \in [0 .. k + 1 -> Seq(Byte)] /\ g[0] = <<>>
    BY <2>2, <2>3, <2>4
  <2>6. ASSUME NEW j \in 0 .. (k + 1) - 1 PROVE g[j + 1] = g[j] \o Frame(s[j + 1])
    <3>1. CASE j = k
      <4>1. g[k + 1] = f[k] \o Frame(s[k + 1]) /\ g[k] = f[k]
        BY <2>2
      <4> HIDE DEF g
      <4> QED BY <3>1, <4>1
    <3>2. CASE j # k
      <4>1. j \in 0 .. k - 1 /\ j + 1 \in 0 .. k + 1 /\ j + 1 <= k /\ j <= k
        BY <2>2, <3>2
      <4>2. g[j + 1] = f[j + 1] /\ g[j] = f[j]
        BY <4>1, <2>2
      <4> HIDE DEF g
      <4> QED BY <2>3, <4>1, <4>2
    <3> QED BY <3>1, <3>2
  <2> HIDE DEF g
  <2>7. Streams(g, s, k + 1)
    <3> DEFINE n1 == k + 1
    <3>1. n1 \in Nat /\ g \in [0 .. n1 -> Seq(Byte)]
      BY <2>2, <2>5
    <3>2. \A j \in 0 .. n1 - 1 : g[j + 1] = g[j] \o Frame(s[j + 1])
      BY <2>6
    <3> HIDE DEF n1
    <3>3. Streams(g, s, n1)
      BY <2>5, <3>1, <3>2, StreamsBy
    <3> QED BY <3>3 DEF n1
  <2> QED BY <2>5, <2>7
<1> HIDE DEF Good
<1>3. Bad = {}
  <2> SUFFICES ASSUME Bad # {} PROVE FALSE
    OBVIOUS
  <2>1. PICK k \in Bad : \A j \in Bad : k <= j
    <3>1. Bad \in SUBSET Nat
      BY <1>0
    <3> HIDE DEF Bad
    <3> QED BY <3>1, LeastNumber
  <2>2. k # 0 /\ k \in 0 .. Len(s) /\ ~Good(k)
    BY <1>1, <2>1
  <2>3. PICK j \in 0 .. Len(s) - 1 : k = j + 1
    BY <1>0, <2>2
  <2>4. j \notin Bad
    <3>1. ~(k <= j)
      BY <2>3
    <3> HIDE DEF Bad
    <3> QED BY <2>1, <3>1
  <2>5. Good(j)
    BY <1>0, <2>4
  <2>6. Good(j + 1)
    BY <1>2, <2>5
  <2> QED BY <2>2, <2>3, <2>6
<1>4. Good(n)
  BY <1>3
<1> QED BY <1>4 DEF Good

LEMMA StreamsUnique ==
    ASSUME NEW s, NEW n \in Nat, NEW f, NEW g, Streams(f, s, n), Streams(g, s, n)
    PROVE  f[n] = g[n]
<1> DEFINE Bad == {k \in 0 .. n : f[k] # g[k]}
<1>1. f[0] = <<>> /\ \A k \in 0 .. n - 1 : f[k + 1] = f[k] \o Frame(s[k + 1])
  BY StreamsAt
<1>2. g[0] = <<>> /\ \A k \in 0 .. n - 1 : g[k + 1] = g[k] \o Frame(s[k + 1])
  BY StreamsAt
<1>3. Bad = {}
  <2> SUFFICES ASSUME Bad # {} PROVE FALSE
    OBVIOUS
  <2>1. PICK k \in Bad : \A j \in Bad : k <= j
    <3>1. Bad \in SUBSET Nat
      OBVIOUS
    <3> HIDE DEF Bad
    <3> QED BY <3>1, LeastNumber
  <2>2. k # 0 /\ k \in 0 .. n /\ f[k] # g[k]
    BY <1>1, <1>2, <2>1
  <2>3. PICK j \in 0 .. n - 1 : k = j + 1
    BY <2>2
  <2>4. j \notin Bad
    <3>1. ~(k <= j)
      BY <2>3
    <3> HIDE DEF Bad
    <3> QED BY <2>1, <3>1
  <2>5. f[j] = g[j]
    BY <2>3, <2>4
  <2> QED BY <1>1, <1>2, <2>2, <2>3, <2>5
<1> QED BY <1>3

LEMMA StreamIs ==
    ASSUME NEW s \in Seq(Message), NEW f, Streams(f, s, Len(s))
    PROVE  Stream(s) = f[Len(s)] /\ Stream(s) \in Seq(Byte)
<1>1. Len(s) \in Nat
  BY LenProperties
<1>2. PICK g \in [0 .. Len(s) -> Seq(Byte)] : Streams(g, s, Len(s))
  BY <1>1, StreamsExist
<1> DEFINE c == CHOOSE h : h = [k \in 0 .. Len(s) |->
                                  IF k = 0 THEN <<>> ELSE h[k - 1] \o Frame(s[k])]
<1>3. c = [k \in 0 .. Len(s) |-> IF k = 0 THEN <<>> ELSE c[k - 1] \o Frame(s[k])]
  BY <1>2 DEF Streams
<1>4. Stream(s) = c[Len(s)]
  BY DEF Stream
<1> HIDE DEF c
<1>5. Streams(c, s, Len(s))
  BY <1>3 DEF Streams
<1>6. c[Len(s)] = f[Len(s)] /\ c[Len(s)] = g[Len(s)]
  BY <1>1, <1>2, <1>5, StreamsUnique
<1> QED BY <1>1, <1>2, <1>4, <1>6

\* what the recursive function of a sequence is
LEMMA StreamFunction ==
    ASSUME NEW s \in Seq(Message)
    PROVE  /\ Len(s) \in Nat /\ Stream(s) \in Seq(Byte)
           /\ \E f \in [0 .. Len(s) -> Seq(Byte)] :
                /\ Streams(f, s, Len(s)) /\ Stream(s) = f[Len(s)]
                /\ f[0] = <<>>
                /\ \A k \in 0 .. Len(s) - 1 : f[k + 1] = f[k] \o Frame(s[k + 1])
<1>1. Len(s) \in Nat /\ Len(s) \in 0 .. Len(s)
  BY LenProperties
<1>2. PICK f \in [0 .. Len(s) -> Seq(Byte)] : Streams(f, s, Len(s))
  BY <1>1, StreamsExist
<1>3. Stream(s) = f[Len(s)] /\ Stream(s) \in Seq(Byte)
  BY <1>2, StreamIs
<1>4. f[0] = <<>> /\ \A k \in 0 .. Len(s) - 1 : f[k + 1] = f[k] \o Frame(s[k + 1])
  BY <1>1, <1>2, StreamsAt
<1> QED BY <1>1, <1>2, <1>3, <1>4

LEMMA StreamOfNone == Stream(<<>>) = <<>>
<1> DEFINE s == <<>>
<1>1. s \in Seq(Message) /\ Len(s) = 0
  BY EmptySeq
<1> HIDE DEF s
<1>2. Stream(s) = <<>>
  BY <1>1, StreamFunction
<1> QED BY <1>2 DEF s

\* a message more at the end
LEMMA StreamOfAppend ==
    ASSUME NEW s \in Seq(Message), NEW m \in Message
    PROVE  Stream(Append(s, m)) = Stream(s) \o Frame(m)
<1> DEFINE t == Append(s, m)
           n == Len(s)
<1>1. /\ t \in Seq(Message) /\ Len(t) = n + 1 /\ n \in Nat
      /\ \A i \in 1 .. n : t[i] = s[i]
      /\ t[n + 1] = m
  BY AppendProperties, LenProperties
<1> HIDE DEF t, n
<1>2. PICK f \in [0 .. n + 1 -> Seq(Byte)] :
         /\ Streams(f, t, n + 1) /\ Stream(t) = f[n + 1] /\ f[0] = <<>>
         /\ \A k \in 0 .. (n + 1) - 1 : f[k + 1] = f[k] \o Frame(t[k + 1])
  <2>1. \E f \in [0 .. Len(t) -> Seq(Byte)] :
           /\ Streams(f, t, Len(t)) /\ Stream(t) = f[Len(t)] /\ f[0] = <<>>
           /\ \A k \in 0 .. Len(t) - 1 : f[k + 1] = f[k] \o Frame(t[k + 1])
    BY <1>1, StreamFunction
  <2> DEFINE l == Len(t)
  <2>2. l = n + 1
    BY <1>1
  <2>3. \E f \in [0 .. l -> Seq(Byte)] :
           /\ Streams(f, t, l) /\ Stream(t) = f[l] /\ f[0] = <<>>
           /\ \A k \in 0 .. l - 1 : f[k + 1] = f[k] \o Frame(t[k + 1])
    BY <2>1
  <2> HIDE DEF l
  <2> QED BY <2>2, <2>3
<1>3. f[0] = <<>> /\ \A k \in 0 .. n : f[k + 1] = f[k] \o Frame(t[k + 1])
  <2> DEFINE n1 == (n + 1) - 1
  <2>1. n1 = n
    BY <1>1
  <2>2. f[0] = <<>> /\ \A k \in 0 .. n1 : f[k + 1] = f[k] \o Frame(t[k + 1])
    BY <1>2
  <2> HIDE DEF n1
  <2> QED BY <2>1, <2>2
<1>4. Stream(t) = f[n + 1]
  BY <1>2
<1> DEFINE g == [k \in 0 .. n |-> f[k]]
<1>5. g \in [0 .. n -> Seq(Byte)] /\ g[0] = <<>> /\ g[n] = f[n]
  BY <1>1, <1>3
<1>6. ASSUME NEW k \in 0 .. n - 1 PROVE g[k + 1] = g[k] \o Frame(s[k + 1])
  <2>1. /\ k \in 0 .. n /\ k + 1 \in 0 .. n /\ k + 1 \in 1 .. n
    BY <1>1
  <2>2. g[k + 1] = f[k + 1] /\ g[k] = f[k] /\ t[k + 1] = s[k + 1]
    BY <1>1, <2>1
  <2> HIDE DEF g
  <2> QED BY <1>3, <2>1, <2>2
<1> HIDE DEF g
<1>7. Streams(g, s, n)
  BY <1>1, <1>5, <1>6, StreamsBy
<1>8. Stream(s) = f[n]
  BY <1>5, <1>7, StreamIs DEF n
<1>9. f[n + 1] = f[n] \o Frame(m)
  <2>1. n \in 0 .. n
    BY <1>1
  <2>2. f[n + 1] = f[n] \o Frame(t[n + 1])
    BY <1>3, <2>1
  <2> QED BY <1>1, <2>2
<1> QED BY <1>4, <1>8, <1>9 DEF t

\* a message more at the front
LEMMA StreamOfCons ==
    ASSUME NEW t \in Seq(Message), NEW m \in Message
    PROVE  Stream(<<m>> \o t) = Frame(m) \o Stream(t)
<1> DEFINE s == <<m>> \o t
           n == Len(t)
<1>1. /\ s \in Seq(Message) /\ Len(s) = n + 1 /\ n \in Nat /\ s[1] = m
      /\ \A i \in 1 .. n : s[i + 1] = t[i]
  <2> DEFINE h == <<m>>
  <2>1. h \in Seq(Message) /\ Len(h) = 1 /\ h[1] = m
    OBVIOUS
  <2>2. n \in Nat
    BY LenProperties
  <2> HIDE DEF h
  <2>3. /\ h \o t \in Seq(Message) /\ Len(h \o t) = Len(h) + Len(t)
        /\ \A i \in 1 .. Len(h) + Len(t) :
             (h \o t)[i] = IF i <= Len(h) THEN h[i] ELSE t[i - Len(h)]
    BY <2>1, ConcatProperties
  <2>4. (h \o t)[1] = m
    BY <2>1, <2>2, <2>3
  <2>5. ASSUME NEW i \in 1 .. n PROVE (h \o t)[i + 1] = t[i]
    <3> DEFINE j == i + 1
    <3>1. j \in 1 .. 1 + n /\ ~(j <= 1) /\ j - 1 = i
      BY <2>2
    <3> HIDE DEF j
    <3>2. (h \o t)[j] = t[i]
      BY <2>1, <2>3, <3>1
    <3> QED BY <3>2 DEF j
  <2>6. Len(h \o t) = n + 1
    BY <2>1, <2>2, <2>3
  <2> QED BY <2>2, <2>3, <2>4, <2>5, <2>6 DEF h
<1> HIDE DEF s
<1>2. PICK f \in [0 .. n -> Seq(Byte)] :
         /\ Streams(f, t, n) /\ Stream(t) = f[n] /\ f[0] = <<>>
         /\ \A k \in 0 .. n - 1 : f[k + 1] = f[k] \o Frame(t[k + 1])
  BY StreamFunction
<1> HIDE DEF n
<1>3. f[0] = <<>> /\ \A k \in 0 .. n - 1 : f[k + 1] = f[k] \o Frame(t[k + 1])
  BY <1>2
<1>4. Stream(t) = f[n]
  BY <1>2
<1>5. Frame(m) \in Seq(Byte)
  BY FrameParts
<1> DEFINE g == [k \in 0 .. n + 1 |-> IF k = 0 THEN <<>> ELSE Frame(m) \o f[k - 1]]
<1>6. g \in [0 .. n + 1 -> Seq(Byte)]
  <2>1. ASSUME NEW k \in 0 .. n + 1, k # 0 PROVE Frame(m) \o f[k - 1] \in Seq(Byte)
    <3>1. k - 1 \in 0 .. n
      BY <1>1, <2>1
    <3>2. f[k - 1] \in Seq(Byte)
      BY <3>1
    <3> QED BY <1>5, <3>2, ConcatProperties
  <2> QED BY <2>1, EmptySeq
<1>7. g[0] = <<>> /\ \A k \in 0 .. n : g[k + 1] = Frame(m) \o f[k]
  <2>1. g[0] = <<>>
    BY <1>1
  <2>2. ASSUME NEW k \in 0 .. n PROVE g[k + 1] = Frame(m) \o f[k]
    <3> DEFINE j == k + 1
    <3>1. j \in 0 .. n + 1 /\ j # 0 /\ j - 1 = k
      BY <1>1
    <3> HIDE DEF j
    <3>2. g[j] = Frame(m) \o f[k]
      BY <3>1
    <3> QED BY <3>2 DEF j
  <2> QED BY <2>1, <2>2
<1> HIDE DEF g
<1>8. ASSUME NEW k \in 0 .. n PROVE g[k + 1] = g[k] \o Frame(s[k + 1])
  <2>1. CASE k = 0
    <3>1. 0 \in 0 .. n
      BY <1>1
    <3>2. g[0 + 1] = Frame(m) \o f[0]
      BY <1>7, <3>1
    <3>3. Frame(m) \o <<>> = Frame(m) /\ <<>> \o Frame(m) = Frame(m)
      BY <1>5, ConcatEmptySeq
    <3>4. s[0 + 1] = m
      BY <1>1
    <3> QED BY <1>3, <1>7, <2>1, <3>2, <3>3, <3>4
  <2>2. CASE k # 0
    <3>1. PICK j \in 0 .. n - 1 : k = j + 1
      <4>1. k - 1 \in 0 .. n - 1 /\ k = (k - 1) + 1
        BY <1>1, <2>2
      <4> QED BY <4>1
    <3>a. k \in 1 .. n /\ j \in 0 .. n
      BY <1>1, <2>2, <3>1
    <3>2. /\ g[k + 1] = Frame(m) \o f[k] /\ g[k] = Frame(m) \o f[j]
          /\ f[k] = f[j] \o Frame(t[k]) /\ s[k + 1] = t[k]
      <4>1. g[k + 1] = Frame(m) \o f[k]
        BY <1>7
      <4>2. g[k] = Frame(m) \o f[j]
        BY <1>7, <3>1, <3>a
      <4>3. f[k] = f[j] \o Frame(t[k])
        BY <1>3, <3>1
      <4>4. s[k + 1] = t[k]
        BY <1>1, <3>a
      <4> QED BY <4>1, <4>2, <4>3, <4>4
    <3>3. t[k] \in Message /\ f[j] \in Seq(Byte)
      <4>1. k \in 1 .. n /\ j \in 0 .. n
        BY <1>1, <3>1
      <4>2. t[k] \in Message
        BY <4>1, ElementOfSeq DEF n
      <4> QED BY <4>1, <4>2
    <3>4. Frame(t[k]) \in Seq(Byte)
      BY <3>3, FrameParts
    <3> DEFINE a == Frame(m)
               b == f[j]
               c == Frame(t[k])
    <3>5. a \in Seq(Byte) /\ b \in Seq(Byte) /\ c \in Seq(Byte)
      BY <1>5, <3>3, <3>4
    <3>6. g[k + 1] = a \o f[k] /\ g[k] = a \o b /\ f[k] = b \o c /\ Frame(s[k + 1]) = c
      BY <3>2
    <3> HIDE DEF a, b, c
    <3>7. (a \o b) \o c = a \o (b \o c)
      BY <3>5, ConcatAssociative
    <3> QED BY <3>6, <3>7
  <2> QED BY <2>1, <2>2
<1>9. Streams(g, s, n + 1)
  <2> DEFINE n1 == n + 1
  <2>1. n1 \in Nat /\ g \in [0 .. n1 -> Seq(Byte)]
    BY <1>1, <1>6
  <2>a. n1 - 1 = n
    BY <1>1
  <2>2. \A k \in 0 .. n1 - 1 : g[k + 1] = g[k] \o Frame(s[k + 1])
    <3> HIDE DEF n1
    <3> QED BY <1>8, <2>a
  <2> HIDE DEF n1
  <2>3. Streams(g, s, n1)
    BY <1>7, <2>1, <2>2, StreamsBy
  <2> QED BY <2>3 DEF n1
<1>10. Stream(s) = g[n + 1]
  BY <1>1, <1>9, StreamIs
<1>11. g[n + 1] = Frame(m) \o f[n]
  <2>1. n \in 0 .. n
    BY <1>1
  <2> QED BY <1>7, <2>1
<1> QED BY <1>4, <1>10, <1>11 DEF s
-----------------------------------------------------------------------------
(***************************************************************************)
(* What is left of a script: the messages after the first k of its first n. *)
(***************************************************************************)
LEMMA Left ==
    ASSUME NEW s \in Seq(Message), NEW n \in 0 .. Len(s), NEW k \in 0 .. n
    PROVE  SubSeq(s, k + 1, n) \in Seq(Message) /\ Len(SubSeq(s, k + 1, n)) = n - k
<1>1. Len(s) \in Nat /\ n \in Nat /\ k \in Nat /\ \A i \in 1 .. Len(s) : s[i] \in Message
  BY LenProperties, ElementOfSeq
<1> DEFINE m == k + 1
<1>2. m \in Int /\ n \in Int /\ (\A i \in m .. n : s[i] \in Message) /\ m - 1 = k
  BY <1>1
<1> HIDE DEF m
<1>3. /\ SubSeq(s, m, n) \in Seq(Message)
      /\ Len(SubSeq(s, m, n)) = IF m <= n THEN n - m + 1 ELSE 0
  BY <1>2, SubSeqProperties
<1>4. Len(SubSeq(s, m, n)) = n - k
  BY <1>1, <1>2, <1>3
<1> QED BY <1>3, <1>4 DEF m

LEMMA NoneLeft ==
    ASSUME NEW s \in Seq(Message), NEW n \in 0 .. Len(s)
    PROVE  SubSeq(s, n + 1, n) = <<>>
<1>1. n \in Nat /\ n \in 0 .. n
  BY LenProperties
<1>2. SubSeq(s, n + 1, n) \in Seq(Message) /\ Len(SubSeq(s, n + 1, n)) = n - n
  BY <1>1, Left
<1> QED BY <1>1, <1>2, EmptySeq

\* the first of them
LEMMA FirstLeft ==
    ASSUME NEW s \in Seq(Message), NEW n \in 0 .. Len(s), NEW k \in 0 .. n, k < n
    PROVE  /\ s[k + 1] \in Message
           /\ SubSeq(s, k + 1, n) = <<s[k + 1]>> \o SubSeq(s, (k + 1) + 1, n)
           /\ k + 1 \in 0 .. n
<1>1. Len(s) \in Nat /\ n \in Nat /\ k \in Nat
  BY LenProperties
<1> DEFINE m == k + 1
<1>2. m \in 1 .. Len(s) + 1 /\ m \in m - 1 .. Len(s) /\ n \in m .. Len(s) /\ m \in 1 .. Len(s)
      /\ m \in 0 .. n
  BY <1>1
<1> HIDE DEF m
<1>3. SubSeq(s, m, m) \o SubSeq(s, m + 1, n) = SubSeq(s, m, n)
  BY <1>2, ConcatAdjacentSubSeq
<1>4. s[m] \in Message
  BY <1>2, ElementOfSeq
<1>5. SubSeq(s, m, m) = <<s[m]>>
  <2> DEFINE t == SubSeq(s, m, m)
             u == <<s[m]>>
  <2>1. m \in Int /\ m <= m /\ m - m + 1 = 1 /\ \A i \in m .. m : s[i] \in Message
    BY <1>2, <1>4
  <2>2. /\ t \in Seq(Message) /\ Len(t) = IF m <= m THEN m - m + 1 ELSE 0
        /\ \A i \in 1 .. m - m + 1 : t[i] = s[m + i - 1]
    BY <2>1, SubSeqProperties
  <2>3. u \in Seq(Message) /\ Len(u) = 1 /\ u[1] = s[m]
    BY <1>4, OneElement
  <2> HIDE DEF t, u
  <2>4. Len(t) = 1 /\ t[1] = s[m + 1 - 1] /\ m + 1 - 1 = m
    BY <2>1, <2>2
  <2>5. \A i \in 1 .. Len(t) : t[i] = u[i]
    BY <2>3, <2>4
  <2>6. t = u
    BY <2>2, <2>3, <2>4, <2>5, SeqEqual
  <2> QED BY <2>6 DEF t, u
<1> QED BY <1>2, <1>3, <1>4, <1>5 DEF m

\* one more
LEMMA OneMore ==
    ASSUME NEW s \in Seq(Message), NEW n \in 0 .. Len(s), NEW k \in 0 .. n, n < Len(s)
    PROVE  /\ s[n + 1] \in Message /\ n + 1 \in 0 .. Len(s)
           /\ SubSeq(s, k + 1, n + 1) = Append(SubSeq(s, k + 1, n), s[n + 1])
<1>1. Len(s) \in Nat /\ n \in Nat /\ k \in Nat
  BY LenProperties
<1> DEFINE m == k + 1
           l == n + 1
<1>2. /\ m \in 1 .. Len(s) + 1 /\ n \in m - 1 .. Len(s) /\ l \in n .. Len(s)
      /\ l \in 0 .. Len(s) /\ n \in 0 .. l /\ n < l
  BY <1>1
<1>3. SubSeq(s, m, n) \in Seq(Message)
  BY Left
<1>4. /\ s[n + 1] \in Message
      /\ SubSeq(s, n + 1, l) = <<s[n + 1]>> \o SubSeq(s, (n + 1) + 1, l)
  <2> HIDE DEF l
  <2> QED BY <1>2, FirstLeft
<1>5. SubSeq(s, l + 1, l) = <<>>
  <2> HIDE DEF l
  <2> QED BY <1>2, NoneLeft
<1>6. SubSeq(s, n + 1, l) = <<s[n + 1]>>
  <2>1. <<s[n + 1]>> \in Seq(Message)
    BY <1>4, OneElement
  <2> QED BY <1>4, <1>5, <2>1, ConcatEmptySeq
<1>7. SubSeq(s, m, n) \o SubSeq(s, n + 1, l) = SubSeq(s, m, l)
  <2> HIDE DEF m, l
  <2> QED BY <1>2, ConcatAdjacentSubSeq
<1>8. Append(SubSeq(s, m, n), s[n + 1]) = SubSeq(s, m, n) \o <<s[n + 1]>>
  BY <1>3, <1>4, AppendIsConcat
<1> QED BY <1>2, <1>4, <1>6, <1>7, <1>8
-----------------------------------------------------------------------------
(***************************************************************************)
(* What the steps of a connection do to the stream: a buffer b and, on the *)
(* way, the bytes y, after k messages were taken of n that were sent.       *)
(***************************************************************************)
DigitsOf(m) == <<Len(m) \div Base, Len(m) % Base>>

LEMMA Regroup ==
    ASSUME NEW a \in Seq(Byte), NEW b \in Seq(Byte), NEW c \in Seq(Byte)
    PROVE  (a \o b) \o c = a \o (b \o c)
BY ConcatAssociative

LEMMA SendFrame ==
    ASSUME NEW s \in Seq(Message), NEW n \in 0 .. Len(s), NEW k \in 0 .. n, n < Len(s),
           NEW h \in Seq(Byte), NEW b \in Seq(Byte), NEW y \in Seq(Byte),
           h \o b \o y = Stream(SubSeq(s, k + 1, n))
    PROVE  h \o b \o (y \o Frame(s[n + 1])) = Stream(SubSeq(s, k + 1, n + 1))
<1> DEFINE f == Frame(s[n + 1])
<1>1. f \in Seq(Byte)
  BY OneMore, FrameParts
<1>2. Stream(SubSeq(s, k + 1, n + 1)) = Stream(SubSeq(s, k + 1, n)) \o f
  BY OneMore, Left, StreamOfAppend
<1> HIDE DEF f
<1>3. h \o b \in Seq(Byte)
  BY ConcatProperties
<1>4. h \o b \o (y \o f) = h \o b \o y \o f
  BY <1>1, <1>3, Regroup
<1> QED BY <1>2, <1>4 DEF f

\* the frame that comes next
LEMMA NextFrame ==
    ASSUME NEW s \in Seq(Message), NEW n \in 0 .. Len(s), NEW k \in 0 .. n, k < n
    PROVE  /\ DigitsOf(s[k + 1]) \in Seq(Byte) /\ Len(DigitsOf(s[k + 1])) = 2
           /\ s[k + 1] \in Seq(Byte)
           /\ Stream(SubSeq(s, (k + 1) + 1, n)) \in Seq(Byte)
           /\ Stream(SubSeq(s, k + 1, n))
                = DigitsOf(s[k + 1]) \o (s[k + 1] \o Stream(SubSeq(s, (k + 1) + 1, n)))
<1> DEFINE m == s[k + 1]
           h == DigitsOf(m)
           rest == SubSeq(s, (k + 1) + 1, n)
           z == Stream(rest)
<1>1. m \in Message /\ k + 1 \in 0 .. n /\ SubSeq(s, k + 1, n) = <<m>> \o rest
  BY FirstLeft
<1>2. h \in Seq(Byte) /\ Len(h) = 2 /\ m \in Seq(Byte) /\ Frame(m) = h \o m
  <2> HIDE DEF m
  <2> QED BY <1>1, FrameParts DEF DigitsOf
<1>3. rest \in Seq(Message)
  <2> DEFINE k1 == k + 1
  <2>1. k1 \in 0 .. n
    BY <1>1
  <2> HIDE DEF k1
  <2>2. SubSeq(s, k1 + 1, n) \in Seq(Message)
    BY <2>1, Left
  <2> QED BY <2>2 DEF k1
<1>4. z \in Seq(Byte) /\ Stream(<<m>> \o rest) = Frame(m) \o z
  <2> HIDE DEF m, rest
  <2> QED BY <1>1, <1>3, StreamFunction, StreamOfCons
<1> HIDE DEF m, h, rest, z
<1>5. (h \o m) \o z = h \o (m \o z)
  BY <1>2, <1>4, Regroup
<1>6. Stream(SubSeq(s, k + 1, n)) = h \o (m \o z)
  BY <1>1, <1>2, <1>4, <1>5
<1> QED BY <1>2, <1>4, <1>6 DEF m, h, rest, z

\* two bytes in the buffer are the length of the next message
LEMMA LengthOfFrame ==
    ASSUME NEW s \in Seq(Message), NEW n \in 0 .. Len(s), NEW k \in 0 .. n,
           NEW b \in Seq(Byte), NEW y \in Seq(Byte), Len(b) >= 2,
           <<>> \o b \o y = Stream(SubSeq(s, k + 1, n))
    PROVE  /\ k < n /\ s[k + 1] \in Message /\ Drop(b, 2) \in Seq(Byte)
           /\ Base * b[1] + b[2] = Len(s[k + 1])
           /\ DigitsOf(s[k + 1]) \o Drop(b, 2) \o y = Stream(SubSeq(s, k + 1, n))
<1> DEFINE m == s[k + 1]
           h == DigitsOf(m)
           c == SubSeq(b, 1, 2)
           d == Drop(b, 2)
           z == Stream(SubSeq(s, (k + 1) + 1, n))
<1>0. Len(b) \in Nat /\ Len(y) \in Nat /\ 2 \in 0 .. Len(b) /\ <<>> \o b = b
  BY LenProperties, ConcatEmptySeq
<1>1. k < n
  <2> SUFFICES ASSUME ~(k < n) PROVE FALSE
    OBVIOUS
  <2>1. k = n
    OBVIOUS
  <2>2. Stream(SubSeq(s, k + 1, n)) = <<>>
    BY <2>1, NoneLeft, StreamOfNone
  <2>3. Len(b \o y) = Len(b) + Len(y)
    BY ConcatProperties
  <2>4. Len(b \o y) = 0
    BY <1>0, <2>2, EmptySeq
  <2> QED BY <1>0, <2>3, <2>4
<1>2. /\ h \in Seq(Byte) /\ Len(h) = 2 /\ m \in Seq(Byte) /\ z \in Seq(Byte)
      /\ b \o y = h \o (m \o z) /\ m \in Message
  BY <1>0, <1>1, NextFrame, FirstLeft
<1>3. c \in Seq(Byte) /\ d \in Seq(Byte) /\ Len(c) = 2 /\ b = c \o d
  BY <1>0, CutInTwo
<1>4. b[1] = c[1] /\ b[2] = c[2]
  <2> HIDE DEF c, d
  <2>1. /\ \A i \in 1 .. Len(c) + Len(d) :
             (c \o d)[i] = IF i <= Len(c) THEN c[i] ELSE d[i - Len(c)]
        /\ Len(d) \in Nat
    BY <1>3, ConcatProperties, LenProperties
  <2>2. 1 \in 1 .. Len(c) + Len(d) /\ 2 \in 1 .. Len(c) + Len(d) /\ 1 <= Len(c) /\ 2 <= Len(c)
    BY <1>3, <2>1
  <2> QED BY <1>3, <2>1, <2>2
<1>5. h[1] = Len(m) \div Base /\ h[2] = Len(m) % Base
  BY DEF DigitsOf
<1>a. Base * (Len(m) \div Base) + (Len(m) % Base) = Len(m)
  BY <1>2, Digits
<1> HIDE DEF m, h, c, d, z
<1>6. c = h
  <2>1. d \o y \in Seq(Byte) /\ m \o z \in Seq(Byte)
    BY <1>2, <1>3, ConcatProperties
  <2>2. c \o (d \o y) = h \o (m \o z)
    <3>1. (c \o d) \o y = c \o (d \o y)
      BY <1>3, Regroup
    <3> QED BY <1>2, <1>3, <3>1
  <2> QED BY <1>2, <1>3, <2>1, <2>2, SameParts
<1>7. Base * b[1] + b[2] = Len(m)
  BY <1>4, <1>5, <1>6, <1>a
<1>8. h \o d \o y = Stream(SubSeq(s, k + 1, n))
  BY <1>0, <1>3, <1>6
<1> QED BY <1>1, <1>2, <1>3, <1>7, <1>8 DEF m, h, d

\* as many bytes as the length says are the next message
LEMMA BodyOfFrame ==
    ASSUME NEW s \in Seq(Message), NEW n \in 0 .. Len(s), NEW k \in 0 .. n, k < n,
           NEW b \in Seq(Byte), NEW y \in Seq(Byte), Len(b) >= Len(s[k + 1]),
           DigitsOf(s[k + 1]) \o b \o y = Stream(SubSeq(s, k + 1, n))
    PROVE  /\ SubSeq(b, 1, Len(s[k + 1])) = s[k + 1]
           /\ Drop(b, Len(s[k + 1])) \in Seq(Byte)
           /\ <<>> \o Drop(b, Len(s[k + 1])) \o y = Stream(SubSeq(s, (k + 1) + 1, n))
<1> DEFINE m == s[k + 1]
           h == DigitsOf(m)
           z == Stream(SubSeq(s, (k + 1) + 1, n))
<1>1. /\ h \in Seq(Byte) /\ Len(h) = 2 /\ m \in Seq(Byte) /\ z \in Seq(Byte)
      /\ h \o b \o y = h \o (m \o z)
  BY NextFrame
<1>2. Len(b) \in Nat /\ Len(m) \in 0 .. Len(b)
  BY <1>1, LenProperties
<1> DEFINE c == SubSeq(b, 1, Len(m))
           d == Drop(b, Len(m))
<1>3. c \in Seq(Byte) /\ d \in Seq(Byte) /\ Len(c) = Len(m) /\ b = c \o d
  <2> HIDE DEF m
  <2> QED BY <1>2, CutInTwo
<1> HIDE DEF m, h, c, d, z
<1>4. b \o y = m \o z
  <2>1. b \o y \in Seq(Byte) /\ m \o z \in Seq(Byte)
    BY <1>1, ConcatProperties
  <2>2. h \o b \o y = h \o (b \o y)
    BY <1>1, Regroup
  <2>3. h \o (b \o y) = h \o (m \o z)
    BY <1>1, <2>2
  <2> QED BY <1>1, <2>1, <2>3, SameParts
<1>5. c = m /\ d \o y = z
  <2>1. d \o y \in Seq(Byte)
    BY <1>3, ConcatProperties
  <2>2. (c \o d) \o y = c \o (d \o y)
    BY <1>3, Regroup
  <2>3. c \o (d \o y) = m \o z
    BY <1>3, <1>4, <2>2
  <2> QED BY <1>1, <1>3, <2>1, <2>3, SameParts
<1>6. <<>> \o d \o y = z
  BY <1>3, <1>5, ConcatEmptySeq
<1> QED BY <1>3, <1>5, <1>6 DEF m, c, d, z
-----------------------------------------------------------------------------
(***************************************************************************)
(* The invariant.  That what is cut out of a stream is a message depends   *)
(* on its alignment, and the alignment on the types, so they are one       *)
(* induction, over the parts of the state that belong to a worker.         *)
(***************************************************************************)
\* where a connection or a request is, what it has asked, and for how much
Phase(w) ==
    /\ sent[w] <= Len(script[w]) /\ Len(asked[w]) <= Len(script[w])
    /\ kind[w] = "request" =>
           Len(script[w]) = 1 /\ at[w] \in {"backlog", "resolving", "closed"}
    /\ at[w] \in {"backlog", "handshake", "started"} => asked[w] = <<>>
    /\ at[w] = "resolving" <=> task[w] # "idle"
    /\ at[w] = "body" => /\ Len(asked[w]) < sent[w]
                         /\ need[w] = Len(script[w][Len(asked[w]) + 1])

Aligned(w) ==
    /\ asked[w] = SubSeq(script[w], 1, Len(asked[w]))
    /\ kind[w] = "dot" /\ at[w] # "closed" =>
           /\ Len(asked[w]) <= sent[w]
           /\ Header(w) \o buf[w] \o wire[w]
                = Stream(SubSeq(script[w], Len(asked[w]) + 1, sent[w]))

\* what is asked is logged, but for the message being resolved, and what is
\* logged is answered, but for the reply that is ready; of a call that raised
\* nothing is needed, as its exchange ends
Served(w) ==
    /\ task[w] = "done" => response[w] \in WholeReply /\ response[w].query = Query(w)
    /\ task[w] \in {"check", "forward"} =>
           \E m \in Message : asked[w] = Append(logged[w], m)
    /\ task[w] = "done" => asked[w] = logged[w] /\ Len(logged[w]) = Len(out[w]) + 1
    /\ task[w] = "idle" /\ at[w] # "closed" => asked[w] = logged[w]
    /\ task[w] \notin {"done", "raised"} /\ at[w] # "closed" =>
           Len(logged[w]) = Len(out[w])

TransportInv ==
    TypeOK /\ \A w \in Worker : Phase(w) /\ Aligned(w) /\ Served(w)

\* a worker's part of the state is as it was
Untouched(v) ==
    /\ kind'[v] = kind[v] /\ script'[v] = script[v] /\ sent'[v] = sent[v]
    /\ wire'[v] = wire[v] /\ gone'[v] = gone[v] /\ at'[v] = at[v]
    /\ buf'[v] = buf[v] /\ need'[v] = need[v] /\ out'[v] = out[v]
    /\ task'[v] = task[v] /\ asked'[v] = asked[v]
    /\ response'[v] = response[v] /\ logged'[v] = logged[v]

LEMMA UntouchedKeep ==
    ASSUME NEW v \in Worker, Untouched(v), Phase(v), Aligned(v), Served(v)
    PROVE  Phase(v)' /\ Aligned(v)' /\ Served(v)'
<1>1. Phase(v)'
  BY DEF Untouched, Phase
<1>2. Aligned(v)'
  <2>1. Header(v)' = Header(v)
    BY DEF Untouched, Header
  <2> QED BY <2>1 DEF Untouched, Aligned
<1>3. Served(v)'
  <2>1. Query(v)' = Query(v)
    BY DEF Untouched, Query
  <2> QED BY <2>1 DEF Untouched, Served
<1> QED BY <1>1, <1>2, <1>3

\* what there is to show of a step of one worker
LEMMA OneWorker ==
    ASSUME TransportInv, NEW w \in Worker, \A v \in Worker \ {w} : Untouched(v),
           TypeOK', Phase(w)', Aligned(w)', Served(w)'
    PROVE  TransportInv'
<1>1. ASSUME NEW v \in Worker PROVE Phase(v)' /\ Aligned(v)' /\ Served(v)'
  <2>1. CASE v = w
    BY <2>1
  <2>2. CASE v # w
    <3>1. Untouched(v) /\ Phase(v) /\ Aligned(v) /\ Served(v)
      BY <2>2 DEF TransportInv
    <3> QED BY <3>1, UntouchedKeep
  <2> QED BY <2>1, <2>2
<1> QED BY <1>1 DEF TransportInv

\* the types of a worker's part of the state
LEMMA WorkerTyped ==
    ASSUME TransportInv, NEW w \in Worker
    PROVE  /\ kind[w] \in Kind /\ script[w] \in Seq(Message) /\ sent[w] \in 0 .. Len(script[w])
           /\ Len(script[w]) \in Nat /\ wire[w] \in Seq(Byte) /\ buf[w] \in Seq(Byte)
           /\ at[w] \in Stage /\ need[w] \in 0 .. Base * Base - 1 /\ need[w] \in Nat
           /\ task[w] \in TaskStage /\ asked[w] \in Seq(Message) /\ Len(asked[w]) \in Nat
           /\ logged[w] \in Seq(Message) /\ out[w] \in Seq(Reply)
           /\ Phase(w) /\ Aligned(w) /\ Served(w)
<1>1. /\ kind[w] \in Kind /\ script[w] \in Seq(Message) /\ sent[w] \in Nat
      /\ wire[w] \in Seq(Byte) /\ buf[w] \in Seq(Byte)
      /\ at[w] \in Stage /\ need[w] \in 0 .. Base * Base - 1
      /\ task[w] \in TaskStage /\ asked[w] \in Seq(Message)
      /\ logged[w] \in Seq(Message) /\ out[w] \in Seq(Reply)
      /\ Phase(w) /\ Aligned(w) /\ Served(w)
  BY DEF TransportInv, TypeOK, ResolverTypeOK, Byte
<1>2. Len(script[w]) \in Nat /\ Len(asked[w]) \in Nat
  BY <1>1, LenProperties
<1>3. sent[w] \in 0 .. Len(script[w])
  BY <1>1, <1>2 DEF Phase
<1>4. need[w] \in Nat
  BY <1>1
<1> QED BY <1>1, <1>2, <1>3, <1>4

LEMMA HeaderTyped ==
    ASSUME TransportInv, NEW w \in Worker
    PROVE  /\ Header(w) \in Seq(Byte)
           /\ at[w] = "body" => /\ Header(w) = DigitsOf(script[w][Len(asked[w]) + 1])
                                /\ script[w][Len(asked[w]) + 1] \in Message
<1>1. CASE at[w] = "body"
  <2>1. /\ Len(asked[w]) < sent[w] /\ need[w] = Len(script[w][Len(asked[w]) + 1])
        /\ Len(asked[w]) \in 0 .. sent[w]
    BY <1>1, WorkerTyped DEF Phase
  <2>2. script[w][Len(asked[w]) + 1] \in Message
    BY <2>1, WorkerTyped, FirstLeft
  <2>3. Header(w) = DigitsOf(script[w][Len(asked[w]) + 1])
    BY <1>1, <2>1 DEF Header, DigitsOf
  <2> QED BY <2>2, <2>3, FrameParts DEF DigitsOf
<1>2. CASE at[w] # "body"
  BY <1>2, EmptySeq DEF Header
<1> QED BY <1>1, <1>2

LEMMA TransportInit == Init => TransportInv
<1> SUFFICES ASSUME Init PROVE TransportInv
  OBVIOUS
<1>0. <<>> \in Seq(Message) /\ <<>> \in Seq(Byte) /\ <<>> \in Seq(Reply) /\ Len(<<>>) = 0
  BY EmptySeq
<1>1. ASSUME NEW w \in Worker
      PROVE  /\ script[w] \in Seq(Message)
             /\ kind[w] = "request" => Len(script[w]) = 1
  <2>1. CASE kind[w] = "dot"
    BY <2>1, ScriptAssumption DEF Init
  <2>2. CASE kind[w] # "dot"
    <3>1. PICK m \in Message : script[w] = <<m>>
      BY <2>2 DEF Init, Single
    <3> QED BY <3>1, OneElement
  <2> QED BY <2>1, <2>2
<1>2. script \in [Worker -> Seq(Message)]
  BY <1>1 DEF Init
<1>3. 0 \in 0 .. Base * Base - 1
  <2>1. Base * Base \in Nat \ {0}
    BY Bytes
  <2> QED BY <2>1
<1>4. TypeOK
  <2>1. ResolverTypeOK
    BY <1>0 DEF Init, ResolverInit, ResolverTypeOK, TaskStage
  <2> QED BY <1>0, <1>2, <1>3, <2>1 DEF Init, TypeOK, Stage, Byte
<1>5. ASSUME NEW w \in Worker PROVE Phase(w) /\ Aligned(w) /\ Served(w)
  <2>1. Len(script[w]) \in Nat
    BY <1>1, LenProperties
  <2>2. Phase(w)
    BY <1>0, <1>1, <2>1 DEF Init, ResolverInit, Phase
  <2>3. SubSeq(script[w], 1, 0) = <<>>
    <3>1. 0 \in 0 .. Len(script[w])
      BY <2>1
    <3>2. SubSeq(script[w], 0 + 1, 0) = <<>>
      BY <1>1, <3>1, NoneLeft
    <3> QED BY <3>2
  <2>4. Aligned(w)
    <3>1. Len(asked[w]) = 0 /\ asked[w] = <<>> /\ sent[w] = 0 /\ 0 + 1 = 1
      BY <1>0 DEF Init, ResolverInit
    <3>2. Header(w) \o buf[w] \o wire[w] = <<>>
      BY <1>0, ConcatEmptySeq DEF Init, Header
    <3>3. SubSeq(script[w], Len(asked[w]) + 1, sent[w]) = <<>>
      BY <2>3, <3>1
    <3>4. SubSeq(script[w], 1, Len(asked[w])) = <<>>
      BY <2>3, <3>1
    <3>5. Len(asked[w]) <= sent[w]
      BY <3>1
    <3> QED BY <3>1, <3>2, <3>3, <3>4, <3>5, StreamOfNone DEF Aligned
  <2>5. Served(w)
    BY <1>0 DEF Init, ResolverInit, Served
  <2> QED BY <2>2, <2>4, <2>5
<1> QED BY <1>4, <1>5 DEF TransportInv
-----------------------------------------------------------------------------
(***************************************************************************)
(* Steps of the client, of the accept loop and of the thread that change   *)
(* no more than where the worker is.                                       *)
(***************************************************************************)
LEMMA Moves ==
    ASSUME TransportInv, NEW w \in Worker, NEW a \in Stage,
           at' = [at EXCEPT ![w] = a],
           UNCHANGED <<kind, script, sent, wire, gone, buf, need, out, resolver>>,
           \/ a = "closed" /\ at[w] # "resolving"
           \/ /\ a = "handshake" /\ at[w] = "backlog" /\ kind[w] = "dot"
              /\ \A v \in Worker : at[v] # "handshake"
           \/ a = "started" /\ at[w] = "handshake"
           \/ a = "length" /\ at[w] = "started"
    PROVE  TransportInv'
<1>1. at \in [Worker -> Stage]
  BY DEF TransportInv, TypeOK
<1>2. \A v \in Worker \ {w} : Untouched(v)
  BY <1>1 DEF Untouched, resolver
<1>3. at'[w] = a
  BY <1>1
<1>4. TypeOK'
  <2>1. at' \in [Worker -> Stage]
    BY <1>1
  <2>2. ASSUME NEW u \in Worker, NEW v \in Worker, at'[u] = "handshake", at'[v] = "handshake"
        PROVE  u = v
    BY <1>1, <2>2 DEF TransportInv, TypeOK
  <2>3. ResolverTypeOK'
    BY DEF TransportInv, TypeOK, ResolverTypeOK, resolver
  <2> QED BY <2>1, <2>2, <2>3 DEF TransportInv, TypeOK
<1>5. Phase(w)'
  BY <1>3, WorkerTyped DEF Phase, resolver, Kind
<1>6. Aligned(w)'
  <2>1. at[w] # "body" /\ a # "body" => Header(w)' = Header(w)
    BY <1>3 DEF Header
  <2> QED BY <1>3, <2>1, WorkerTyped DEF Aligned, resolver
<1>7. Served(w)'
  BY <1>3, WorkerTyped DEF Phase, Served, Query, resolver
<1> QED BY <1>2, <1>4, <1>5, <1>6, <1>7, OneWorker

LEMMA LeaveKeeps ==
    ASSUME TransportInv, NEW w \in Worker, Leave(w)
    PROVE  TransportInv'
<1>1. gone \in [Worker -> BOOLEAN] /\ gone' = [gone EXCEPT ![w] = TRUE]
  BY DEF TransportInv, TypeOK, Leave
<1>2. UNCHANGED <<kind, script, sent, wire, at, buf, need, out, resolver>>
  BY DEF Leave
<1>3. \A v \in Worker \ {w} : Untouched(v)
  BY <1>1, <1>2 DEF Untouched, resolver
<1>4. TypeOK'
  BY <1>1, <1>2 DEF TransportInv, TypeOK, ResolverTypeOK, resolver
<1>5. Phase(w)' /\ Aligned(w)' /\ Served(w)'
  BY <1>2, WorkerTyped DEF Phase, Aligned, Header, Served, Query, resolver
<1> QED BY <1>3, <1>4, <1>5, OneWorker

LEMMA SendKeeps ==
    ASSUME TransportInv, NEW w \in Worker, Send(w)
    PROVE  TransportInv'
<1> DEFINE s == script[w]
           n == sent[w]
           k == Len(asked[w])
           f == Frame(s[n + 1])
<1>1. /\ s \in Seq(Message) /\ n \in 0 .. Len(s) /\ k \in 0 .. n /\ n < Len(s)
      /\ kind[w] = "dot" /\ at[w] # "closed"
      /\ wire[w] \in Seq(Byte) /\ buf[w] \in Seq(Byte) /\ Len(s) \in Nat
      /\ Header(w) \o buf[w] \o wire[w] = Stream(SubSeq(s, k + 1, n))
  <2>1. /\ kind[w] = "dot" /\ at[w] # "closed" /\ n < Len(s)
    BY DEF Send
  <2>2. /\ s \in Seq(Message) /\ n \in 0 .. Len(s) /\ k \in Nat /\ Len(s) \in Nat
        /\ wire[w] \in Seq(Byte) /\ buf[w] \in Seq(Byte) /\ Aligned(w)
    BY WorkerTyped
  <2>3. k <= n /\ Header(w) \o buf[w] \o wire[w] = Stream(SubSeq(s, k + 1, n))
    BY <2>1, <2>2 DEF Aligned
  <2>4. k \in 0 .. n
    BY <2>2, <2>3
  <2> QED BY <2>1, <2>2, <2>3, <2>4
<1>2. Header(w) \in Seq(Byte)
  BY <1>1, WorkerTyped, HeaderTyped
<1>3. f \in Seq(Byte) /\ wire[w] \o f \in Seq(Byte) /\ n + 1 \in 0 .. Len(s)
  <2>1. s[n + 1] \in Message /\ n + 1 \in 0 .. Len(s)
    BY <1>1, OneMore
  <2> QED BY <1>1, <2>1, FrameParts, ConcatProperties
<1>4. /\ sent' = [sent EXCEPT ![w] = n + 1] /\ wire' = [wire EXCEPT ![w] = wire[w] \o f]
      /\ UNCHANGED <<kind, script, gone, at, buf, need, out, resolver>>
      /\ sent \in [Worker -> Nat] /\ wire \in [Worker -> Seq(Byte)]
  BY DEF Send, TransportInv, TypeOK, Byte
<1>5. sent'[w] = n + 1 /\ wire'[w] = wire[w] \o f
  BY <1>4
<1>6. Header(w)' \o buf'[w] \o wire'[w] = Stream(SubSeq(s, k + 1, n + 1))
  <2>1. Header(w)' = Header(w) /\ buf'[w] = buf[w]
    BY <1>4 DEF Header
  <2>2. Header(w) \o buf[w] \o (wire[w] \o f) = Stream(SubSeq(s, k + 1, n + 1))
    <3> DEFINE h == Header(w)
               b == buf[w]
               y == wire[w]
    <3>1. h \in Seq(Byte) /\ b \in Seq(Byte) /\ y \in Seq(Byte)
          /\ h \o b \o y = Stream(SubSeq(s, k + 1, n))
      BY <1>1, <1>2
    <3> HIDE DEF h, b, y, s, n, k
    <3> QED BY <1>1, <3>1, SendFrame DEF h, b, y
  <2> QED BY <1>5, <2>1, <2>2
<1> HIDE DEF f
<1>7. \A v \in Worker \ {w} : Untouched(v)
  BY <1>4 DEF Untouched, resolver
<1>8. TypeOK'
  <2>1. sent' \in [Worker -> Nat] /\ wire' \in [Worker -> Seq(Byte)]
    BY <1>1, <1>3, <1>4
  <2> QED BY <1>4, <2>1 DEF TransportInv, TypeOK, ResolverTypeOK, resolver, Byte
<1>9. Phase(w)'
  BY <1>1, <1>3, <1>4, <1>5, WorkerTyped DEF Phase, resolver
<1>10. Aligned(w)'
  <2>1. script'[w] = s /\ asked'[w] = asked[w] /\ k <= n + 1
    BY <1>1, <1>4 DEF resolver
  <2> QED BY <1>5, <1>6, <2>1, WorkerTyped DEF Aligned
<1>11. Served(w)'
  BY <1>4, WorkerTyped DEF Served, Query, resolver
<1> QED BY <1>7, <1>8, <1>9, <1>10, <1>11, OneWorker

LEMMA StreamHere ==
    ASSUME TransportInv, NEW w \in Worker, at[w] \in {"length", "body"}
    PROVE  /\ kind[w] = "dot" /\ sent[w] \in 0 .. Len(script[w])
           /\ Len(asked[w]) \in 0 .. sent[w] /\ Len(asked[w]) \in Nat
           /\ script[w] \in Seq(Message) /\ Len(script[w]) \in Nat
           /\ wire[w] \in Seq(Byte) /\ buf[w] \in Seq(Byte) /\ Header(w) \in Seq(Byte)
           /\ Header(w) \o buf[w] \o wire[w]
                = Stream(SubSeq(script[w], Len(asked[w]) + 1, sent[w]))
           /\ task[w] = "idle" /\ asked[w] = logged[w] /\ asked[w] \in Seq(Message)
           /\ Len(logged[w]) = Len(out[w])
<1>1. kind[w] = "dot" /\ at[w] # "closed" /\ at[w] # "resolving"
  BY WorkerTyped DEF Phase, Kind
<1>2. /\ sent[w] \in 0 .. Len(script[w]) /\ Len(asked[w]) \in Nat
      /\ script[w] \in Seq(Message) /\ Len(script[w]) \in Nat
      /\ wire[w] \in Seq(Byte) /\ buf[w] \in Seq(Byte) /\ asked[w] \in Seq(Message)
      /\ Phase(w) /\ Aligned(w) /\ Served(w)
  BY WorkerTyped
<1>3. /\ Len(asked[w]) <= sent[w]
      /\ Header(w) \o buf[w] \o wire[w]
           = Stream(SubSeq(script[w], Len(asked[w]) + 1, sent[w]))
  BY <1>1, <1>2 DEF Aligned
<1>4. Len(asked[w]) \in 0 .. sent[w]
  BY <1>2, <1>3
<1>5. task[w] = "idle"
  BY <1>1, <1>2 DEF Phase
<1>6. asked[w] = logged[w] /\ Len(logged[w]) = Len(out[w])
  BY <1>1, <1>2, <1>5 DEF Served
<1> QED BY <1>1, <1>2, <1>3, <1>4, <1>5, <1>6, HeaderTyped

LEMMA ReceiveKeeps ==
    ASSUME TransportInv, NEW w \in Worker, NEW n \in 1 .. Len(wire[w]), Receive(w, n)
    PROVE  TransportInv'
<1>0. at[w] \in {"length", "body"}
  BY DEF Receive, Wanting
<1> DEFINE b == buf[w] \o SubSeq(wire[w], 1, n)
           y == Drop(wire[w], n)
<1>1. /\ b \in Seq(Byte) /\ y \in Seq(Byte)
      /\ Header(w) \o b \o y = Header(w) \o buf[w] \o wire[w]
  <2>1. /\ Header(w) \in Seq(Byte) /\ buf[w] \in Seq(Byte) /\ wire[w] \in Seq(Byte)
    BY <1>0, StreamHere
  <2>2. n \in 0 .. Len(wire[w])
    BY <2>1, LenProperties
  <2> DEFINE head  == Header(w)
             had   == buf[w]
             chunk == SubSeq(wire[w], 1, n)
             more  == Drop(wire[w], n)
  <2>3. /\ head \in Seq(Byte) /\ had \in Seq(Byte)
        /\ chunk \in Seq(Byte) /\ more \in Seq(Byte) /\ wire[w] = chunk \o more
    BY <2>1, <2>2, CutInTwo
  <2> HIDE DEF head, had, chunk, more
  <2>4. had \o chunk \in Seq(Byte) /\ head \o had \in Seq(Byte)
    BY <2>3, ConcatProperties
  <2>5. head \o (had \o chunk) = head \o had \o chunk
    BY <2>3, Regroup
  <2> DEFINE all == head \o had
  <2>6. all \o chunk \o more = all \o (chunk \o more)
    <3>1. all \in Seq(Byte)
      BY <2>4
    <3> HIDE DEF all
    <3> QED BY <2>3, <3>1, Regroup
  <2>7. head \o (had \o chunk) \o more = head \o had \o wire[w]
    BY <2>3, <2>5, <2>6
  <2> QED BY <2>3, <2>4, <2>7 DEF head, had, chunk, more
<1>2. /\ buf' = [buf EXCEPT ![w] = b] /\ wire' = [wire EXCEPT ![w] = y]
      /\ UNCHANGED <<kind, script, sent, gone, at, need, out, resolver>>
      /\ buf \in [Worker -> Seq(Byte)] /\ wire \in [Worker -> Seq(Byte)]
  BY DEF Receive, TransportInv, TypeOK, Byte
<1> HIDE DEF b, y
<1>3. buf'[w] = b /\ wire'[w] = y
  BY <1>2
<1>4. \A v \in Worker \ {w} : Untouched(v)
  BY <1>2 DEF Untouched, resolver
<1>5. TypeOK'
  <2>1. buf' \in [Worker -> Seq(Byte)] /\ wire' \in [Worker -> Seq(Byte)]
    BY <1>1, <1>2
  <2> QED BY <1>2, <2>1 DEF TransportInv, TypeOK, ResolverTypeOK, resolver, Byte
<1>6. Phase(w)'
  BY <1>2, WorkerTyped DEF Phase, resolver
<1>7. Aligned(w)'
  <2>1. Header(w)' \o buf'[w] \o wire'[w] = Header(w) \o buf[w] \o wire[w]
    <3>1. Header(w)' = Header(w)
      BY <1>2 DEF Header
    <3> QED BY <1>1, <1>3, <3>1
  <2> QED BY <1>2, <2>1, WorkerTyped DEF Aligned, resolver
<1>8. Served(w)'
  BY <1>2, WorkerTyped DEF Served, Query, resolver
<1> QED BY <1>4, <1>5, <1>6, <1>7, <1>8, OneWorker

LEMMA LengthKeeps ==
    ASSUME TransportInv, NEW w \in Worker, Length(w)
    PROVE  TransportInv'
<1> DEFINE s == script[w]
           n == sent[w]
           k == Len(asked[w])
           m == s[k + 1]
           b == buf[w]
           y == wire[w]
           d == Drop(b, 2)
<1>0. at[w] = "length"
  BY DEF Length
<1>1. /\ kind[w] = "dot" /\ n \in 0 .. Len(s) /\ k \in 0 .. n /\ s \in Seq(Message)
      /\ y \in Seq(Byte) /\ b \in Seq(Byte)
      /\ <<>> \o b \o y = Stream(SubSeq(s, k + 1, n)) /\ Len(b) >= 2
  BY <1>0, StreamHere DEF Header, Length
<1>2. /\ k < n /\ m \in Message /\ d \in Seq(Byte) /\ Base * b[1] + b[2] = Len(m)
      /\ DigitsOf(m) \o d \o y = Stream(SubSeq(s, k + 1, n))
  <2> HIDE DEF s, n, k, b, y
  <2> QED BY <1>1, LengthOfFrame
<1>3. Len(m) \in 0 .. Base * Base - 1
  BY <1>2, Digits
<1>4. /\ need' = [need EXCEPT ![w] = Len(m)] /\ buf' = [buf EXCEPT ![w] = d]
      /\ at' = [at EXCEPT ![w] = "body"]
      /\ UNCHANGED <<kind, script, sent, wire, gone, out, resolver>>
      /\ buf \in [Worker -> Seq(Byte)] /\ at \in [Worker -> Stage]
      /\ need \in [Worker -> 0 .. Base * Base - 1]
  BY <1>2 DEF Length, TransportInv, TypeOK, Byte
<1> HIDE DEF d, m
<1>5. need'[w] = Len(m) /\ buf'[w] = d /\ at'[w] = "body"
  BY <1>4
<1>6. \A v \in Worker \ {w} : Untouched(v)
  BY <1>4 DEF Untouched, resolver
<1>7. TypeOK'
  <2>1. buf' \in [Worker -> Seq(Byte)]
    BY <1>2, <1>4
  <2>2. need' \in [Worker -> 0 .. Base * Base - 1]
    BY <1>3, <1>4
  <2>3. /\ at' \in [Worker -> Stage]
        /\ \A u, v \in Worker : at'[u] = "handshake" /\ at'[v] = "handshake" => u = v
    BY <1>4 DEF TransportInv, TypeOK, Stage
  <2> QED BY <1>4, <2>1, <2>2, <2>3 DEF TransportInv, TypeOK, ResolverTypeOK, resolver, Byte
<1>8. Phase(w)'
  <2>1. task'[w] = task[w] /\ task[w] = "idle"
    BY <1>0, <1>4, StreamHere DEF resolver
  <2> QED BY <1>1, <1>2, <1>4, <1>5, <2>1, WorkerTyped DEF Phase, resolver, m
<1>9. Aligned(w)'
  <2>1. Header(w)' = DigitsOf(m)
    BY <1>5 DEF Header, DigitsOf
  <2>2. Header(w)' \o buf'[w] \o wire'[w] = Stream(SubSeq(s, k + 1, n))
    BY <1>2, <1>4, <1>5, <2>1
  <2>3. script'[w] = s /\ sent'[w] = n /\ asked'[w] = asked[w]
    BY <1>4 DEF resolver
  <2>4. asked[w] = SubSeq(s, 1, k)
    BY WorkerTyped DEF Aligned
  <2>5. k <= n
    BY <1>1
  <2> QED BY <2>2, <2>3, <2>4, <2>5 DEF Aligned
<1>10. Served(w)'
  <2>1. task'[w] = "idle" /\ asked'[w] = logged'[w] /\ Len(logged'[w]) = Len(out'[w])
    BY <1>0, <1>4, StreamHere DEF resolver
  <2> QED BY <2>1 DEF Served
<1> QED BY <1>6, <1>7, <1>8, <1>9, <1>10, OneWorker

\* the call of resolve_query with the next message
LEMMA ResolveTyped ==
    ASSUME TransportInv, NEW w \in Worker, NEW m \in Message, Resolve(w, m),
           task[w] = "idle", at[w] # "closed"
    PROVE  /\ ResolverTypeOK' /\ asked'[w] = Append(asked[w], m)
           /\ Len(asked'[w]) = Len(asked[w]) + 1 /\ asked'[w] # <<>>
           /\ task'[w] \in {"check", "raised"} /\ response' = response /\ logged' = logged
           /\ asked'[w] = Append(logged[w], m)
           /\ \A v \in Worker \ {w} : task'[v] = task[v] /\ asked'[v] = asked[v]
<1>1. /\ task \in [Worker -> TaskStage] /\ asked \in [Worker -> Seq(Message)]
      /\ asked[w] \in Seq(Message) /\ ResolverTypeOK
  BY DEF TransportInv, TypeOK, ResolverTypeOK
<1>2. /\ asked' = [asked EXCEPT ![w] = Append(asked[w], m)]
      /\ response' = response /\ logged' = logged
      /\ task' = [task EXCEPT ![w] = IF m \in Malformed THEN "raised" ELSE "check"]
  BY DEF Resolve
<1>3. Append(asked[w], m) \in Seq(Message) /\ Len(Append(asked[w], m)) = Len(asked[w]) + 1
  BY <1>1, AppendProperties
<1>4. asked'[w] = Append(asked[w], m) /\ task'[w] \in {"check", "raised"}
  BY <1>1, <1>2
<1>5. asked[w] = logged[w]
  BY WorkerTyped DEF Served
<1>6. ResolverTypeOK'
  BY <1>1, <1>2, <1>3 DEF ResolverTypeOK, TaskStage
<1>7. asked'[w] # <<>>
  BY <1>1, <1>3, <1>4, LenProperties, EmptySeq
<1> QED BY <1>1, <1>2, <1>3, <1>4, <1>5, <1>6, <1>7

LEMMA BodyKeeps ==
    ASSUME TransportInv, NEW w \in Worker, Body(w)
    PROVE  TransportInv'
<1> DEFINE s == script[w]
           n == sent[w]
           k == Len(asked[w])
           m == s[k + 1]
           b == buf[w]
           y == wire[w]
           d == Drop(b, Len(m))
<1>0. at[w] = "body"
  BY DEF Body
<1>1. /\ kind[w] = "dot" /\ n \in 0 .. Len(s) /\ k \in 0 .. n /\ s \in Seq(Message)
      /\ Len(s) \in Nat /\ y \in Seq(Byte) /\ b \in Seq(Byte)
  BY <1>0, StreamHere
<1>a. k < n /\ need[w] = Len(m) /\ Len(b) >= Len(m)
  <2>1. Phase(w)
    BY WorkerTyped
  <2> QED BY <1>0, <2>1 DEF Phase, Body
<1>b. DigitsOf(m) \o b \o y = Stream(SubSeq(s, k + 1, n)) /\ m \in Message
  BY <1>0, StreamHere, HeaderTyped
<1>2. /\ SubSeq(b, 1, Len(m)) = m /\ d \in Seq(Byte)
      /\ <<>> \o d \o y = Stream(SubSeq(s, (k + 1) + 1, n))
  <2> HIDE DEF s, n, k, b, y
  <2> QED BY <1>1, <1>a, <1>b, BodyOfFrame
<1>3. /\ buf' = [buf EXCEPT ![w] = d] /\ at' = [at EXCEPT ![w] = "resolving"]
      /\ Resolve(w, m)
      /\ UNCHANGED <<kind, script, sent, wire, gone, need, out>>
      /\ buf \in [Worker -> Seq(Byte)] /\ at \in [Worker -> Stage]
  BY <1>2, <1>a DEF Body, TransportInv, TypeOK, Byte
<1>4. buf'[w] = d /\ at'[w] = "resolving"
  BY <1>3
<1>5. k + 1 \in 0 .. n /\ k + 1 \in Nat /\ k < Len(s) /\ k \in 0 .. Len(s)
  BY <1>1, <1>a
<1>6. /\ Append(asked[w], m) = SubSeq(s, 1, k + 1)
      /\ Len(Append(asked[w], m)) = k + 1 /\ asked'[w] = Append(asked[w], m)
  <2>1. asked[w] = SubSeq(s, 1, k) /\ asked[w] \in Seq(Message)
    BY WorkerTyped DEF Aligned
  <2>2. SubSeq(s, 1, k + 1) = Append(SubSeq(s, 1, k), m)
    <3>1. 0 \in 0 .. k /\ 0 + 1 = 1
      BY <1>5
    <3>2. SubSeq(s, 0 + 1, k + 1) = Append(SubSeq(s, 0 + 1, k), s[k + 1])
      <4> HIDE DEF s, k
      <4> QED BY <1>1, <1>5, <3>1, OneMore
    <3> QED BY <3>1, <3>2
  <2>3. Len(Append(asked[w], m)) = k + 1
    BY <1>b, <2>1, AppendProperties
  <2>4. asked'[w] = Append(asked[w], m)
    BY <1>3 DEF Resolve, TransportInv, TypeOK, ResolverTypeOK
  <2> QED BY <2>1, <2>2, <2>3, <2>4
<1>7. /\ ResolverTypeOK' /\ Len(asked'[w]) = k + 1 /\ asked'[w] # <<>>
      /\ task'[w] \in {"check", "raised"} /\ response' = response /\ logged' = logged
      /\ asked'[w] = Append(logged[w], m)
      /\ \A v \in Worker \ {w} : task'[v] = task[v] /\ asked'[v] = asked[v]
  <2>1. task[w] = "idle" /\ at[w] # "closed"
    BY <1>0, StreamHere
  <2> HIDE DEF m
  <2> QED BY <1>3, <1>b, <2>1, ResolveTyped
<1> HIDE DEF d, m
<1>8. \A v \in Worker \ {w} : Untouched(v)
  BY <1>3, <1>7 DEF Untouched
<1>9. TypeOK'
  <2>1. buf' \in [Worker -> Seq(Byte)]
    BY <1>2, <1>3
  <2>2. /\ at' \in [Worker -> Stage]
        /\ \A u, v \in Worker : at'[u] = "handshake" /\ at'[v] = "handshake" => u = v
    BY <1>3 DEF TransportInv, TypeOK, Stage
  <2> QED BY <1>3, <1>7, <2>1, <2>2 DEF TransportInv, TypeOK, Byte
<1>10. Phase(w)'
  <2>1. sent'[w] = n /\ script'[w] = s /\ kind'[w] = "dot" /\ n <= Len(s) /\ k + 1 <= Len(s)
    BY <1>1, <1>3, <1>5
  <2> QED BY <1>4, <1>7, <2>1 DEF Phase
<1>11. Aligned(w)'
  <2>1. Header(w)' = <<>>
    BY <1>4 DEF Header
  <2>2. Header(w)' \o buf'[w] \o wire'[w] = Stream(SubSeq(s, (k + 1) + 1, n))
    BY <1>2, <1>3, <1>4, <2>1
  <2>3. script'[w] = s /\ sent'[w] = n /\ k + 1 <= n
    BY <1>1, <1>3, <1>5
  <2>4. asked'[w] = SubSeq(s, 1, k + 1)
    BY <1>6
  <2> QED BY <1>7, <2>2, <2>3, <2>4 DEF Aligned
<1>12. Served(w)'
  <2>1. Len(logged'[w]) = Len(out'[w]) /\ logged'[w] = logged[w] /\ m \in Message
    BY <1>0, <1>3, <1>7, <1>b, StreamHere DEF m
  <2> QED BY <1>7, <2>1 DEF Served
<1> QED BY <1>8, <1>9, <1>10, <1>11, <1>12, OneWorker

\* of what waits in a socket or a backlog, only a request is resolved at once
LEMMA RequestKeeps ==
    ASSUME TransportInv, NEW w \in Worker, Request(w)
    PROVE  TransportInv'
<1> DEFINE s == script[w]
           m == s[1]
<1>1. /\ kind[w] = "request" /\ at[w] = "backlog" /\ asked[w] = <<>> /\ task[w] = "idle"
      /\ s \in Seq(Message) /\ Len(s) = 1 /\ Len(logged[w]) = Len(out[w])
      /\ sent[w] <= Len(s)
  BY WorkerTyped DEF Request, Phase, Served
<1>2. m \in Message
  BY <1>1, ElementOfSeq
<1>3. /\ at' = [at EXCEPT ![w] = "resolving"] /\ Resolve(w, m)
      /\ UNCHANGED <<kind, script, sent, wire, gone, buf, need, out>>
      /\ at \in [Worker -> Stage]
  BY DEF Request, TransportInv, TypeOK
<1>4. at'[w] = "resolving"
  BY <1>3
<1>5. /\ ResolverTypeOK' /\ asked'[w] = Append(asked[w], m)
      /\ Len(asked'[w]) = Len(asked[w]) + 1 /\ asked'[w] # <<>>
      /\ task'[w] \in {"check", "raised"} /\ response' = response /\ logged' = logged
      /\ asked'[w] = Append(logged[w], m)
      /\ \A v \in Worker \ {w} : task'[v] = task[v] /\ asked'[v] = asked[v]
  <2> HIDE DEF m
  <2> QED BY <1>1, <1>2, <1>3, ResolveTyped
<1>6. Len(asked'[w]) = 1 /\ asked'[w] = s
  <2>1. Len(asked'[w]) = 1
    BY <1>1, <1>5, EmptySeq
  <2>2. SubSeq(s, 0 + 1, 0 + 1) = Append(SubSeq(s, 0 + 1, 0), s[0 + 1])
    <3>1. 0 \in 0 .. Len(s) /\ 0 \in 0 .. 0 /\ 0 < Len(s)
      BY <1>1
    <3> HIDE DEF s
    <3> QED BY <1>1, <3>1, OneMore
  <2>3. SubSeq(s, 0 + 1, 0) = <<>>
    <3>1. 0 \in 0 .. Len(s)
      BY <1>1
    <3> HIDE DEF s
    <3> QED BY <1>1, <3>1, NoneLeft
  <2>4. SubSeq(s, 1, 1) = s
    BY <1>1, SubSeqFull
  <2>5. 0 + 1 = 1
    OBVIOUS
  <2> QED BY <1>1, <1>5, <2>1, <2>2, <2>3, <2>4, <2>5
<1> HIDE DEF m
<1>7. \A v \in Worker \ {w} : Untouched(v)
  BY <1>3, <1>5 DEF Untouched
<1>8. TypeOK'
  <2>1. /\ at' \in [Worker -> Stage]
        /\ \A u, v \in Worker : at'[u] = "handshake" /\ at'[v] = "handshake" => u = v
    BY <1>3 DEF TransportInv, TypeOK, Stage
  <2> QED BY <1>3, <1>5, <2>1 DEF TransportInv, TypeOK
<1>9. Phase(w)'
  <2>1. script'[w] = s /\ sent'[w] = sent[w] /\ Len(asked'[w]) <= Len(s)
    BY <1>1, <1>3, <1>6
  <2>2. task'[w] # "idle"
    BY <1>5
  <2> QED BY <1>1, <1>4, <2>1, <2>2 DEF Phase
<1>10. Aligned(w)'
  <2>1. asked'[w] = SubSeq(s, 1, 1)
    BY <1>1, <1>6, SubSeqFull
  <2> QED BY <1>1, <1>3, <1>6, <2>1 DEF Aligned
<1>11. Served(w)'
  <2>1. Len(logged'[w]) = Len(out'[w]) /\ logged'[w] = logged[w]
    BY <1>1, <1>3, <1>5
  <2> QED BY <1>2, <1>5, <2>1 DEF Served
<1> QED BY <1>7, <1>8, <1>9, <1>10, <1>11, OneWorker

\* resolve_query has returned or raised: SendReply, SendFails, Respond, Failed
LEMMA ReturnKeeps ==
    ASSUME TransportInv, NEW w \in Worker, at[w] = "resolving",
           NEW a \in {"length", "closed"}, at' = [at EXCEPT ![w] = a],
           \/ out' = out /\ a = "closed"
           \/ /\ out' = [out EXCEPT ![w] = Append(@, response[w])]
              /\ task[w] = "done" /\ (a = "closed" \/ kind[w] = "dot"),
           Returned(w), UNCHANGED <<kind, script, sent, wire, gone, buf, need>>
    PROVE  TransportInv'
<1>1. /\ at \in [Worker -> Stage] /\ task \in [Worker -> TaskStage]
      /\ out \in [Worker -> Seq(Reply)]
  BY DEF TransportInv, TypeOK, ResolverTypeOK
<1>2. /\ at'[w] = a /\ task'[w] = "idle" /\ task' = [task EXCEPT ![w] = "idle"]
      /\ asked' = asked /\ response' = response /\ logged' = logged
  BY <1>1 DEF Returned
<1>3. \A v \in Worker \ {w} : Untouched(v)
  BY <1>1, <1>2 DEF Untouched
<1>4. TypeOK'
  <2>1. out' \in [Worker -> Seq(Reply)]
    <3>1. CASE out' = out
      BY <1>1, <3>1
    <3>2. CASE out' = [out EXCEPT ![w] = Append(@, response[w])] /\ task[w] = "done"
      <4>1. response[w] \in Reply
        BY <3>2, WorkerTyped DEF Served, WholeReply
      <4>2. Append(out[w], response[w]) \in Seq(Reply)
        BY <1>1, <4>1, AppendProperties
      <4> QED BY <1>1, <3>2, <4>2
    <3> QED BY <3>1, <3>2
  <2>2. /\ at' \in [Worker -> Stage]
        /\ \A u, v \in Worker : at'[u] = "handshake" /\ at'[v] = "handshake" => u = v
    BY <1>1 DEF TransportInv, TypeOK, Stage
  <2>3. ResolverTypeOK'
    BY <1>2 DEF TransportInv, TypeOK, ResolverTypeOK, TaskStage
  <2> QED BY <2>1, <2>2, <2>3 DEF TransportInv, TypeOK
<1>5. Phase(w)'
  <2>1. Phase(w)
    BY WorkerTyped
  <2>2. a = "length" => kind[w] = "dot"
    OBVIOUS
  <2> QED BY <1>2, <2>1, <2>2 DEF Phase
<1>6. Aligned(w)'
  <2>1. Header(w) = <<>> /\ Header(w)' = <<>>
    BY <1>2 DEF Header
  <2> QED BY <1>2, <2>1, WorkerTyped DEF Aligned
<1>7. Served(w)'
  <2>1. CASE a = "closed"
    BY <1>2, <2>1 DEF Served
  <2>2. CASE a = "length"
    <3>1. out'[w] = Append(out[w], response[w]) /\ task[w] = "done"
      BY <1>1, <2>2
    <3>2. Len(out'[w]) = Len(out[w]) + 1
      <4>1. out[w] \in Seq(Reply) /\ response[w] \in Reply
        BY <3>1, WorkerTyped DEF Served, WholeReply
      <4> QED BY <3>1, <4>1, AppendProperties
    <3>3. asked[w] = logged[w] /\ Len(logged[w]) = Len(out[w]) + 1
      BY <3>1, WorkerTyped DEF Served
    <3> QED BY <1>2, <3>2, <3>3 DEF Served
  <2> QED BY <2>1, <2>2
<1> QED BY <1>3, <1>4, <1>5, <1>6, <1>7, OneWorker
-----------------------------------------------------------------------------
(***************************************************************************)
(* Steps of resolve_query.                                                 *)
(***************************************************************************)
Code == {"NOERROR", "NXDOMAIN", "SERVFAIL"}

\* the message being resolved is the last that was asked and not yet logged
LEMMA TheQuery ==
    ASSUME TransportInv, NEW w \in Worker, task[w] \in {"check", "forward"}
    PROVE  /\ Query(w) \in Message /\ asked[w] = Append(logged[w], Query(w))
           /\ at[w] = "resolving" /\ Len(logged[w]) = Len(out[w])
<1>1. PICK m \in Message : asked[w] = Append(logged[w], m)
  BY WorkerTyped DEF Served
<1>2. logged[w] \in Seq(Message)
  BY WorkerTyped
<1>3. Len(asked[w]) = Len(logged[w]) + 1 /\ asked[w][Len(logged[w]) + 1] = m
  BY <1>1, <1>2, AppendProperties
<1>4. Query(w) = m
  BY <1>3 DEF Query
<1>5. at[w] = "resolving"
  BY WorkerTyped DEF Phase
<1>6. Len(logged[w]) = Len(out[w])
  BY <1>5, WorkerTyped DEF Served
<1> QED BY <1>1, <1>4, <1>5, <1>6

\* Allowed and CheckRaises
LEMMA CheckKeeps ==
    ASSUME TransportInv, NEW w \in Worker, Allowed(w) \/ CheckRaises(w),
           UNCHANGED transport
    PROVE  TransportInv'
<1>1. PICK t \in {"forward", "raised"} : task' = [task EXCEPT ![w] = t]
  BY DEF Allowed, CheckRaises
<1>2. /\ task[w] = "check" /\ asked' = asked /\ response' = response /\ logged' = logged
      /\ kind' = kind /\ script' = script /\ sent' = sent /\ wire' = wire /\ gone' = gone
      /\ at' = at /\ buf' = buf /\ need' = need /\ out' = out
      /\ task \in [Worker -> TaskStage]
  BY DEF Allowed, CheckRaises, transport, TransportInv, TypeOK, ResolverTypeOK
<1>3. task'[w] = t
  BY <1>1, <1>2
<1>4. \A v \in Worker \ {w} : Untouched(v)
  BY <1>1, <1>2 DEF Untouched
<1>5. TypeOK'
  <2>1. task' \in [Worker -> TaskStage]
    BY <1>1, <1>2 DEF TaskStage
  <2> QED BY <1>2, <2>1 DEF TransportInv, TypeOK, ResolverTypeOK
<1>6. Phase(w)'
  BY <1>2, <1>3, WorkerTyped DEF Phase
<1>7. Aligned(w)'
  <2>1. Header(w)' = Header(w)
    BY <1>2 DEF Header
  <2> QED BY <1>2, <2>1, WorkerTyped DEF Aligned
<1>8. Served(w)'
  <2>1. Served(w) /\ at[w] # "closed"
    BY <1>2, WorkerTyped, TheQuery
  <2> QED BY <1>2, <1>3, <2>1 DEF Served
<1> QED BY <1>4, <1>5, <1>6, <1>7, <1>8, OneWorker

\* Blocked, UpstreamAnswers and UpstreamFails
LEMMA Answers ==
    ASSUME TransportInv, NEW w \in Worker, ResolverStep(w), ~(Allowed(w) \/ CheckRaises(w))
    PROVE  /\ task[w] \in {"check", "forward"}
           /\ \E rcode \in Code, n \in 0 .. MaxAnswer :
                Return(w, rcode, n) /\ (rcode # "NOERROR" => n = 0)
<1>1. 0 \in 0 .. MaxAnswer
  BY AnswerAssumption
<1>2. CASE Blocked(w)
  BY <1>1, <1>2 DEF Blocked, Code
<1>3. CASE UpstreamAnswers(w)
  BY <1>3 DEF UpstreamAnswers, Code
<1>4. CASE UpstreamFails(w)
  BY <1>1, <1>4 DEF UpstreamFails, Code
<1> QED BY <1>2, <1>3, <1>4 DEF ResolverStep

LEMMA ReplyIsWhole ==
    ASSUME NEW m \in Message, NEW rcode \in Code, NEW n \in 0 .. MaxAnswer,
           rcode # "NOERROR" => n = 0
    PROVE  /\ [query |-> m, rcode |-> rcode, answers |-> n] \in Reply
           /\ [query |-> m, rcode |-> rcode, answers |-> n] \in WholeReply
<1>1. [query |-> m, rcode |-> rcode, answers |-> n] \in Reply
  BY DEF Reply, Code
<1> QED BY <1>1 DEF WholeReply

LEMMA AnswerKeeps ==
    ASSUME TransportInv, NEW w \in Worker, task[w] \in {"check", "forward"},
           NEW rcode \in Code, NEW n \in 0 .. MaxAnswer, Return(w, rcode, n),
           rcode # "NOERROR" => n = 0, UNCHANGED transport
    PROVE  TransportInv'
<1> DEFINE r == [query |-> Query(w), rcode |-> rcode, answers |-> n]
<1>1. /\ Query(w) \in Message /\ asked[w] = Append(logged[w], Query(w))
      /\ at[w] = "resolving" /\ Len(logged[w]) = Len(out[w])
      /\ asked[w] \in Seq(Message) /\ logged[w] \in Seq(Message)
  BY TheQuery, WorkerTyped
<1>2. r \in Reply /\ r \in WholeReply /\ r.query = Query(w)
  BY <1>1, ReplyIsWhole
<1>3. /\ asked' = asked
      /\ \/ /\ task' = [task EXCEPT ![w] = "done"]
            /\ response' = [response EXCEPT ![w] = r]
         \/ task' = [task EXCEPT ![w] = "raised"] /\ response' = response
      /\ logged' = [logged EXCEPT ![w] = asked[w]]
      /\ kind' = kind /\ script' = script /\ sent' = sent /\ wire' = wire /\ gone' = gone
      /\ at' = at /\ buf' = buf /\ need' = need /\ out' = out
      /\ task \in [Worker -> TaskStage] /\ response \in [Worker -> Reply \cup {NoReply}]
      /\ logged \in [Worker -> Seq(Message)]
  BY <1>1 DEF Return, transport, TransportInv, TypeOK, ResolverTypeOK
<1> HIDE DEF r
<1>4. /\ task'[w] \in {"done", "raised"} /\ logged'[w] = asked[w]
      /\ task'[w] = "done" => response'[w] = r
  BY <1>3
<1>5. \A v \in Worker \ {w} : Untouched(v)
  BY <1>3 DEF Untouched
<1>6. TypeOK'
  <2>1. task' \in [Worker -> TaskStage]
    BY <1>3 DEF TaskStage
  <2>2. response' \in [Worker -> Reply \cup {NoReply}] /\ logged' \in [Worker -> Seq(Message)]
    BY <1>1, <1>2, <1>3
  <2> QED BY <1>3, <2>1, <2>2 DEF TransportInv, TypeOK, ResolverTypeOK
<1>7. Phase(w)'
  BY <1>1, <1>3, <1>4, WorkerTyped DEF Phase
<1>8. Aligned(w)'
  <2>1. Header(w)' = Header(w)
    BY <1>3 DEF Header
  <2> QED BY <1>3, <2>1, WorkerTyped DEF Aligned
<1>9. Served(w)'
  <2>1. Query(w)' = Query(w) /\ asked'[w] = asked[w] /\ out'[w] = out[w]
    BY <1>3 DEF Query
  <2>2. Len(asked[w]) = Len(out[w]) + 1
    BY <1>1, AppendProperties
  <2> QED BY <1>2, <1>4, <2>1, <2>2 DEF Served
<1> QED BY <1>5, <1>6, <1>7, <1>8, <1>9, OneWorker
-----------------------------------------------------------------------------
LEMMA TransportStep == TransportInv /\ [Next]_vars => TransportInv'
<1> SUFFICES ASSUME TransportInv, [Next]_vars PROVE TransportInv'
  OBVIOUS
<1>0. {"handshake", "started", "length", "closed"} \subseteq Stage
  BY DEF Stage
<1>1. CASE UNCHANGED vars
  <2>1. TypeOK'
    BY <1>1 DEF vars, transport, resolver, TransportInv, TypeOK, ResolverTypeOK
  <2>2. ASSUME NEW v \in Worker PROVE Phase(v)' /\ Aligned(v)' /\ Served(v)'
    <3>1. Untouched(v)
      BY <1>1 DEF vars, transport, resolver, Untouched
    <3> QED BY <3>1, UntouchedKeep DEF TransportInv
  <2> QED BY <2>1, <2>2 DEF TransportInv
<1>2. ASSUME NEW w \in Worker, Send(w) \/ Leave(w) PROVE TransportInv'
  BY <1>2, SendKeeps, LeaveKeeps
<1>3. ASSUME NEW w \in Worker, Accept(w) PROVE TransportInv'
  BY <1>0, <1>3, Moves DEF Accept
<1>4. ASSUME NEW w \in Worker, StartThread(w) PROVE TransportInv'
  BY <1>0, <1>4, Moves DEF StartThread
<1>5. ASSUME NEW w \in Worker, Peer(w) PROVE TransportInv'
  BY <1>0, <1>5, Moves DEF Peer
<1>6. ASSUME NEW w \in Worker,
             HandshakeFails(w) \/ PeerGone(w) \/ EndOfStream(w) \/ Refuse(w)
      PROVE  TransportInv'
  <2>1. /\ at' = [at EXCEPT ![w] = "closed"] /\ at[w] # "resolving"
        /\ UNCHANGED <<kind, script, sent, wire, gone, buf, need, out, resolver>>
    BY <1>6 DEF HandshakeFails, PeerGone, EndOfStream, Refuse, Wanting, Close
  <2> QED BY <1>0, <2>1, Moves
<1>7. ASSUME NEW w \in Worker, NEW n \in 1 .. Len(wire[w]), Receive(w, n)
      PROVE  TransportInv'
  BY <1>7, ReceiveKeeps
<1>8. ASSUME NEW w \in Worker, Length(w) \/ Body(w) \/ Request(w) PROVE TransportInv'
  BY <1>8, LengthKeeps, BodyKeeps, RequestKeeps
<1>9. ASSUME NEW w \in Worker, SendReply(w) \/ SendFails(w) \/ Respond(w) \/ Failed(w)
      PROVE  TransportInv'
  <2>1. CASE SendReply(w)
    BY <2>1, ReturnKeeps DEF SendReply
  <2>2. CASE SendFails(w)
    BY <2>2, ReturnKeeps DEF SendFails, Close
  <2>3. CASE Respond(w)
    BY <2>3, ReturnKeeps DEF Respond, Close
  <2>4. CASE Failed(w)
    BY <2>4, ReturnKeeps DEF Failed, Close
  <2> QED BY <1>9, <2>1, <2>2, <2>3, <2>4
<1>10. ASSUME NEW w \in Worker, Resolving(w) PROVE TransportInv'
  <2>1. ResolverStep(w) /\ UNCHANGED transport
    BY <1>10 DEF Resolving
  <2>2. CASE Allowed(w) \/ CheckRaises(w)
    BY <2>1, <2>2, CheckKeeps
  <2>3. CASE ~(Allowed(w) \/ CheckRaises(w))
    BY <2>1, <2>3, Answers, AnswerKeeps
  <2> QED BY <2>2, <2>3
<1> QED
  BY <1>1, <1>2, <1>3, <1>4, <1>5, <1>6, <1>7, <1>8, <1>9, <1>10
     DEF Next, Handshake, Handle

\* What is cut out of a stream is a message, a length is that of the next one,
\* what is sent are replies, and one thread at most is in accept(), for any
\* number of connections, any scripts and any splitting into chunks.
THEOREM TypeCorrect == Spec => []TypeOK
<1>1. TransportInv => TypeOK
  BY DEF TransportInv
<1> QED BY <1>1, TransportInit, TransportStep, PTL DEF Spec

\* The messages resolved are those sent, in order, and buffer and socket begin
\* at a frame.
THEOREM StreamIsAligned == Spec => []FramesAligned
<1>1. TransportInv => FramesAligned
  BY DEF TransportInv, FramesAligned, Aligned
<1> QED BY <1>1, TransportInit, TransportStep, PTL DEF Spec
-----------------------------------------------------------------------------
(***************************************************************************)
(* All transports implement QueryService: a message is logged in the step  *)
(* that makes its reply, and answered in the step that sends it.           *)
(***************************************************************************)
Open == [w \in Worker |-> at[w] # "closed"]

LEMMA RefinesInit == Init => Service!Init
BY DEF Init, ResolverInit, Service!Init

LEMMA RefinesStep == TransportInv /\ [Next]_vars => [Service!Next]_Service!vars
<1> SUFFICES ASSUME TransportInv, [Next]_vars PROVE [Service!Next]_Service!vars
  OBVIOUS
<1>0. at \in [Worker -> Stage] /\ out \in [Worker -> Seq(Reply)]
  BY DEF TransportInv, TypeOK
<1>a. ASSUME UNCHANGED <<script, logged, out, Open>> PROVE UNCHANGED Service!vars
  BY <1>a DEF Service!vars, Open
\* steps of which the client sees nothing
<1>b. ASSUME NEW w \in Worker, NEW a \in Stage \ {"closed"}, at[w] # "closed",
             at' = [at EXCEPT ![w] = a]
      PROVE  Open' = Open
  <2>1. \A v \in Worker : (at'[v] # "closed") = (at[v] # "closed")
    BY <1>0, <1>b
  <2> QED BY <2>1 DEF Open
\* steps that end the exchange
<1>c. ASSUME NEW w \in Worker, at[w] # "closed", Close(w), UNCHANGED <<script, logged, out>>
      PROVE  Service!Next
  <2>1. Open' = [Open EXCEPT ![w] = FALSE] /\ Open[w]
    BY <1>0, <1>c DEF Close, Open
  <2>2. Service!End(w)
    BY <1>c, <2>1 DEF Service!End, Open
  <2> QED BY <2>2 DEF Service!Next
<1>1. CASE UNCHANGED vars
  BY <1>1, <1>a DEF vars, transport, resolver, Open
<1>2. ASSUME NEW w \in Worker, Send(w) \/ Leave(w) PROVE UNCHANGED Service!vars
  BY <1>2, <1>a DEF Send, Leave, resolver, Open
<1>3. ASSUME NEW w \in Worker, Accept(w) PROVE UNCHANGED Service!vars
  BY <1>3, <1>a, <1>b DEF Accept, Stage, resolver
<1>4. ASSUME NEW w \in Worker, StartThread(w) PROVE UNCHANGED Service!vars
  BY <1>4, <1>a, <1>b DEF StartThread, Stage, resolver
<1>5. ASSUME NEW w \in Worker, Peer(w) PROVE UNCHANGED Service!vars
  BY <1>5, <1>a, <1>b DEF Peer, Stage, resolver
<1>6. ASSUME NEW w \in Worker,
             HandshakeFails(w) \/ PeerGone(w) \/ EndOfStream(w) \/ Refuse(w)
      PROVE  Service!Next
  <2>1. at[w] # "closed" /\ Close(w) /\ UNCHANGED <<script, logged, out>>
    BY <1>6 DEF HandshakeFails, PeerGone, EndOfStream, Refuse, Wanting, resolver
  <2> QED BY <1>c, <2>1
<1>7. ASSUME NEW w \in Worker, NEW n \in 1 .. Len(wire[w]), Receive(w, n)
      PROVE  UNCHANGED Service!vars
  BY <1>7, <1>a DEF Receive, resolver, Open
<1>8. ASSUME NEW w \in Worker, Length(w) PROVE UNCHANGED Service!vars
  BY <1>8, <1>a, <1>b DEF Length, Stage, resolver
<1>9. ASSUME NEW w \in Worker, Body(w) \/ Request(w) PROVE UNCHANGED Service!vars
  <2>1. /\ at[w] # "closed" /\ at' = [at EXCEPT ![w] = "resolving"]
        /\ UNCHANGED <<script, logged, out>>
    BY <1>9 DEF Body, Request, Resolve
  <2> QED BY <1>a, <1>b, <2>1 DEF Stage
<1>10. ASSUME NEW w \in Worker, SendFails(w) \/ Failed(w) PROVE Service!Next
  <2>1. at[w] # "closed" /\ Close(w) /\ UNCHANGED <<script, logged, out>>
    BY <1>10 DEF SendFails, Failed, Returned
  <2> QED BY <1>c, <2>1
<1>11. ASSUME NEW w \in Worker, SendReply(w) \/ Respond(w) PROVE Service!Next
  <2>1. /\ at[w] = "resolving" /\ task[w] = "done" /\ UNCHANGED <<script, logged>>
        /\ out' = [out EXCEPT ![w] = Append(out[w], response[w])]
        /\ at' = [at EXCEPT ![w] = "length"] \/ at' = [at EXCEPT ![w] = "closed"]
    BY <1>11 DEF SendReply, Respond, Close, Returned
  <2>2. PICK last \in BOOLEAN : Open' = [Open EXCEPT ![w] = ~last]
    <3>1. CASE at' = [at EXCEPT ![w] = "length"]
      <4>1. \A v \in Worker : (at'[v] # "closed") = (IF v = w THEN TRUE ELSE at[v] # "closed")
        BY <1>0, <3>1
      <4>2. Open' = [Open EXCEPT ![w] = ~FALSE]
        BY <4>1 DEF Open
      <4> QED BY <4>2
    <3>2. CASE at' = [at EXCEPT ![w] = "closed"]
      <4>1. \A v \in Worker : (at'[v] # "closed") = (IF v = w THEN FALSE ELSE at[v] # "closed")
        BY <1>0, <3>2
      <4>2. Open' = [Open EXCEPT ![w] = ~TRUE]
        BY <4>1 DEF Open
      <4> QED BY <4>2
    <3> QED BY <2>1, <3>1, <3>2
  <2>3. /\ response[w] \in WholeReply /\ response[w].query = Query(w)
        /\ asked[w] = logged[w] /\ Len(logged[w]) = Len(out[w]) + 1
        /\ Len(out[w]) \in Nat
    BY <1>0, <2>1, WorkerTyped, LenProperties DEF Served
  <2>4. Len(out[w]) < Len(logged[w]) /\ response[w].query = logged[w][Len(logged[w])]
    BY <2>3 DEF Query
  <2>5. Open[w]
    BY <2>1 DEF Open
  <2>6. Service!Answer(w)
    BY <2>1, <2>2, <2>3, <2>4, <2>5 DEF Service!Answer, Open
  <2> QED BY <2>6 DEF Service!Next
<1>12. ASSUME NEW w \in Worker, Resolving(w) PROVE [Service!Next]_Service!vars
  <2>1. ResolverStep(w) /\ UNCHANGED transport
    BY <1>12 DEF Resolving
  <2>2. CASE Allowed(w) \/ CheckRaises(w)
    BY <2>1, <2>2, <1>a DEF Allowed, CheckRaises, transport, Open
  <2>3. CASE ~(Allowed(w) \/ CheckRaises(w))
    <3>1. /\ task[w] \in {"check", "forward"}
          /\ \E rcode \in Code, n \in 0 .. MaxAnswer : Return(w, rcode, n)
      BY <2>1, <2>3, Answers
    <3>2. /\ asked[w] = Append(logged[w], Query(w)) /\ at[w] = "resolving"
          /\ Len(logged[w]) = Len(out[w]) /\ Query(w) \in Message
      BY <3>1, TheQuery
    <3>3. /\ logged[w] \in Seq(Message) /\ script[w] \in Seq(Message)
          /\ Len(asked[w]) <= Len(script[w]) /\ Len(script[w]) \in Nat
          /\ asked[w] = SubSeq(script[w], 1, Len(asked[w]))
      BY WorkerTyped DEF Phase, Aligned
    <3> DEFINE k == Len(logged[w])
    <3>4. k \in Nat /\ Len(asked[w]) = k + 1 /\ asked[w][k + 1] = Query(w)
      BY <3>2, <3>3, LenProperties, AppendProperties
    <3>5. Query(w) = script[w][k + 1]
      <4> DEFINE s == script[w]
                 j == k + 1
      <4>1. /\ 1 \in Int /\ j \in Int /\ j \in 1 .. j - 1 + 1 /\ 1 <= j /\ 1 + j - 1 = j
            /\ \A i \in 1 .. j : s[i] \in Message
        <5>1. s \in Seq(Message) /\ j \in Nat /\ 1 <= j /\ j <= Len(s) /\ Len(s) \in Nat
          BY <3>3, <3>4
        <5> HIDE DEF s, j
        <5> QED BY <5>1, ElementOfSeq
      <4>2. asked[w] = SubSeq(s, 1, j) /\ asked[w][j] = Query(w)
        BY <3>3, <3>4
      <4> HIDE DEF s, j
      <4>3. SubSeq(s, 1, j)[j] = s[1 + j - 1]
        BY <4>1, SubSeqProperties
      <4> QED BY <4>1, <4>2, <4>3 DEF s, j
    <3>6. /\ logged' = [logged EXCEPT ![w] = Append(logged[w], script[w][k + 1])]
          /\ script' = script /\ out' = out /\ at' = at
      BY <2>1, <3>1, <3>5 DEF Return, transport
    <3>7. Open[w] /\ Open' = Open
      BY <3>2, <3>6 DEF Open
    <3>8. k < Len(script[w]) /\ k = Len(out[w])
      BY <3>2, <3>3, <3>4
    <3>9. Service!Log(w)
      BY <3>6, <3>7, <3>8 DEF Service!Log, Open
    <3> QED BY <3>9 DEF Service!Next
  <2> QED BY <2>2, <2>3
<1> QED
  BY <1>1, <1>2, <1>3, <1>4, <1>5, <1>6, <1>7, <1>8, <1>9, <1>10, <1>11, <1>12
     DEF Next, Handshake, Handle

\* Whatever the transport, the split into chunks and the failures, each message
\* is logged once and then answered once, in order, with its own whole reply.
THEOREM ServiceIsImplemented == Spec => ImplementsService
  BY RefinesInit, RefinesStep, TransportInit, TransportStep, PTL
     DEF Spec, ImplementsService, Service!Spec
=============================================================================
