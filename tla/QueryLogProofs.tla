----------------------------- MODULE QueryLogProofs -----------------------------
(***************************************************************************)
(* Proofs about QueryLog, for any capacity of the queue and any number of  *)
(* queries.                                                                *)
(***************************************************************************)
EXTENDS QueryLog, SequenceTheorems, TLAPS

(***************************************************************************)
(* What a queue holds besides Stop.                                        *)
(***************************************************************************)
Item == Entry \cup {Stop}

\* Stop is in q at most once
Once(q) == \A j, k \in 1 .. Len(q) : q[j] = Stop /\ q[k] = Stop => j = k

LEMMA StopIsNoEntry == Stop \notin Entry /\ Entry \subseteq Nat
BY StopAssumption, CapacityAssumption DEF Entry

LEMMA OthersOfEntries ==
    ASSUME NEW q \in Seq(Item), StopsIn(q) = {}
    PROVE  q \in Seq(Entry) /\ Others(q) = q
<1>1. \A k \in 1 .. Len(q) : q[k] \in Entry
  BY ElementOfSeq DEF StopsIn, Item
<1>2. q \in [1 .. Len(q) -> Entry] /\ Len(q) \in Nat
  BY <1>1, LenProperties
<1> QED BY <1>2 DEF Others

LEMMA OthersAroundStop ==
    ASSUME NEW q \in Seq(Item), Once(q), NEW n \in 1 .. Len(q), q[n] = Stop
    PROVE  /\ Others(q) \in Seq(Entry) /\ Len(Others(q)) = Len(q) - 1
           /\ \A k \in 1 .. Len(q) - 1 :
                Others(q)[k] = IF k < n THEN q[k] ELSE q[k + 1]
<1> DEFINE rest == [k \in 1 .. Len(q) - 1 |-> IF k < n THEN q[k] ELSE q[k + 1]]
<1>1. StopsIn(q) = {n}
  BY DEF StopsIn, Once
<1>2. Others(q) = rest
  BY <1>1 DEF Others
<1>3. Len(q) \in Nat /\ Len(q) - 1 \in Nat
  BY LenProperties
<1>4. ASSUME NEW k \in 1 .. Len(q) - 1 PROVE rest[k] \in Entry
  <2>1. CASE k < n
    <3>1. k \in 1 .. Len(q) /\ k # n
      BY <1>3, <2>1
    <3>2. q[k] \in Item /\ q[k] # Stop
      BY <1>1, <3>1, ElementOfSeq DEF StopsIn
    <3> QED BY <2>1, <3>2 DEF Item
  <2>2. CASE ~(k < n)
    <3>1. k + 1 \in 1 .. Len(q) /\ k + 1 # n
      BY <1>3, <2>2
    <3>2. q[k + 1] \in Item /\ q[k + 1] # Stop
      BY <1>1, <3>1, ElementOfSeq DEF StopsIn
    <3> QED BY <2>2, <3>2 DEF Item
  <2> QED BY <2>1, <2>2
<1>5. rest \in [1 .. Len(q) - 1 -> Entry]
  BY <1>4
<1> HIDE DEF rest
<1>6. rest \in Seq(Entry) /\ Len(rest) = Len(q) - 1
  BY <1>3, <1>5
<1> QED BY <1>2, <1>6 DEF rest

LEMMA OthersTyped ==
    ASSUME NEW q \in Seq(Item), Once(q)
    PROVE  Others(q) \in Seq(Entry)
<1>1. CASE StopsIn(q) = {}
  BY <1>1, OthersOfEntries
<1>2. CASE StopsIn(q) # {}
  BY <1>2, OthersAroundStop DEF StopsIn
<1> QED BY <1>1, <1>2

LEMMA OthersOfAppend ==
    ASSUME NEW q \in Seq(Item), Once(q), NEW e \in Entry
    PROVE  /\ Once(Append(q, e)) /\ Others(Append(q, e)) = Append(Others(q), e)
           /\ StopsIn(Append(q, e)) = StopsIn(q)
<1> DEFINE p == Append(q, e)
<1>1. /\ p \in Seq(Item) /\ Len(p) = Len(q) + 1 /\ Len(q) \in Nat
      /\ \A k \in 1 .. Len(q) : p[k] = q[k]
      /\ p[Len(q) + 1] = e
  BY AppendProperties, LenProperties DEF Item
<1> HIDE DEF p
<1>2. StopsIn(p) = StopsIn(q) /\ Once(p)
  BY <1>1, StopIsNoEntry DEF StopsIn, Once
<1>3. CASE StopsIn(q) = {}
  BY <1>1, <1>2, <1>3, OthersOfEntries DEF p
<1>4. CASE StopsIn(q) # {}
  <2>1. PICK n \in 1 .. Len(q) : q[n] = Stop
    BY <1>4 DEF StopsIn
  <2>2. n \in 1 .. Len(p) /\ p[n] = Stop
    BY <1>1, <2>1
  <2>3. /\ Others(q) \in Seq(Entry) /\ Len(Others(q)) = Len(q) - 1
        /\ \A k \in 1 .. Len(q) - 1 :
             Others(q)[k] = IF k < n THEN q[k] ELSE q[k + 1]
    BY <2>1, OthersAroundStop
  <2>4. /\ Others(p) \in Seq(Entry) /\ Len(Others(p)) = Len(p) - 1
        /\ \A k \in 1 .. Len(p) - 1 :
             Others(p)[k] = IF k < n THEN p[k] ELSE p[k + 1]
    BY <1>1, <1>2, <2>2, OthersAroundStop
  <2> DEFINE a == Append(Others(q), e)
  <2>5. /\ a \in Seq(Entry) /\ Len(a) = Len(q)
        /\ \A k \in 1 .. Len(q) - 1 : a[k] = Others(q)[k]
        /\ a[Len(q)] = e
    BY <1>1, <2>3, AppendProperties
  <2> HIDE DEF a
  <2>6. ASSUME NEW k \in 1 .. Len(q) PROVE Others(p)[k] = a[k]
    <3>1. CASE k = Len(q)
      BY <1>1, <2>1, <2>4, <2>5, <3>1
    <3>2. CASE k # Len(q)
      <4>1. k \in 1 .. Len(q) - 1 /\ k + 1 \in 1 .. Len(q) /\ k \in 1 .. Len(p) - 1
        BY <1>1, <3>2
      <4>2. p[k] = q[k] /\ p[k + 1] = q[k + 1]
        BY <1>1, <4>1
      <4> QED BY <2>3, <2>4, <2>5, <4>1, <4>2
    <3> QED BY <3>1, <3>2
  <2>7. Others(p) = a
    <3>1. Len(Others(p)) = Len(q) /\ Len(a) = Len(q)
      BY <1>1, <2>4, <2>5
    <3> QED BY <2>4, <2>5, <2>6, <3>1, SeqEqual
  <2> QED BY <1>2, <2>7 DEF p, a
<1> QED BY <1>3, <1>4

LEMMA OthersOfStopped ==
    ASSUME NEW q \in Seq(Item), StopsIn(q) = {}
    PROVE  /\ Append(q, Stop) \in Seq(Item) /\ Once(Append(q, Stop))
           /\ Others(Append(q, Stop)) = q
<1> DEFINE p == Append(q, Stop)
<1>1. /\ p \in Seq(Item) /\ Len(p) = Len(q) + 1 /\ Len(q) \in Nat
      /\ \A k \in 1 .. Len(q) : p[k] = q[k]
      /\ p[Len(q) + 1] = Stop
  BY AppendProperties, LenProperties DEF Item
<1> HIDE DEF p
<1>2. Once(p)
  BY <1>1 DEF Once, StopsIn
<1>3. q \in Seq(Entry)
  BY OthersOfEntries
<1>4. /\ Others(p) \in Seq(Entry) /\ Len(Others(p)) = Len(q)
      /\ \A k \in 1 .. Len(q) : Others(p)[k] = q[k]
  <2>1. Len(q) + 1 \in 1 .. Len(p)
    BY <1>1
  <2>2. /\ Others(p) \in Seq(Entry) /\ Len(Others(p)) = Len(p) - 1
        /\ \A k \in 1 .. Len(p) - 1 :
             Others(p)[k] = IF k < Len(q) + 1 THEN p[k] ELSE p[k + 1]
    BY <1>1, <1>2, <2>1, OthersAroundStop
  <2> QED BY <1>1, <2>2
<1>5. Others(p) = q
  BY <1>3, <1>4, SeqEqual
<1> QED BY <1>1, <1>2, <1>5 DEF p

\* taking the head off a queue
LEMMA OthersOfTail ==
    ASSUME NEW q \in Seq(Item), Once(q), q # <<>>
    PROVE  /\ Once(Tail(q)) /\ Tail(q) \in Seq(Item)
           /\ Head(q) = Stop => StopsIn(Tail(q)) = {} /\ Others(Tail(q)) = Others(q)
           /\ Head(q) # Stop =>
                Head(q) \in Entry /\ Others(q) = <<Head(q)>> \o Others(Tail(q))
<1> DEFINE t == Tail(q)
<1>1. /\ t \in Seq(Item) /\ Len(t) = Len(q) - 1 /\ Len(q) \in Nat \ {0}
      /\ \A k \in 1 .. Len(t) : t[k] = q[k + 1]
      /\ Head(q) = q[1] /\ Head(q) \in Item
  BY HeadTailProperties, EmptySeq
<1> HIDE DEF t
<1>2. Once(t)
  <2> SUFFICES ASSUME NEW j \in 1 .. Len(t), NEW k \in 1 .. Len(t),
                      t[j] = Stop, t[k] = Stop
               PROVE  j = k
    BY DEF Once
  <2>1. j + 1 \in 1 .. Len(q) /\ k + 1 \in 1 .. Len(q)
    BY <1>1
  <2>2. j + 1 = k + 1
    BY <1>1, <2>1 DEF Once
  <2> QED BY <2>2
<1>3. ASSUME Head(q) = Stop
      PROVE  StopsIn(t) = {} /\ Others(t) = Others(q)
  <2>1. 1 \in 1 .. Len(q) /\ q[1] = Stop
    BY <1>1, <1>3
  <2>2. ASSUME NEW k \in 1 .. Len(t) PROVE t[k] # Stop
    <3>1. k + 1 \in 1 .. Len(q) /\ k + 1 # 1
      BY <1>1
    <3> QED BY <1>1, <2>1, <3>1 DEF Once
  <2>3. StopsIn(t) = {}
    BY <2>2 DEF StopsIn
  <2>4. t \in Seq(Entry) /\ Others(t) = t
    BY <1>1, <2>3, OthersOfEntries
  <2>5. /\ Others(q) \in Seq(Entry) /\ Len(Others(q)) = Len(q) - 1
        /\ \A k \in 1 .. Len(q) - 1 :
             Others(q)[k] = IF k < 1 THEN q[k] ELSE q[k + 1]
    BY <2>1, OthersAroundStop
  <2>6. \A k \in 1 .. Len(t) : Others(q)[k] = t[k]
    BY <1>1, <2>5
  <2>7. Others(q) = t
    BY <1>1, <2>4, <2>5, <2>6, SeqEqual
  <2> QED BY <2>3, <2>4, <2>7
<1>4. ASSUME Head(q) # Stop
      PROVE  Head(q) \in Entry /\ Others(q) = <<Head(q)>> \o Others(t)
  <2>1. Head(q) \in Entry
    BY <1>1, <1>4 DEF Item
  <2>2. Others(t) \in Seq(Entry)
    BY <1>1, <1>2, OthersTyped
  <2> DEFINE h == <<Head(q)>>
             a == h \o Others(t)
  <2>3. h \in Seq(Entry) /\ Len(h) = 1 /\ h[1] = q[1]
    BY <1>1, <2>1
  <2> HIDE DEF h
  <2>4. /\ a \in Seq(Entry) /\ Len(a) = Len(Others(t)) + 1
        /\ a[1] = q[1]
        /\ \A k \in 1 .. Len(Others(t)) : a[k + 1] = Others(t)[k]
    <3>1. Len(Others(t)) \in Nat
      BY <2>2, LenProperties
    <3>2. /\ a \in Seq(Entry) /\ Len(a) = Len(h) + Len(Others(t))
          /\ \A i \in 1 .. Len(h) + Len(Others(t)) :
               a[i] = IF i <= Len(h) THEN h[i] ELSE Others(t)[i - Len(h)]
      BY <2>2, <2>3, ConcatProperties
    <3> HIDE DEF a
    <3>3. ASSUME NEW k \in 1 .. Len(Others(t)) PROVE a[k + 1] = Others(t)[k]
      <4>1. k + 1 \in 1 .. 1 + Len(Others(t)) /\ ~(k + 1 <= 1) /\ (k + 1) - 1 = k
        BY <3>1
      <4> QED BY <2>3, <3>2, <4>1
    <3> QED BY <2>3, <3>1, <3>2, <3>3
  <2> HIDE DEF a
  <2>5. CASE StopsIn(q) = {}
    <3>1. StopsIn(t) = {}
      BY <1>1, <2>5 DEF StopsIn
    <3>2. Others(t) = t /\ Others(q) = q /\ q \in Seq(Entry)
      BY <1>1, <2>5, <3>1, OthersOfEntries
    <3>3. ASSUME NEW k \in 1 .. Len(q) PROVE q[k] = a[k]
      <4>1. CASE k = 1
        BY <2>4, <4>1
      <4>2. CASE k # 1
        <5>1. PICK m \in 1 .. Len(t) : k = m + 1
          BY <1>1, <4>2
        <5> QED BY <1>1, <2>4, <3>2, <5>1
      <4> QED BY <4>1, <4>2
    <3>4. q = a
      BY <1>1, <2>4, <3>2, <3>3, SeqEqual
    <3> QED BY <2>1, <3>2, <3>4 DEF a, h
  <2>6. CASE StopsIn(q) # {}
    <3>1. PICK n \in 1 .. Len(q) : q[n] = Stop
      BY <2>6 DEF StopsIn
    <3>2. PICK m \in 1 .. Len(t) : n = m + 1
      BY <1>1, <1>4, <3>1
    <3>3. t[m] = Stop
      BY <1>1, <3>1, <3>2
    <3>4. /\ Others(q) \in Seq(Entry) /\ Len(Others(q)) = Len(q) - 1
          /\ \A k \in 1 .. Len(q) - 1 :
               Others(q)[k] = IF k < n THEN q[k] ELSE q[k + 1]
      BY <3>1, OthersAroundStop
    <3>5. /\ Len(Others(t)) = Len(t) - 1
          /\ \A k \in 1 .. Len(t) - 1 :
               Others(t)[k] = IF k < m THEN t[k] ELSE t[k + 1]
      BY <1>1, <1>2, <3>3, OthersAroundStop
    <3>6. ASSUME NEW k \in 1 .. Len(q) - 1 PROVE Others(q)[k] = a[k]
      <4>1. CASE k = 1
        BY <1>1, <2>4, <3>2, <3>4, <4>1
      <4>2. CASE k # 1
        <5>1. PICK j \in 1 .. Len(t) - 1 : k = j + 1
          BY <1>1, <4>2
        <5>2. a[k] = Others(t)[j] /\ t[j] = q[k] /\ t[j + 1] = q[k + 1]
          <6>1. j \in 1 .. Len(t) /\ j + 1 \in 1 .. Len(t) /\ Len(t) \in Nat
            BY <1>1, <5>1
          <6> QED BY <1>1, <2>4, <3>5, <5>1, <6>1
        <5>3. k < n <=> j < m
          BY <3>2, <5>1
        <5> QED BY <3>4, <3>5, <5>1, <5>2, <5>3
      <4> QED BY <4>1, <4>2
    <3>7. Others(q) = a
      <4>1. Len(a) = Len(q) - 1
        BY <1>1, <2>4, <3>5
      <4> QED BY <2>4, <3>4, <3>6, <4>1, SeqEqual
    <3> QED BY <2>1, <3>7 DEF a, h
  <2> QED BY <2>5, <2>6
<1> QED BY <1>1, <1>2, <1>3, <1>4 DEF t
-----------------------------------------------------------------------------
(***************************************************************************)
(* Order.  Increasing(s \o t) is taken apart into facts about s and t.     *)
(***************************************************************************)
Below(s, t) == \A i \in 1 .. Len(s), j \in 1 .. Len(t) : s[i] < t[j]
UpTo(s, n)  == \A i \in 1 .. Len(s) : s[i] <= n

\* the elements of s \o t, from left to right
LEMMA ConcatElements ==
    ASSUME NEW s \in Seq(Entry), NEW t \in Seq(Entry)
    PROVE  /\ s \o t \in Seq(Entry) /\ Len(s) \in Nat /\ Len(t) \in Nat
           /\ Len(s \o t) = Len(s) + Len(t)
           /\ \A i \in 1 .. Len(s) : (s \o t)[i] = s[i] /\ i \in 1 .. Len(s \o t)
           /\ \A j \in 1 .. Len(t) :
                (s \o t)[Len(s) + j] = t[j] /\ Len(s) + j \in 1 .. Len(s \o t)
           /\ \A k \in 1 .. Len(s \o t) :
                k \in 1 .. Len(s) \/ \E j \in 1 .. Len(t) : k = Len(s) + j
<1>1. Len(s) \in Nat /\ Len(t) \in Nat
  BY LenProperties
<1>2. /\ s \o t \in Seq(Entry) /\ Len(s \o t) = Len(s) + Len(t)
      /\ \A i \in 1 .. Len(s) + Len(t) :
           (s \o t)[i] = IF i <= Len(s) THEN s[i] ELSE t[i - Len(s)]
  BY ConcatProperties
<1>3. ASSUME NEW i \in 1 .. Len(s)
      PROVE  (s \o t)[i] = s[i] /\ i \in 1 .. Len(s \o t)
  BY <1>1, <1>2
<1>4. ASSUME NEW j \in 1 .. Len(t)
      PROVE  (s \o t)[Len(s) + j] = t[j] /\ Len(s) + j \in 1 .. Len(s \o t)
  <2>1. /\ Len(s) + j \in 1 .. Len(s) + Len(t) /\ ~(Len(s) + j <= Len(s))
        /\ (Len(s) + j) - Len(s) = j
    BY <1>1
  <2> QED BY <1>2, <2>1
<1>5. ASSUME NEW k \in 1 .. Len(s \o t), k \notin 1 .. Len(s)
      PROVE  \E j \in 1 .. Len(t) : k = Len(s) + j
  <2>1. k - Len(s) \in 1 .. Len(t) /\ k = Len(s) + (k - Len(s))
    BY <1>1, <1>2, <1>5
  <2> QED BY <2>1
<1> QED BY <1>1, <1>2, <1>3, <1>4, <1>5

LEMMA IncreasingParts ==
    ASSUME NEW s \in Seq(Entry), NEW t \in Seq(Entry)
    PROVE  Increasing(s \o t) <=> Increasing(s) /\ Increasing(t) /\ Below(s, t)
<1> DEFINE u == s \o t
<1>1. /\ u \in Seq(Entry) /\ Len(s) \in Nat /\ Len(t) \in Nat
      /\ \A i \in 1 .. Len(s) : u[i] = s[i] /\ i \in 1 .. Len(u)
      /\ \A j \in 1 .. Len(t) : u[Len(s) + j] = t[j] /\ Len(s) + j \in 1 .. Len(u)
      /\ \A k \in 1 .. Len(u) :
           k \in 1 .. Len(s) \/ \E j \in 1 .. Len(t) : k = Len(s) + j
  BY ConcatElements
<1> HIDE DEF u
<1>2. ASSUME Increasing(u)
      PROVE  Increasing(s) /\ Increasing(t) /\ Below(s, t)
  <2>1. Increasing(s)
    BY <1>1, <1>2 DEF Increasing
  <2>2. Increasing(t)
    <3> SUFFICES ASSUME NEW j \in 1 .. Len(t), NEW k \in 1 .. Len(t), j < k
                 PROVE  t[j] < t[k]
      BY DEF Increasing
    <3>1. Len(s) + j < Len(s) + k
      BY <1>1
    <3> QED BY <1>1, <1>2, <3>1 DEF Increasing
  <2>3. ASSUME NEW i \in 1 .. Len(s), NEW j \in 1 .. Len(t) PROVE s[i] < t[j]
    <3>1. i < Len(s) + j
      BY <1>1
    <3> QED BY <1>1, <1>2, <3>1 DEF Increasing
  <2> QED BY <2>1, <2>2, <2>3 DEF Below
<1>3. ASSUME Increasing(s), Increasing(t), Below(s, t)
      PROVE  Increasing(u)
  <2> SUFFICES ASSUME NEW j \in 1 .. Len(u), NEW k \in 1 .. Len(u), j < k
               PROVE  u[j] < u[k]
    BY DEF Increasing
  <2>1. CASE j \in 1 .. Len(s) /\ k \in 1 .. Len(s)
    BY <1>1, <1>3, <2>1 DEF Increasing
  <2>2. CASE j \in 1 .. Len(s) /\ \E b \in 1 .. Len(t) : k = Len(s) + b
    BY <1>1, <1>3, <2>2 DEF Below
  <2>3. CASE /\ \E a \in 1 .. Len(t) : j = Len(s) + a
             /\ \E b \in 1 .. Len(t) : k = Len(s) + b
    BY <1>1, <1>3, <2>3 DEF Increasing
  <2>4. CASE (\E a \in 1 .. Len(t) : j = Len(s) + a) /\ k \in 1 .. Len(s)
    BY <1>1, <2>4
  <2> QED BY <1>1, <2>1, <2>2, <2>3, <2>4
<1> QED BY <1>2, <1>3 DEF u

LEMMA BelowParts ==
    ASSUME NEW s \in Seq(Entry), NEW t \in Seq(Entry), NEW r \in Seq(Entry), NEW n
    PROVE  /\ Below(r, s \o t) <=> Below(r, s) /\ Below(r, t)
           /\ Below(s \o t, r) <=> Below(s, r) /\ Below(t, r)
           /\ UpTo(s \o t, n) <=> UpTo(s, n) /\ UpTo(t, n)
<1> DEFINE u == s \o t
<1>1. /\ \A i \in 1 .. Len(s) : u[i] = s[i] /\ i \in 1 .. Len(u)
      /\ \A j \in 1 .. Len(t) : u[Len(s) + j] = t[j] /\ Len(s) + j \in 1 .. Len(u)
      /\ \A k \in 1 .. Len(u) :
           k \in 1 .. Len(s) \/ \E j \in 1 .. Len(t) : k = Len(s) + j
  BY ConcatElements
<1> HIDE DEF u
<1>2. Below(r, u) <=> Below(r, s) /\ Below(r, t)
  BY <1>1 DEF Below
<1>3. Below(u, r) <=> Below(s, r) /\ Below(t, r)
  BY <1>1 DEF Below
<1>4. UpTo(u, n) <=> UpTo(s, n) /\ UpTo(t, n)
  BY <1>1 DEF UpTo
<1> QED BY <1>2, <1>3, <1>4 DEF u

LEMMA OneEntry ==
    ASSUME NEW e \in Entry
    PROVE  /\ <<e>> \in Seq(Entry) /\ Len(<<e>>) = 1 /\ <<e>>[1] = e
           /\ Increasing(<<e>>) /\ ElementsOf(<<e>>) = {e}
BY DEF Increasing, ElementsOf

LEMMA NoEntry ==
    /\ <<>> \in Seq(Entry) /\ Len(<<>>) = 0
    /\ Increasing(<<>>) /\ ElementsOf(<<>>) = {}
    /\ \A s, n : Below(s, <<>>) /\ Below(<<>>, s) /\ UpTo(<<>>, n)
BY EmptySeq DEF Increasing, ElementsOf, Below, UpTo

\* a sequence cut in two
LEMMA CutInTwo ==
    ASSUME NEW s \in Seq(Entry), NEW k \in 1 .. Len(s)
    PROVE  /\ SubSeq(s, 1, k) \in Seq(Entry) /\ SubSeq(s, k + 1, Len(s)) \in Seq(Entry)
           /\ s = SubSeq(s, 1, k) \o SubSeq(s, k + 1, Len(s))
<1>1. Len(s) \in Nat /\ \A i \in 1 .. Len(s) : s[i] \in Entry
  BY LenProperties, ElementOfSeq
<1>2. SubSeq(s, 1, k) \in Seq(Entry)
  BY <1>1, SubSeqProperties
<1>3. SubSeq(s, k + 1, Len(s)) \in Seq(Entry)
  <2> DEFINE m == k + 1
  <2>1. m \in Int /\ Len(s) \in Int /\ \A i \in m .. Len(s) : s[i] \in Entry
    BY <1>1
  <2> HIDE DEF m
  <2>2. SubSeq(s, m, Len(s)) \in Seq(Entry)
    BY <2>1, SubSeqProperties
  <2> QED BY <2>2 DEF m
<1>4. SubSeq(s, 1, k) \o SubSeq(s, k + 1, Len(s)) = SubSeq(s, 1, Len(s))
  BY <1>1, ConcatAdjacentSubSeq
<1> QED BY <1>2, <1>3, <1>4, SubSeqFull
-----------------------------------------------------------------------------
(***************************************************************************)
(* The inductive invariant.  Stop is in the queue while the main thread    *)
(* waits for the writer, unless the writer has already met it, and every   *)
(* entry accepted before it is ahead of it, in the writer's hand, or       *)
(* settled.                                                                *)
(***************************************************************************)
Ahead(e) ==
    \E j, k \in 1 .. Len(queue) : j < k /\ queue[j] = e /\ queue[k] = Stop

StopInv ==
    /\ Once(queue)
    /\ main \in {"serving", "stopping"} =>
           StopsIn(queue) = {} /\ writer = "running" /\ sent = {}
    /\ writer = "ended" => StopsIn(queue) = {} /\ hand = <<>>
    /\ \A e \in sent : e \in settled \/ e \in ElementsOf(hand) \/ Ahead(e)

OrderInv ==
    /\ Increasing(rows) /\ Increasing(hand) /\ Increasing(Accepted)
    /\ Below(rows, hand) /\ Below(rows, Accepted) /\ Below(hand, Accepted)
    /\ UpTo(rows, made) /\ UpTo(hand, made) /\ UpTo(Accepted, made)

LogInv == TypeOK /\ StopInv /\ OrderInv

LEMMA Capacities == Capacity \in Nat \ {0} /\ MaxEntry \in Nat
BY CapacityAssumption

LEMMA HandIsOne ==
    ASSUME TypeOK, hand # <<>>
    PROVE  \E e \in Entry : hand = <<e>>
<1>1. hand \in Seq(Entry) /\ Len(hand) <= 1 /\ Len(hand) \in Nat \ {0}
  BY EmptySeq DEF TypeOK
<1>2. Len(hand) = 1
  <2> DEFINE n == Len(hand)
  <2>1. n \in Nat \ {0} /\ n <= 1
    BY <1>1
  <2> HIDE DEF n
  <2>2. n = 1
    BY <2>1
  <2> QED BY <2>2 DEF n
<1>3. hand[1] \in Entry
  BY <1>1, <1>2, ElementOfSeq
<1>4. hand = <<hand[1]>>
  <2> DEFINE h == <<hand[1]>>
  <2>1. h \in Seq(Entry) /\ Len(h) = 1 /\ h[1] = hand[1]
    BY <1>3
  <2> HIDE DEF h
  <2>2. hand = h
    BY <1>1, <1>2, <2>1, SeqEqual
  <2> QED BY <2>2 DEF h
<1> QED BY <1>3, <1>4

LEMMA LogInit == Init => LogInv
<1> SUFFICES ASSUME Init PROVE LogInv
  OBVIOUS
<1>1. <<>> \in Seq(Item) /\ Len(<<>>) = 0 /\ StopsIn(<<>>) = {} /\ Once(<<>>)
  BY EmptySeq DEF StopsIn, Once
<1>2. TypeOK
  BY <1>1, NoEntry, Capacities DEF Init, TypeOK, Item
<1>3. StopInv
  BY <1>1 DEF Init, StopInv
<1>4. Accepted = <<>>
  BY <1>1 DEF Init, Accepted, Others
<1>5. OrderInv
  BY <1>4, NoEntry DEF Init, OrderInv
<1> QED BY <1>2, <1>3, <1>5 DEF LogInv

(***************************************************************************)
(* What each action does to the accepted entries.                          *)
(***************************************************************************)
LEMMA AcceptedTyped ==
    ASSUME LogInv
    PROVE  queue \in Seq(Item) /\ Once(queue) /\ Accepted \in Seq(Entry)
BY OthersTyped DEF LogInv, TypeOK, StopInv, Accepted, Item

LEMMA LogQueryEffect ==
    ASSUME LogInv, LogQuery
    PROVE  /\ made' = made + 1 /\ made' \in Entry
           /\ Once(queue') /\ StopsIn(queue') = StopsIn(queue)
           /\ queue' \in Seq(Item) /\ Len(queue') <= Capacity
           /\ queue' = queue \/ queue' = Append(queue, made')
           /\ \/ Accepted' = Accepted
              \/ Accepted' = Append(Accepted, made')
<1>1. made' = made + 1 /\ made' \in Entry
  BY Capacities DEF LogInv, TypeOK, LogQuery, Entry
<1>2. queue \in Seq(Item) /\ Once(queue) /\ Len(queue) <= Capacity
  BY AcceptedTyped DEF LogInv, TypeOK
<1>3. CASE Full
  BY <1>1, <1>2, <1>3 DEF LogQuery, Accepted
<1>4. CASE ~Full
  <2>1. queue' = Append(queue, made')
    BY <1>1, <1>4 DEF LogQuery
  <2>2. /\ Once(Append(queue, made')) /\ StopsIn(Append(queue, made')) = StopsIn(queue)
        /\ Others(Append(queue, made')) = Append(Others(queue), made')
    BY <1>1, <1>2, OthersOfAppend
  <2>3. Append(queue, made') \in Seq(Item) /\ Len(Append(queue, made')) = Len(queue) + 1
    BY <1>1, <1>2, AppendProperties DEF Item
  <2>4. Len(queue) + 1 <= Capacity
    BY <1>2, <1>4, LenProperties, Capacities DEF Full
  <2>5. Accepted' = Append(Accepted, made')
    BY <2>1, <2>2 DEF Accepted
  <2> QED BY <1>1, <2>1, <2>2, <2>3, <2>4, <2>5
<1> QED BY <1>3, <1>4

LEMMA TakeEffect ==
    ASSUME LogInv, Take
    PROVE  /\ Once(queue') /\ queue' \in Seq(Item) /\ Len(queue') <= Capacity
           /\ \/ /\ Head(queue) = Stop /\ StopsIn(queue') = {}
                 /\ Accepted' = Accepted /\ hand' = <<>> /\ writer' = "ended"
              \/ \E e \in Entry :
                   /\ e = Head(queue) /\ hand' = <<e>> /\ writer' = writer
                   /\ Accepted = <<e>> \o Accepted'
<1>1. queue \in Seq(Item) /\ Once(queue) /\ queue # <<>> /\ Len(queue) <= Capacity
  BY AcceptedTyped DEF LogInv, TypeOK, Take
<1>2. /\ Once(Tail(queue)) /\ Tail(queue) \in Seq(Item)
      /\ Head(queue) = Stop =>
           StopsIn(Tail(queue)) = {} /\ Others(Tail(queue)) = Others(queue)
      /\ Head(queue) # Stop =>
           Head(queue) \in Entry /\ Others(queue) = <<Head(queue)>> \o Others(Tail(queue))
  BY <1>1, OthersOfTail
<1>3. Len(Tail(queue)) <= Capacity
  <2>1. Len(Tail(queue)) = Len(queue) - 1 /\ Len(queue) \in Nat
    BY <1>1, HeadTailProperties, LenProperties
  <2> QED BY <1>1, <2>1, Capacities
<1>4. queue' = Tail(queue) /\ hand = <<>>
  BY DEF Take
<1>5. CASE Head(queue) = Stop
  BY <1>2, <1>3, <1>4, <1>5 DEF Take, Accepted
<1>6. CASE Head(queue) # Stop
  BY <1>2, <1>3, <1>4, <1>6 DEF Take, Accepted
<1> QED BY <1>5, <1>6

LEMMA PutStopEffect ==
    ASSUME LogInv, PutStop
    PROVE  /\ Once(queue') /\ queue' \in Seq(Item) /\ Len(queue') <= Capacity
           /\ queue' = Append(queue, Stop) /\ Accepted' = Accepted
           /\ queue \in Seq(Entry) /\ Accepted = queue
<1>1. queue \in Seq(Item) /\ StopsIn(queue) = {} /\ Len(queue) <= Capacity
  BY AcceptedTyped DEF LogInv, TypeOK, StopInv, PutStop
<1>2. /\ Append(queue, Stop) \in Seq(Item) /\ Once(Append(queue, Stop))
      /\ Others(Append(queue, Stop)) = queue
  BY <1>1, OthersOfStopped
<1>3. queue \in Seq(Entry) /\ Others(queue) = queue
  BY <1>1, OthersOfEntries
<1>4. Len(Append(queue, Stop)) <= Capacity
  <2>1. Len(Append(queue, Stop)) = Len(queue) + 1 /\ Len(queue) \in Nat
    BY <1>1, AppendProperties, LenProperties DEF Item
  <2> QED BY <1>1, <2>1, Capacities DEF PutStop, Full
<1> QED BY <1>2, <1>3, <1>4 DEF PutStop, Accepted
-----------------------------------------------------------------------------
(***************************************************************************)
(* Type correctness.                                                       *)
(***************************************************************************)
LEMMA TypeStep == LogInv /\ [Next]_vars => TypeOK'
<1> SUFFICES ASSUME LogInv, [Next]_vars PROVE TypeOK'
  OBVIOUS
<1> TypeOK /\ StopInv
  BY DEF LogInv
<1> USE DEF Item
<1>1. CASE LogQuery
  <2>1. queue' \in Seq(Item) /\ Len(queue') <= Capacity /\ made' \in 0 .. MaxEntry
    BY <1>1, LogQueryEffect, Capacities DEF Entry
  <2> QED BY <1>1, <2>1 DEF LogQuery, TypeOK
<1>2. CASE Take
  <2>1. queue' \in Seq(Item) /\ Len(queue') <= Capacity
    BY <1>2, TakeEffect
  <2>2. hand' \in Seq(Entry) /\ Len(hand') <= 1 /\ writer' \in {"running", "ended"}
    <3>1. CASE hand' = <<>> /\ writer' = "ended"
      BY <3>1, NoEntry
    <3>2. CASE \E e \in Entry : hand' = <<e>> /\ writer' = writer
      <4>1. PICK e \in Entry : hand' = <<e>> /\ writer' = writer
        BY <3>2
      <4>2. <<e>> \in Seq(Entry) /\ Len(<<e>>) = 1
        BY OneEntry
      <4>3. hand' \in Seq(Entry) /\ Len(hand') = 1
        BY <4>1, <4>2
      <4> QED BY <4>1, <4>3 DEF TypeOK
    <3> QED BY <1>2, <3>1, <3>2, TakeEffect
  <2> QED BY <1>2, <2>1, <2>2 DEF Take, TypeOK
<1>3. CASE Store
  <2>1. rows' \in Seq(Entry)
    BY <1>3, ConcatProperties DEF Store, TypeOK
  <2>2. settled' \subseteq Entry /\ hand' \in Seq(Entry) /\ Len(hand') <= 1
    BY <1>3, HandIsOne, OneEntry, NoEntry DEF Store, Settle, TypeOK
  <2> QED BY <1>3, <2>1, <2>2 DEF Store, TypeOK
<1>4. CASE StoreFails
  <2>1. settled' \subseteq Entry /\ hand' \in Seq(Entry) /\ Len(hand') <= 1
    BY <1>4, HandIsOne, OneEntry, NoEntry DEF StoreFails, Settle, TypeOK
  <2> QED BY <1>4, <2>1 DEF StoreFails, TypeOK
<1>5. ASSUME NEW k \in 1 .. Len(rows), PurgeOlderThan(k)
      PROVE  TypeOK'
  BY <1>5, CutInTwo DEF PurgeOlderThan, TypeOK
<1>6. CASE ClearAllLogs
  BY <1>6, NoEntry DEF ClearAllLogs, TypeOK
<1>7. CASE Interrupt
  BY <1>7 DEF Interrupt, TypeOK
<1>8. CASE PutStop
  <2>1. queue' \in Seq(Item) /\ Len(queue') <= Capacity /\ queue \in Seq(Entry)
    BY <1>8, PutStopEffect
  <2>2. \A q \in Seq(Entry) : ElementsOf(q) \subseteq Entry
    BY ElementOfSeq DEF ElementsOf
  <2>3. sent' \subseteq Entry
    BY <1>8, <2>1, <2>2 DEF PutStop, TypeOK
  <2> QED BY <1>8, <2>1, <2>3 DEF PutStop, TypeOK
<1>9. CASE Joined
  BY <1>9 DEF Joined, TypeOK
<1>10. CASE JoinTimesOut
  BY <1>10 DEF JoinTimesOut, TypeOK
<1>11. CASE Killed
  BY <1>11 DEF Killed, TypeOK
<1>12. CASE UNCHANGED vars
  BY <1>12 DEF vars, TypeOK
<1> QED
  BY <1>1, <1>2, <1>3, <1>4, <1>5, <1>6, <1>7, <1>8, <1>9, <1>10, <1>11, <1>12
     DEF Next
-----------------------------------------------------------------------------
(***************************************************************************)
(* The None and what was accepted before it.                               *)
(***************************************************************************)
\* an action that leaves queue, hand and the histories alone
LEMMA AheadKept ==
    ASSUME StopInv, UNCHANGED <<queue, hand, sent>>, settled \subseteq settled'
    PROVE  /\ Once(queue')
           /\ \A e \in sent' : e \in settled' \/ e \in ElementsOf(hand') \/ Ahead(e)'
BY DEF StopInv, Ahead

LEMMA StopStep == LogInv /\ [Next]_vars => StopInv'
<1> SUFFICES ASSUME LogInv, [Next]_vars PROVE StopInv'
  OBVIOUS
<1> TypeOK /\ StopInv
  BY DEF LogInv
<1>1. CASE LogQuery
  <2>1. /\ Once(queue') /\ StopsIn(queue') = StopsIn(queue)
        /\ (queue' = queue \/ queue' = Append(queue, made')) /\ made' \in Entry
    BY <1>1, LogQueryEffect
  <2>2. ASSUME NEW e, Ahead(e) PROVE Ahead(e)'
    <3>1. CASE queue' = queue
      BY <2>2, <3>1 DEF Ahead
    <3>2. CASE queue' = Append(queue, made')
      <4>1. queue \in Seq(Item) /\ made' \in Item
        BY <1>1, LogQueryEffect, AcceptedTyped DEF Item
      <4>2. /\ Len(queue') = Len(queue) + 1 /\ Len(queue) \in Nat
            /\ \A i \in 1 .. Len(queue) : queue'[i] = queue[i]
        BY <3>2, <4>1, AppendProperties, LenProperties
      <4> QED BY <2>2, <4>2 DEF Ahead
    <3> QED BY <2>1, <3>1, <3>2
  <2> QED BY <1>1, <2>1, <2>2 DEF LogQuery, StopInv
<1>2. CASE Take
  <2>1. Once(queue')
    BY <1>2, TakeEffect
  <2>2. writer = "running" /\ hand = <<>> /\ UNCHANGED <<main, settled, sent>>
    BY <1>2 DEF Take
  <2>3. /\ queue \in Seq(Item) /\ Once(queue) /\ Len(queue) \in Nat \ {0}
        /\ Len(queue') = Len(queue) - 1 /\ Head(queue) = queue[1]
        /\ \A i \in 1 .. Len(queue') : queue'[i] = queue[i + 1]
    BY <1>2, AcceptedTyped, HeadTailProperties, EmptySeq DEF Take
  <2>4. CASE Head(queue) = Stop
    <3>1. StopsIn(queue') = {} /\ hand' = <<>> /\ writer' = "ended"
      BY <1>2, <2>4, TakeEffect, StopIsNoEntry
    <3>2. ASSUME NEW e PROVE ~Ahead(e)
      BY <2>3, <2>4 DEF Ahead, Once
    <3>3. \A e \in sent : e \in settled
      BY <2>2, <3>2, NoEntry DEF StopInv
    <3>4. main \notin {"serving", "stopping"}
      BY <2>3, <2>4 DEF StopInv, StopsIn
    <3> QED BY <2>1, <2>2, <3>1, <3>3, <3>4 DEF StopInv
  <2>5. CASE Head(queue) # Stop
    <3>1. hand' = <<Head(queue)>> /\ writer' = "running"
      BY <1>2, <2>2, <2>5 DEF Take
    <3>2. ASSUME NEW e, Ahead(e), e # Head(queue) PROVE Ahead(e)'
      <4>1. PICK j \in 1 .. Len(queue), k \in 1 .. Len(queue) :
              j < k /\ queue[j] = e /\ queue[k] = Stop
        BY <3>2 DEF Ahead
      <4>2. PICK a \in 1 .. Len(queue'), b \in 1 .. Len(queue') :
              j = a + 1 /\ k = b + 1
        BY <2>3, <3>2, <4>1
      <4>3. a < b /\ queue'[a] = e /\ queue'[b] = Stop
        BY <2>3, <4>1, <4>2
      <4> QED BY <4>3 DEF Ahead
    <3>3. Head(queue) \in ElementsOf(hand')
      BY <3>1 DEF ElementsOf
    <3>4. \A e \in sent : e \in settled \/ e \in ElementsOf(hand') \/ Ahead(e)'
      BY <2>2, <3>2, <3>3, NoEntry DEF StopInv
    <3>5. StopsIn(queue) = {} => StopsIn(queue') = {}
      <4>1. \A i \in 1 .. Len(queue') : i + 1 \in 1 .. Len(queue)
        BY <2>3
      <4> QED BY <2>3, <4>1 DEF StopsIn
    <3> QED BY <2>1, <2>2, <3>1, <3>4, <3>5 DEF StopInv
  <2> QED BY <2>4, <2>5
<1>3. CASE Store \/ StoreFails
  <2>1. settled' = settled \cup ElementsOf(hand) /\ hand # <<>> /\ hand' = <<>>
        /\ UNCHANGED <<queue, writer, main, sent>>
    BY <1>3 DEF Store, StoreFails, Settle
  <2>2. \A e : Ahead(e)' <=> Ahead(e)
    BY <2>1 DEF Ahead
  <2> QED BY <2>1, <2>2 DEF StopInv
<1>4. ASSUME NEW k \in 1 .. Len(rows), PurgeOlderThan(k)
      PROVE  StopInv'
  BY <1>4, AheadKept DEF PurgeOlderThan, StopInv
<1>5. CASE ClearAllLogs
  BY <1>5, AheadKept DEF ClearAllLogs, StopInv
<1>6. CASE Interrupt
  BY <1>6, AheadKept DEF Interrupt, StopInv
<1>7. CASE PutStop
  <2>1. /\ Once(queue') /\ queue' = Append(queue, Stop) /\ queue \in Seq(Item)
        /\ main' = "joining" /\ writer' = "running" /\ hand' = hand
        /\ settled' = settled
        /\ sent' = settled \cup ElementsOf(hand) \cup ElementsOf(queue)
    BY <1>7, PutStopEffect, AcceptedTyped DEF PutStop, StopInv
  <2>2. /\ Len(queue') = Len(queue) + 1 /\ Len(queue) \in Nat
        /\ \A i \in 1 .. Len(queue) : queue'[i] = queue[i]
        /\ queue'[Len(queue) + 1] = Stop
    BY <2>1, AppendProperties, LenProperties DEF Item
  <2>3. ASSUME NEW e \in ElementsOf(queue) PROVE Ahead(e)'
    <3>1. PICK j \in 1 .. Len(queue) : queue[j] = e
      BY DEF ElementsOf
    <3>2. /\ j \in 1 .. Len(queue') /\ Len(queue) + 1 \in 1 .. Len(queue')
          /\ j < Len(queue) + 1
      BY <2>2
    <3> QED BY <2>2, <3>1, <3>2 DEF Ahead
  <2> QED BY <2>1, <2>3 DEF StopInv
<1>8. CASE Joined \/ JoinTimesOut \/ Killed
  BY <1>8, AheadKept DEF Joined, JoinTimesOut, Killed, StopInv
<1>9. CASE UNCHANGED vars
  BY <1>9, AheadKept DEF vars, StopInv
<1> QED
  BY <1>1, <1>2, <1>3, <1>4, <1>5, <1>6, <1>7, <1>8, <1>9 DEF Next
-----------------------------------------------------------------------------
(***************************************************************************)
(* The order of what is stored, taken and queued.                          *)
(***************************************************************************)
LEMMA OrderTyped ==
    ASSUME LogInv
    PROVE  /\ rows \in Seq(Entry) /\ hand \in Seq(Entry) /\ Accepted \in Seq(Entry)
           /\ made \in Nat
BY AcceptedTyped DEF LogInv, TypeOK

\* an action that leaves the three sequences alone
LEMMA OrderUnchanged ==
    ASSUME OrderInv, UNCHANGED <<rows, hand, queue, made>>
    PROVE  OrderInv'
BY DEF OrderInv, Accepted

\* an entry that has just been made comes after those accepted before
LEMMA NewestLast ==
    ASSUME NEW s \in Seq(Entry), NEW n \in Nat, UpTo(s, n), n + 1 \in Entry
    PROVE  Below(s, <<n + 1>>) /\ UpTo(s, n + 1) /\ UpTo(<<n + 1>>, n + 1)
<1>1. \A i \in 1 .. Len(s) : s[i] \in Nat
  BY ElementOfSeq, StopIsNoEntry
<1>2. <<n + 1>>[1] = n + 1 /\ Len(<<n + 1>>) = 1
  BY OneEntry
<1>3. Below(s, <<n + 1>>) /\ UpTo(s, n + 1)
  BY <1>1, <1>2 DEF Below, UpTo
<1>4. UpTo(<<n + 1>>, n + 1)
  BY <1>2 DEF UpTo
<1> QED BY <1>3, <1>4

LEMMA OrderStep == LogInv /\ [Next]_vars => OrderInv'
<1> SUFFICES ASSUME LogInv, [Next]_vars PROVE OrderInv'
  OBVIOUS
<1> OrderInv
  BY DEF LogInv
<1>0. /\ rows \in Seq(Entry) /\ hand \in Seq(Entry) /\ Accepted \in Seq(Entry)
      /\ made \in Nat
  BY OrderTyped
<1>1. CASE LogQuery
  <2>1. /\ made' = made + 1 /\ made' \in Entry /\ rows' = rows /\ hand' = hand
        /\ Accepted' = Accepted \/ Accepted' = Append(Accepted, made')
    BY <1>1, LogQueryEffect DEF LogQuery
  <2> DEFINE last == <<made'>>
  <2>2. /\ Below(rows, last) /\ Below(hand, last) /\ Below(Accepted, last)
        /\ UpTo(rows, made') /\ UpTo(hand, made') /\ UpTo(Accepted, made')
        /\ UpTo(last, made')
    BY <1>0, <2>1, NewestLast DEF OrderInv
  <2>3. last \in Seq(Entry) /\ Increasing(last)
    BY <2>1, OneEntry
  <2>4. CASE Accepted' = Accepted
    BY <2>1, <2>2, <2>4 DEF OrderInv
  <2>5. CASE Accepted' = Append(Accepted, made')
    <3>1. Accepted' = Accepted \o last
      BY <1>0, <2>1, <2>5, AppendIsConcat
    <3> HIDE DEF last
    <3>2. /\ Increasing(Accepted') /\ Below(rows, Accepted')
          /\ Below(hand, Accepted') /\ UpTo(Accepted', made')
      BY <1>0, <2>2, <2>3, <3>1, IncreasingParts, BelowParts DEF OrderInv
    <3> QED BY <2>1, <2>2, <3>2 DEF OrderInv
  <2> QED BY <2>1, <2>4, <2>5
<1>2. CASE Take
  <2>1. rows' = rows /\ made' = made /\ hand = <<>>
    BY <1>2 DEF Take
  <2>2. CASE hand' = <<>> /\ Accepted' = Accepted
    BY <2>1, <2>2 DEF OrderInv
  <2>3. ASSUME NEW e \in Entry, hand' = <<e>>, Accepted = <<e>> \o Accepted'
        PROVE  OrderInv'
    <3>1. hand' \in Seq(Entry) /\ Increasing(hand') /\ Accepted = hand' \o Accepted'
      BY <2>3, OneEntry
    <3>2. Accepted' \in Seq(Entry)
      BY <1>2, TakeEffect, OthersTyped DEF Accepted
    <3>3. Increasing(Accepted') /\ Below(hand', Accepted')
      BY <3>1, <3>2, IncreasingParts DEF OrderInv
    <3>4. /\ Below(rows, hand') /\ Below(rows, Accepted')
          /\ UpTo(hand', made) /\ UpTo(Accepted', made)
      BY <1>0, <3>1, <3>2, BelowParts DEF OrderInv
    <3> QED BY <2>1, <3>1, <3>3, <3>4 DEF OrderInv
  <2> QED BY <1>2, <2>2, <2>3, TakeEffect
<1>3. CASE Store
  <2>1. rows' = rows \o hand /\ hand' = <<>> /\ Accepted' = Accepted /\ made' = made
    BY <1>3 DEF Store, Settle, Accepted
  <2>2. Increasing(rows') /\ Below(rows', Accepted) /\ UpTo(rows', made)
    BY <1>0, <2>1, IncreasingParts, BelowParts DEF OrderInv
  <2> QED BY <2>1, <2>2, NoEntry DEF OrderInv
<1>4. CASE StoreFails
  <2>1. rows' = rows /\ hand' = <<>> /\ Accepted' = Accepted /\ made' = made
    BY <1>4 DEF StoreFails, Settle, Accepted
  <2> QED BY <2>1, NoEntry DEF OrderInv
<1>5. ASSUME NEW k \in 1 .. Len(rows), PurgeOlderThan(k)
      PROVE  OrderInv'
  <2> DEFINE old == SubSeq(rows, 1, k)
             new == SubSeq(rows, k + 1, Len(rows))
  <2>1. /\ rows' = new /\ hand' = hand /\ Accepted' = Accepted /\ made' = made
        /\ old \in Seq(Entry) /\ new \in Seq(Entry) /\ rows = old \o new
    BY <1>0, <1>5, CutInTwo DEF PurgeOlderThan, Accepted
  <2> HIDE DEF old, new
  <2>2. Increasing(new)
    BY <2>1, IncreasingParts DEF OrderInv
  <2>3. Below(new, hand) /\ Below(new, Accepted) /\ UpTo(new, made)
    BY <1>0, <2>1, BelowParts DEF OrderInv
  <2> QED BY <2>1, <2>2, <2>3 DEF OrderInv
<1>6. CASE ClearAllLogs
  <2>1. rows' = <<>> /\ hand' = hand /\ Accepted' = Accepted /\ made' = made
    BY <1>6 DEF ClearAllLogs, Accepted
  <2> QED BY <2>1, NoEntry DEF OrderInv
<1>7. CASE Interrupt \/ Joined \/ JoinTimesOut \/ Killed
  BY <1>7, OrderUnchanged DEF Interrupt, Joined, JoinTimesOut, Killed
<1>8. CASE PutStop
  <2>1. rows' = rows /\ hand' = hand /\ Accepted' = Accepted /\ made' = made
    BY <1>8, PutStopEffect DEF PutStop
  <2> QED BY <2>1 DEF OrderInv
<1>9. CASE UNCHANGED vars
  BY <1>9, OrderUnchanged DEF vars
<1> QED
  BY <1>1, <1>2, <1>3, <1>4, <1>5, <1>6, <1>7, <1>8, <1>9 DEF Next

LEMMA OrderImplies == LogInv => OrderKept
<1> SUFFICES ASSUME LogInv PROVE OrderKept
  OBVIOUS
<1>1. rows \in Seq(Entry) /\ hand \in Seq(Entry) /\ Accepted \in Seq(Entry) /\ OrderInv
  BY OrderTyped DEF LogInv
<1>2. rows \o hand \in Seq(Entry) /\ Increasing(rows \o hand)
  BY <1>1, ConcatProperties, IncreasingParts DEF OrderInv
<1>3. Below(rows \o hand, Accepted)
  BY <1>1, BelowParts DEF OrderInv
<1>4. Increasing((rows \o hand) \o Accepted)
  BY <1>1, <1>2, <1>3, IncreasingParts DEF OrderInv
<1>5. (rows \o hand) \o Accepted = rows \o (hand \o Accepted)
  BY <1>1, ConcatAssociative
<1> QED BY <1>4, <1>5 DEF OrderKept
-----------------------------------------------------------------------------
LEMMA LogStep == LogInv /\ [Next]_vars => LogInv'
BY TypeStep, StopStep, OrderStep DEF LogInv

\* The queue stays within its maxsize and everything well typed, for any
\* capacity, whatever queries, purges, failed INSERTs and the shutdown do.
THEOREM TypeCorrect == Spec => []TypeOK
<1>1. LogInv => TypeOK
  BY DEF LogInv
<1> QED BY <1>1, LogInit, LogStep, PTL DEF Spec

\* Rows, the writer's hand and the queue are, one after the other, in the order
\* of the queries and without repetition.
THEOREM OrderIsKept == Spec => []OrderKept
BY OrderImplies, LogInit, LogStep, PTL DEF Spec

\* A writer that has ended has settled every entry accepted before the None.
THEOREM StopsClean == Spec => []CleanStop
<1>1. LogInv => CleanStop
  <2> SUFFICES ASSUME LogInv, writer = "ended", NEW e \in sent PROVE e \in settled
    BY DEF CleanStop
  <2>1. StopsIn(queue) = {} /\ hand = <<>>
    BY DEF LogInv, StopInv
  <2>2. ~Ahead(e) /\ e \notin ElementsOf(hand)
    BY <2>1, NoEntry DEF Ahead, StopsIn
  <2> QED BY <2>2 DEF LogInv, StopInv
<1> QED BY <1>1, LogInit, LogStep, PTL DEF Spec
-----------------------------------------------------------------------------
(***************************************************************************)
(* The query log implements LossyLog.                                      *)
(***************************************************************************)
LEMMA RefinesInit == Init => Log!Init
<1> SUFFICES ASSUME Init PROVE Log!Init
  OBVIOUS
<1>1. Accepted = <<>>
  <2>1. StopsIn(<<>>) = {}
    BY EmptySeq DEF StopsIn
  <2> QED BY <2>1 DEF Init, Accepted, Others
<1>2. hand \o Accepted = <<>>
  BY <1>1, NoEntry, ConcatEmptySeq DEF Init
<1> QED BY <1>2 DEF Init, Log!Init

LEMMA RefinesStep == LogInv /\ [Next]_vars => [Log!Next]_Log!vars
<1> SUFFICES ASSUME LogInv, [Next]_vars PROVE [Log!Next]_Log!vars
  OBVIOUS
<1>0. /\ rows \in Seq(Entry) /\ hand \in Seq(Entry) /\ Accepted \in Seq(Entry)
      /\ hand \o Accepted \in Seq(Entry)
  BY OrderTyped, ConcatProperties
<1>a. ASSUME UNCHANGED <<made, rows, hand, Accepted, Running>>
      PROVE  UNCHANGED Log!vars
  BY <1>a DEF Log!vars
<1>1. CASE LogQuery
  <2>1. /\ made' = made + 1 /\ made' \in Entry
        /\ Accepted' = Accepted \/ Accepted' = Append(Accepted, made')
        /\ hand' = hand /\ rows' = rows /\ Running /\ Running'
    BY <1>1, LogQueryEffect DEF LogQuery, Running
  <2>2. hand \o Append(Accepted, made') = Append(hand \o Accepted, made')
    <3>1. <<made'>> \in Seq(Entry)
      BY <2>1, OneEntry
    <3>2. /\ Append(Accepted, made') = Accepted \o <<made'>>
          /\ Append(hand \o Accepted, made') = (hand \o Accepted) \o <<made'>>
      BY <1>0, <2>1, AppendIsConcat
    <3>3. (hand \o Accepted) \o <<made'>> = hand \o (Accepted \o <<made'>>)
      BY <1>0, <3>1, ConcatAssociative
    <3> QED BY <3>2, <3>3
  <2>3. Log!Log
    BY <2>1, <2>2 DEF Log!Log
  <2> QED BY <2>3 DEF Log!Next
<1>2. CASE Take
  <2>1. UNCHANGED <<made, rows, Running>> /\ hand = <<>>
    BY <1>2 DEF Take, Running
  <2>2. hand' \o Accepted' = hand \o Accepted
    <3>1. hand \o Accepted = Accepted
      BY <1>0, <2>1, ConcatEmptySeq
    <3>2. CASE hand' = <<>> /\ Accepted' = Accepted
      BY <2>1, <3>2
    <3>3. CASE \E e \in Entry : hand' = <<e>> /\ Accepted = <<e>> \o Accepted'
      BY <3>1, <3>3
    <3> QED BY <1>2, <3>2, <3>3, TakeEffect
  <2> QED BY <2>1, <2>2 DEF Log!vars
<1>3. CASE Store \/ StoreFails
  <2>1. /\ Running /\ Running' /\ hand # <<>> /\ hand' = <<>> /\ made' = made
        /\ Accepted' = Accepted
        /\ rows' = rows \/ rows' = rows \o hand
    BY <1>3 DEF Store, StoreFails, Settle, Running, Accepted
  <2>2. PICK e \in Entry : hand = <<e>>
    BY <2>1, HandIsOne DEF LogInv
  <2> DEFINE p == hand \o Accepted
  <2>3. p # <<>> /\ Head(p) = e /\ Tail(p) = Accepted
    <3>1. Len(hand) = 1 /\ hand[1] = e
      BY <2>2, OneEntry
    <3>2. /\ Len(p) = 1 + Len(Accepted) /\ Len(Accepted) \in Nat /\ p[1] = e
          /\ \A j \in 1 .. Len(Accepted) : p[1 + j] = Accepted[j]
      <4>1. /\ Len(p) = Len(hand) + Len(Accepted) /\ Len(Accepted) \in Nat
            /\ \A i \in 1 .. Len(hand) : p[i] = hand[i]
            /\ \A j \in 1 .. Len(Accepted) : p[Len(hand) + j] = Accepted[j]
        BY <1>0, ConcatElements
      <4> HIDE DEF p
      <4> QED BY <3>1, <4>1
    <3>3. p \in Seq(Entry)
      BY <1>0
    <3> HIDE DEF p
    <3>4. p # <<>>
      BY <3>2, EmptySeq
    <3>5. /\ Tail(p) \in Seq(Entry) /\ Len(Tail(p)) = Len(Accepted)
          /\ \A i \in 1 .. Len(Tail(p)) : Tail(p)[i] = p[i + 1]
      BY <3>2, <3>3, <3>4, HeadTailProperties
    <3>6. \A i \in 1 .. Len(Tail(p)) : Tail(p)[i] = Accepted[i]
      BY <3>2, <3>5
    <3>7. Tail(p) = Accepted
      BY <1>0, <3>5, <3>6, SeqEqual
    <3> QED BY <3>2, <3>4, <3>7
  <2>4. <<>> \o Accepted = Accepted /\ rows \o hand = Append(rows, e)
    BY <1>0, <2>2, ConcatEmptySeq, AppendIsConcat
  <2>5. Log!Settle
    <3>1. (IF Running THEN hand \o Accepted ELSE <<>>) = p
      BY <2>1
    <3>2. (IF Running THEN hand \o Accepted ELSE <<>>)' = Accepted
      BY <2>1, <2>4
    <3> HIDE DEF p
    <3> QED BY <2>1, <2>3, <2>4, <3>1, <3>2 DEF Log!Settle
  <2> QED BY <2>5 DEF Log!Next
<1>4. ASSUME NEW k \in 1 .. Len(rows), PurgeOlderThan(k)
      PROVE  [Log!Next]_Log!vars
  <2>1. Log!Trim
    BY <1>4 DEF PurgeOlderThan, Log!Trim, Running, Accepted
  <2> QED BY <2>1 DEF Log!Next
<1>5. CASE ClearAllLogs
  <2>1. Len(rows) \in 1 .. Len(rows) /\ Len(rows) \in Nat
    BY <1>0, <1>5, EmptySeq DEF ClearAllLogs
  <2>2. SubSeq(rows, Len(rows) + 1, Len(rows)) = <<>>
    BY <2>1, SubSeqEmpty
  <2>3. Log!Trim
    BY <1>5, <2>1, <2>2 DEF ClearAllLogs, Log!Trim, Running, Accepted
  <2> QED BY <2>3 DEF Log!Next
<1>6. CASE Interrupt
  BY <1>6, <1>a DEF Interrupt, Running, Accepted
<1>7. CASE PutStop
  <2>1. Accepted' = Accepted
    BY <1>7, PutStopEffect
  <2> QED BY <1>7, <1>a, <2>1 DEF PutStop, Running
<1>8. CASE Joined \/ JoinTimesOut \/ Killed
  <2>1. Log!Abandon
    BY <1>8 DEF Joined, JoinTimesOut, Killed, Log!Abandon, Running
  <2> QED BY <2>1 DEF Log!Next
<1>9. CASE UNCHANGED vars
  BY <1>9, <1>a DEF vars, Running, Accepted
<1> QED
  BY <1>1, <1>2, <1>3, <1>4, <1>5, <1>6, <1>7, <1>8, <1>9 DEF Next

\* The process keeps what LossyLog promises of its log: queries may be lost,
\* those stored are stored once and in order, and only old rows go.
THEOREM LogIsImplemented == Spec => ImplementsLog
  BY RefinesInit, RefinesStep, LogInit, LogStep, PTL
     DEF Spec, ImplementsLog, Log!Spec
=============================================================================
