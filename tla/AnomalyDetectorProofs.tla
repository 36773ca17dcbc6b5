------------------------- MODULE AnomalyDetectorProofs -------------------------
(***************************************************************************)
(* Proofs about AnomalyDetector, for any domains, limits and bounds.       *)
(***************************************************************************)
EXTENDS AnomalyDetector, WellFoundedInduction, SequenceTheorems, TLAPS

USE DEF dicts, reports, marks, detector

\* A non-empty set of numbers has a least one.
LEMMA LeastNumber ==
    ASSUME NEW S \in SUBSET Nat, S # {}
    PROVE  \E n \in S : \A m \in S : n <= m
<1> DEFINE R == OpToRel(<, Nat)
<1>1. IsWellFoundedOn(R, Nat)
  BY NatLessThanWellFounded
<1>2. PICK n \in S : \A m \in S : ~(<<m, n>> \in R)
  <2> HIDE DEF R
  <2> QED BY <1>1, WFMin
<1>3. ASSUME NEW m \in S PROVE n <= m
  <2>1. m \in Nat /\ n \in Nat
    OBVIOUS
  <2>2. ~(m < n)
    BY <1>2, <2>1 DEF OpToRel
  <2> QED BY <2>1, <2>2
<1> QED BY <1>3

\* What popleft() leaves is the end of the deque, from the first time on that
\* is not older than the limit.
LEMMA Popped ==
    ASSUME NEW ages \in Seq(Nat), NEW limit \in Nat
    PROVE  \E n \in 0 .. Len(ages) :
             /\ PopOlder(ages, limit) = SubSeq(ages, n + 1, Len(ages))
             /\ \A k \in 1 .. n : ages[k] > limit
             /\ n < Len(ages) => ages[n + 1] <= limit
<1> DEFINE P(n) == /\ \A k \in 1 .. n : ages[k] > limit
                   /\ n < Len(ages) => ages[n + 1] <= limit
<1>1. \E n \in 0 .. Len(ages) : P(n)
  <2> DEFINE S == {n \in 0 .. Len(ages) : n < Len(ages) => ages[n + 1] <= limit}
  <2>1. Len(ages) \in S /\ S \in SUBSET Nat
    BY LenProperties
  <2>2. PICK n \in S : \A m \in S : n <= m
    BY <2>1, LeastNumber
  <2>3. ASSUME NEW k \in 1 .. n PROVE ages[k] > limit
    <3>1. PICK m \in Nat : k = m + 1
      BY <2>1, <2>2
    <3>2. m \in 0 .. Len(ages) /\ ~(n <= m) /\ k \in 1 .. Len(ages)
      BY <2>1, <2>2, <3>1
    <3>3. m \notin S
      <4> HIDE DEF S
      <4> QED BY <2>2, <3>2
    <3>4. ~(ages[k] <= limit)
      BY <3>1, <3>2, <3>3
    <3>5. ages[k] \in Nat
      BY <3>2, ElementOfSeq
    <3> QED BY <3>4, <3>5
  <2> QED BY <2>3
<1> DEFINE n == CHOOSE n \in 0 .. Len(ages) : P(n)
<1>2. n \in 0 .. Len(ages) /\ P(n)
  BY <1>1
<1>3. PopOlder(ages, limit) = SubSeq(ages, n + 1, Len(ages))
  BY DEF PopOlder
<1> QED BY <1>2, <1>3

LEMMA PoppedTyped ==
    ASSUME NEW S \in SUBSET Nat, NEW ages \in Seq(S), NEW limit \in Nat
    PROVE  /\ PopOlder(ages, limit) \in Seq(S)
           /\ Len(PopOlder(ages, limit)) <= Len(ages)
<1>1. ages \in Seq(Nat) /\ Len(ages) \in Nat
  BY SeqMonotonic, LenProperties
<1>2. PICK n \in 0 .. Len(ages) :
        PopOlder(ages, limit) = SubSeq(ages, n + 1, Len(ages))
  BY <1>1, Popped
<1>3. \A k \in n + 1 .. Len(ages) : ages[k] \in S
  BY <1>1, ElementOfSeq
<1>4. /\ SubSeq(ages, n + 1, Len(ages)) \in Seq(S)
      /\ Len(SubSeq(ages, n + 1, Len(ages)))
           = IF n + 1 <= Len(ages) THEN Len(ages) - (n + 1) + 1 ELSE 0
  <2> DEFINE i == n + 1
  <2>1. i \in Int /\ Len(ages) \in Int
    BY <1>1
  <2> HIDE DEF i
  <2> QED BY <1>3, <2>1, SubSeqProperties DEF i
<1> QED BY <1>1, <1>2, <1>4

\* A query just recorded is within the window and stays in its deque.
LEMMA RecordedStays ==
    ASSUME NEW ages \in Seq(Nat), NEW age \in Nat, NEW limit \in Nat, age <= limit
    PROVE  PopOlder(Append(ages, age), limit) # <<>>
<1> DEFINE all == Append(ages, age)
<1>1. /\ all \in Seq(Nat) /\ Len(ages) \in Nat /\ Len(all) = Len(ages) + 1
      /\ all[Len(all)] = age
  BY AppendProperties, LenProperties
<1> HIDE DEF all
<1>2. PICK n \in 0 .. Len(all) :
        /\ PopOlder(all, limit) = SubSeq(all, n + 1, Len(all))
        /\ \A k \in 1 .. n : all[k] > limit
  BY <1>1, Popped
<1>3. n # Len(all)
  BY <1>1, <1>2
<1>4. Len(SubSeq(all, n + 1, Len(all))) # 0
  <2> DEFINE i == n + 1
  <2>1. i \in Int /\ Len(all) \in Int /\ i <= Len(all)
    BY <1>1, <1>3
  <2>2. \A k \in i .. Len(all) : all[k] \in Nat
    BY <1>1, ElementOfSeq
  <2> HIDE DEF i
  <2>3. Len(SubSeq(all, i, Len(all))) = Len(all) - i + 1
    BY <2>1, <2>2, SubSeqProperties
  <2>4. Len(SubSeq(all, i, Len(all))) # 0
    BY <2>1, <2>3
  <2> QED BY <2>4 DEF i
<1> QED BY <1>2, <1>4, EmptySeq DEF all
-----------------------------------------------------------------------------
(***************************************************************************)
(* Type correctness.  While the detection thread looks at a domain, it is  *)
(* one.                                                                    *)
(***************************************************************************)
LookedAt == stage \in {"reasons", "iterate", "report"} => at \in Domain
TypeInv  == TypeOK /\ LookedAt

Age == 0 .. OldQuery

LEMMA Caps ==
    /\ OldQuery \in Nat /\ Window + Lag < OldQuery /\ Age \in SUBSET Nat
    /\ OldMark \in Nat /\ OldMark = Cooldown + MaxRound + 1
BY TimesAssumption DEF OldQuery, OldMark, Age

LEMMA OlderTyped ==
    ASSUME NEW cap \in Nat, NEW age \in 0 .. cap
    PROVE  Older(age, cap) \in 0 .. cap
BY DEF Older

\* the dictionaries' part of TypeOK, for a query_history h
HistoryTyped(h) ==
    /\ DOMAIN h \subseteq Domain
    /\ \A d \in DOMAIN h : h[d] \in Seq(Age) /\ Len(h[d]) <= MaxHistory[d]

LEMMA TimesTyped ==
    ASSUME TypeOK, NEW d \in Domain
    PROVE  Times(d) \in Seq(Age) /\ Len(Times(d)) <= MaxHistory[d]
<1>1. <<>> \in Seq(Age) /\ Len(<<>>) = 0 /\ MaxHistory[d] \in Nat
  BY EmptySeq, SizesAssumption
<1>2. CASE d \in Tracked
  BY <1>2 DEF TypeOK, Times, Age
<1>3. CASE d \notin Tracked
  <2>1. Times(d) = <<>>
    BY <1>3 DEF Times
  <2> QED BY <1>1, <2>1
<1> QED BY <1>2, <1>3

LEMMA WithTyped ==
    ASSUME TypeOK, NEW d \in Domain, NEW ages \in Seq(Age),
           Len(ages) <= MaxHistory[d]
    PROVE  HistoryTyped(With(d, ages))
BY DEF TypeOK, With, HistoryTyped, Age, Tracked

LEMMA LeftTyped ==
    ASSUME TypeOK, NEW d \in Tracked
    PROVE  Left[d] \in Seq(Age) /\ Len(Left[d]) <= MaxHistory[d]
<1>1. history[d] \in Seq(Age) /\ Len(history[d]) <= MaxHistory[d] /\ d \in Domain
  BY DEF TypeOK, Age
<1>2. Window + elapsed \in Nat
  BY TimesAssumption DEF TypeOK
<1>3. Left[d] = PopOlder(history[d], Window + elapsed)
  BY DEF Left
<1>4. Left[d] \in Seq(Age) /\ Len(Left[d]) <= Len(history[d])
  BY <1>1, <1>2, <1>3, Caps, PoppedTyped
<1>5. Len(Left[d]) \in Nat /\ Len(history[d]) \in Nat /\ MaxHistory[d] \in Nat
  BY <1>1, <1>4, LenProperties, SizesAssumption
<1> QED BY <1>1, <1>4, <1>5

LEMMA FiredTyped == \A d \in Domain : Fired(d) \in SUBSET Check
BY StaticAssumption DEF Fired, Check

LEMMA TypeInit == Init => TypeInv
<1> SUFFICES ASSUME Init PROVE TypeInv
  OBVIOUS
<1>1. <<>> \in Seq(Domain) /\ Len(<<>>) = 0
  BY EmptySeq
<1>2. queue \in Seq(Domain) /\ Len(queue) <= Capacity
      /\ hand \in Seq(Domain) /\ Len(hand) <= 1
  BY <1>1, SizesAssumption DEF Init
<1>3. Tracked = {} /\ DOMAIN logged = {}
  BY DEF Init, Tracked
<1>4. queued \in [Key -> 0 .. OldMark] /\ elapsed \in 0 .. MaxRound
  BY Caps, TimesAssumption DEF Init
<1>5. LookedAt
  BY DEF Init, LookedAt
<1> QED BY <1>2, <1>3, <1>4, <1>5 DEF Init, TypeInv, TypeOK

LEMMA TypeStep == TypeInv /\ [Next]_vars => TypeInv'
<1> SUFFICES ASSUME TypeInv, [Next]_vars PROVE TypeInv'
  OBVIOUS
<1> TypeOK /\ LookedAt
  BY DEF TypeInv
<1>1. ASSUME NEW d \in Domain, NEW lag \in 0 .. Lag, RecordQuery(d, lag)
      PROVE  TypeInv'
  <2> DEFINE all  == Append(Times(d), lag)
             ages == PopOlder(all, Window + lag)
  <2>1. lag \in Age /\ Window + lag \in Nat
    BY Caps, TimesAssumption DEF Age
  <2>2. all \in Seq(Age)
    BY <2>1, TimesTyped, AppendProperties
  <2>3. ages \in Seq(Age) /\ Len(ages) <= MaxHistory[d]
    BY <1>1, <2>1, <2>2, Caps, PoppedTyped DEF RecordQuery
  <2>4. history' = With(d, ages)
    BY <1>1 DEF RecordQuery
  <2>5. HistoryTyped(history')
    BY <2>3, <2>4, WithTyped
  <2> QED BY <1>1, <2>5
          DEF RecordQuery, TypeInv, TypeOK, LookedAt, HistoryTyped, Tracked, Age
<1>2. CASE Second
  <2>1. HistoryTyped(history')
    <3>1. ASSUME NEW d \in Tracked
          PROVE  history'[d] \in Seq(Age) /\ Len(history'[d]) <= MaxHistory[d]
      <4> DEFINE old == history[d]
                 new == [k \in DOMAIN old |-> Older(old[k], OldQuery)]
      <4>1. old \in Seq(Age) /\ Len(old) <= MaxHistory[d]
        BY DEF TypeOK, Age
      <4>2. Len(old) \in Nat /\ DOMAIN old = 1 .. Len(old)
        BY <4>1, LenProperties
      <4>3. \A k \in 1 .. Len(old) : Older(old[k], OldQuery) \in Age
        BY <4>1, Caps, ElementOfSeq, OlderTyped DEF Age
      <4>4. new \in [1 .. Len(old) -> Age]
        BY <4>2, <4>3
      <4>5. new \in Seq(Age) /\ Len(new) = Len(old)
        BY <4>2, <4>4
      <4>6. history'[d] = new
        BY <1>2 DEF Second
      <4> QED BY <4>1, <4>5, <4>6
    <3>2. DOMAIN history' = Tracked /\ Tracked \subseteq Domain
      BY <1>2 DEF Second, TypeOK
    <3> QED BY <3>1, <3>2 DEF HistoryTyped
  <2>2. /\ DOMAIN logged' \subseteq Key
        /\ \A k \in DOMAIN logged' : logged'[k] \in 0 .. OldMark
        /\ queued' \in [Key -> 0 .. OldMark]
    BY <1>2, Caps, OlderTyped DEF Second, TypeOK
  <2>3. elapsed' \in 0 .. MaxRound
    BY <1>2, TimesAssumption, OlderTyped DEF Second, TypeOK
  <2> QED BY <1>2, <2>1, <2>2, <2>3
          DEF Second, TypeInv, TypeOK, LookedAt, HistoryTyped, Tracked, Age
<1>3. CASE Wake
  BY <1>3, TimesAssumption DEF Wake, TypeInv, TypeOK, LookedAt, Tracked
<1>4. CASE Prune
  <2>1. Live \subseteq Tracked /\ Tracked \subseteq Domain
    BY DEF Live, TypeOK
  <2>2. HistoryTyped(history')
    <3>1. DOMAIN history' = Live
      BY <1>4 DEF Prune
    <3>2. ASSUME NEW d \in Live
          PROVE  history'[d] = Left[d]
      BY <1>4 DEF Prune
    <3> QED BY <2>1, <3>1, <3>2, LeftTyped DEF HistoryTyped
  <2>3. /\ DOMAIN logged' \subseteq Key
        /\ \A k \in DOMAIN logged' : logged'[k] \in 0 .. OldMark
    BY <1>4 DEF Prune, Unexpired, TypeOK
  <2> QED BY <1>4, <2>1, <2>2, <2>3
          DEF Prune, TypeInv, TypeOK, LookedAt, HistoryTyped, Tracked, Age
<1>5. ASSUME NEW d \in Domain, Score(d)
      PROVE  TypeInv'
  <2>1. HistoryTyped(history')
    BY <1>5, TimesTyped, WithTyped DEF Score
  <2> QED BY <1>5, <2>1 DEF Score, TypeInv, TypeOK, LookedAt, HistoryTyped, Tracked, Age
<1>6. CASE Reasons
  <2>1. at \in Domain
    BY <1>6 DEF Reasons, LookedAt
  <2>2. HistoryTyped(history')
    BY <1>6, <2>1, TimesTyped, WithTyped DEF Reasons
  <2> QED BY <1>6, <2>1, <2>2
          DEF Reasons, TypeInv, TypeOK, LookedAt, HistoryTyped, Tracked, Age
<1>7. CASE Iterate
  BY <1>7 DEF Iterate, TypeInv, TypeOK, LookedAt, Tracked
<1>8. CASE Report
  <2> DEFINE key == [domain |-> at, checks |-> Fired(at)]
  <2>1. at \in Domain /\ key \in Key
    BY <1>8, FiredTyped DEF Report, LookedAt, Key
  <2>2. HistoryTyped(history')
    BY <1>8, <2>1, TimesTyped, WithTyped DEF Report
  <2>3. queue' \in Seq(Domain) /\ Len(queue') <= Capacity
    <3>1. /\ queue \in Seq(Domain) /\ Len(queue) \in Nat /\ Len(queue) <= Capacity
          /\ Capacity \in Nat
      BY LenProperties, SizesAssumption DEF TypeOK
    <3>2. /\ Append(queue, at) \in Seq(Domain)
          /\ Len(Append(queue, at)) = Len(queue) + 1
      BY <2>1, <3>1, AppendProperties
    <3>3. CASE Put(key)
      BY <1>8, <3>1, <3>2, <3>3 DEF Report, Put, Full
    <3>4. CASE ~Put(key)
      BY <1>8, <3>1, <3>4 DEF Report
    <3> QED BY <3>3, <3>4
  <2>4. elapsed \in 0 .. OldMark
    BY Caps, TimesAssumption DEF TypeOK
  <2>5. queued' \in [Key -> 0 .. OldMark]
    BY <1>8, <2>1, <2>4 DEF Report, TypeOK
  <2>6. /\ DOMAIN logged' \subseteq Key
        /\ \A k \in DOMAIN logged' : logged'[k] \in 0 .. OldMark
    BY <1>8, <2>1, <2>4 DEF Report, TypeOK
  <2> QED BY <1>8, <2>2, <2>3, <2>5, <2>6
          DEF Report, TypeInv, TypeOK, LookedAt, HistoryTyped, Tracked, Age
<1>9. CASE EndRound
  BY <1>9, TimesAssumption DEF EndRound, TypeInv, TypeOK, LookedAt, Tracked
<1>10. CASE Take
  <2>1. Head(queue) \in Domain /\ Tail(queue) \in Seq(Domain)
        /\ Len(Tail(queue)) = Len(queue) - 1 /\ Len(queue) \in Nat
    BY <1>10, HeadTailProperties, LenProperties DEF Take, TypeOK
  <2>2. queue' \in Seq(Domain) /\ Len(queue') <= Capacity
    BY <1>10, <2>1, SizesAssumption DEF Take, TypeOK
  <2>3. hand' \in Seq(Domain) /\ Len(hand') <= 1
    BY <1>10, <2>1 DEF Take
  <2> QED BY <1>10, <2>2, <2>3 DEF Take, TypeInv, TypeOK, LookedAt, Tracked
<1>11. CASE Write
  <2>1. hand' \in Seq(Domain) /\ Len(hand') <= 1
    BY <1>11, EmptySeq DEF Write
  <2> QED BY <1>11, <2>1 DEF Write, TypeInv, TypeOK, LookedAt, Tracked
<1>12. CASE UNCHANGED vars
  BY <1>12 DEF vars, TypeInv, TypeOK, LookedAt, Tracked
<1> QED
  BY <1>1, <1>2, <1>3, <1>4, <1>5, <1>6, <1>7, <1>8, <1>9, <1>10, <1>11, <1>12
     DEF Next

\* In every reachable state of the detector, for any domains, limits and
\* bounds, every variable is well typed and the queue within its maxsize.
THEOREM TypeCorrect == Spec => []TypeOK
<1>1. TypeInv => TypeOK
  BY DEF TypeInv
<1> QED BY <1>1, TypeInit, TypeStep, PTL DEF Spec
-----------------------------------------------------------------------------
(***************************************************************************)
(* The three dictionaries.  In a round, the domain being looked at and     *)
(* those still to be looked at are tracked ones: what the checks read of   *)
(* them brings no entry back.                                              *)
(***************************************************************************)
RoundInv ==
    stage \in {"score", "reasons", "iterate", "report"} =>
        /\ items \subseteq Tracked
        /\ stage # "score" => at \in Tracked
TrackingInv == TrackingCoherent /\ RoundInv

\* a check that reads a tracked domain changes nothing
LEMMA ReadChangesNothing ==
    ASSUME NEW d \in Tracked
    PROVE  /\ DOMAIN With(d, Times(d)) = Tracked
           /\ \A x \in Tracked : With(d, Times(d))[x] = history[x]
BY DEF With, Times, Tracked

LEMMA TrackingInit == Init => TrackingInv
BY DEF Init, TrackingInv, TrackingCoherent, RoundInv, Tracked

LEMMA TrackingStep == TypeInv /\ TrackingInv /\ [Next]_vars => TrackingInv'
<1> SUFFICES ASSUME TypeInv, TrackingInv, [Next]_vars PROVE TrackingInv'
  OBVIOUS
<1> TypeOK /\ TrackingCoherent /\ RoundInv
  BY DEF TypeInv, TrackingInv
\* the dictionaries keep their domains, and every deque its length
<1>a. ASSUME Tracked' = Tracked, clients' = clients, entropies' \subseteq Tracked,
             \A d \in Tracked : history'[d] = history[d]
      PROVE  /\ clients' = Tracked' /\ entropies' \subseteq Tracked'
             /\ \A d \in Tracked' : history'[d] # <<>>
  BY <1>a DEF TrackingCoherent
<1>1. ASSUME NEW d \in Domain, NEW lag \in 0 .. Lag, RecordQuery(d, lag)
      PROVE  TrackingInv'
  <2> DEFINE ages == PopOlder(Append(Times(d), lag), Window + lag)
  <2>1. Times(d) \in Seq(Nat) /\ lag \in Nat /\ Window + lag \in Nat
        /\ lag <= Window + lag
    <3>1. Times(d) \in Seq(Age) /\ Age \subseteq Nat
      BY TimesTyped, Caps
    <3>2. Times(d) \in Seq(Nat)
      <4> HIDE DEF Age
      <4> QED BY <3>1, SeqMonotonic
    <3> QED BY <3>2, TimesAssumption
  <2>2. ages # <<>>
    BY <2>1, RecordedStays
  <2>3. history' = With(d, ages)
    BY <1>1 DEF RecordQuery
  <2>4. Tracked' = Tracked \cup {d}
    BY <2>3 DEF With, Tracked
  <2>5. \A x \in Tracked' : history'[x] # <<>>
    <3> HIDE DEF ages
    <3> QED BY <2>2, <2>3, <2>4 DEF With, TrackingCoherent
  <2> QED BY <1>1, <2>4, <2>5 DEF RecordQuery, TrackingInv, TrackingCoherent, RoundInv
<1>2. CASE Second
  <2>1. Tracked' = Tracked
    BY <1>2 DEF Second, Tracked
  <2>2. ASSUME NEW d \in Tracked PROVE history'[d] # <<>>
    <3> DEFINE old == history[d]
    <3>1. /\ old \in Seq(Age) /\ old # <<>>
          /\ history'[d] = [k \in DOMAIN old |-> Older(old[k], OldQuery)]
      BY <1>2 DEF Second, TypeOK, Age, TrackingCoherent
    <3>2. 1 \in DOMAIN old
      BY <3>1, EmptySeq, LenProperties
    <3>3. 1 \in DOMAIN history'[d]
      BY <3>1, <3>2
    <3>4. 1 \notin DOMAIN <<>>
      OBVIOUS
    <3> QED BY <3>3, <3>4
  <2> QED BY <1>2, <2>1, <2>2 DEF Second, TrackingInv, TrackingCoherent, RoundInv
<1>3. CASE Wake
  BY <1>3, <1>a DEF Wake, TrackingInv, TrackingCoherent, RoundInv, Tracked
<1>4. CASE Prune
  <2>1. Tracked' = Live /\ Live \subseteq Tracked
    BY <1>4 DEF Prune, Tracked, Live
  <2>2. \A d \in Live : history'[d] # <<>>
    BY <1>4 DEF Prune, Live
  <2>3. clients' = Live /\ entropies' \subseteq Live
    BY <1>4, <2>1 DEF Prune, TrackingCoherent
  <2> QED BY <1>4, <2>1, <2>2, <2>3 DEF Prune, TrackingInv, TrackingCoherent, RoundInv
<1>5. ASSUME NEW d \in Domain, Score(d)
      PROVE  TrackingInv'
  <2>1. d \in Tracked
    BY <1>5 DEF Score, RoundInv
  <2>2. Tracked' = Tracked /\ \A x \in Tracked : history'[x] = history[x]
    BY <1>5, <2>1, ReadChangesNothing DEF Score, Tracked
  <2>3. entropies' \subseteq Tracked
    BY <1>5, <2>1 DEF Score, TrackingCoherent
  <2> QED BY <1>5, <1>a, <2>1, <2>2, <2>3
          DEF Score, TrackingInv, TrackingCoherent, RoundInv
<1>6. CASE Reasons
  <2>1. at \in Tracked
    BY <1>6 DEF Reasons, RoundInv
  <2>2. Tracked' = Tracked /\ \A x \in Tracked : history'[x] = history[x]
    BY <1>6, <2>1, ReadChangesNothing DEF Reasons, Tracked
  <2> QED BY <1>6, <1>a, <2>1, <2>2 DEF Reasons, TrackingInv, TrackingCoherent, RoundInv
<1>7. CASE Iterate
  BY <1>7, <1>a DEF Iterate, TrackingInv, TrackingCoherent, RoundInv, Tracked
<1>8. CASE Report
  <2>1. at \in Tracked
    BY <1>8 DEF Report, RoundInv
  <2>2. Tracked' = Tracked /\ \A x \in Tracked : history'[x] = history[x]
    BY <1>8, <2>1, ReadChangesNothing DEF Report, Tracked
  <2> QED BY <1>8, <1>a, <2>1, <2>2 DEF Report, TrackingInv, TrackingCoherent, RoundInv
<1>9. CASE EndRound
  BY <1>9, <1>a DEF EndRound, TrackingInv, TrackingCoherent, RoundInv, Tracked
<1>10. CASE Take
  BY <1>10, <1>a DEF Take, TrackingInv, TrackingCoherent, RoundInv, Tracked
<1>11. CASE Write
  BY <1>11, <1>a DEF Write, TrackingInv, TrackingCoherent, RoundInv, Tracked
<1>12. CASE UNCHANGED vars
  BY <1>12, <1>a DEF vars, TrackingInv, TrackingCoherent, RoundInv, Tracked
<1> QED
  BY <1>1, <1>2, <1>3, <1>4, <1>5, <1>6, <1>7, <1>8, <1>9, <1>10, <1>11, <1>12
     DEF Next

\* The dictionaries keyed by domain know the same domains in every reachable
\* state, and no check of the detection thread brings a pruned one back.
THEOREM TrackingIsCoherent == Spec => []TrackingCoherent
<1>1. TypeInv /\ TrackingInv /\ [Next]_vars => (TypeInv /\ TrackingInv)'
  BY TypeStep, TrackingStep
<1>2. Init => TypeInv /\ TrackingInv
  BY TypeInit, TrackingInit
<1>3. TypeInv /\ TrackingInv => TrackingCoherent
  BY DEF TrackingInv
<1> QED BY <1>1, <1>2, <1>3, PTL DEF Spec
-----------------------------------------------------------------------------
(***************************************************************************)
(* Marks and reports.  MarksHonest is inductive with the types: the caps   *)
(* on ages and on the length of a round keep an age that is past the       *)
(* cooldown past it.                                                       *)
(***************************************************************************)
LEMMA MarksInit == Init => MarksHonest
<1> SUFFICES ASSUME Init PROVE MarksHonest
  OBVIOUS
<1>1. DOMAIN logged = {} /\ elapsed = 0 /\ \A k \in Key : queued[k] = OldMark
  BY DEF Init
<1> QED BY <1>1, Caps, TimesAssumption DEF MarksHonest

\* an age past the cooldown stays past it as a second goes by
LEMMA StaysPastCooldown ==
    ASSUME NEW age \in 0 .. OldMark, NEW e \in 0 .. MaxRound, age > Cooldown + e
    PROVE  Older(age, OldMark) > Cooldown + Older(e, MaxRound)
BY Caps, TimesAssumption DEF Older

LEMMA MarksStep == TypeInv /\ MarksHonest /\ [Next]_vars => MarksHonest'
<1> SUFFICES ASSUME TypeInv, MarksHonest, [Next]_vars PROVE MarksHonest'
  OBVIOUS
<1> TypeOK /\ LookedAt
  BY DEF TypeInv
<1>a. ASSUME UNCHANGED <<marks, elapsed>> PROVE MarksHonest'
  BY <1>a DEF MarksHonest
<1>1. ASSUME NEW d \in Domain, NEW lag \in 0 .. Lag, RecordQuery(d, lag)
      PROVE  MarksHonest'
  BY <1>1, <1>a DEF RecordQuery
<1>2. CASE Second
  <2>1. ASSUME NEW k \in Key, k \in DOMAIN logged
        PROVE  k \in DOMAIN logged' /\ logged'[k] = queued'[k]
    BY <1>2, <2>1 DEF Second, MarksHonest
  <2>2. ASSUME NEW k \in Key, k \notin DOMAIN logged
        PROVE  k \notin DOMAIN logged' /\ queued'[k] > Cooldown + elapsed'
    <3>1. /\ queued[k] \in 0 .. OldMark /\ elapsed \in 0 .. MaxRound
          /\ queued[k] > Cooldown + elapsed
      BY <2>2 DEF MarksHonest, TypeOK
    <3>2. /\ queued'[k] = Older(queued[k], OldMark)
          /\ elapsed' = Older(elapsed, MaxRound) /\ DOMAIN logged' = DOMAIN logged
      BY <1>2 DEF Second
    <3> QED BY <2>2, <3>1, <3>2, StaysPastCooldown
  <2> QED BY <2>1, <2>2 DEF MarksHonest
<1>3. CASE Wake
  <2>1. \A k \in Key : queued[k] \in Nat
    BY Caps DEF TypeOK
  <2> QED BY <1>3, <2>1, TimesAssumption DEF Wake, MarksHonest, TypeOK
<1>4. CASE Prune
  <2>1. ASSUME NEW k \in Key, k \in DOMAIN logged'
        PROVE  logged'[k] = queued'[k]
    BY <1>4, <2>1 DEF Prune, Unexpired, MarksHonest
  <2>2. ASSUME NEW k \in Key, k \notin DOMAIN logged'
        PROVE  queued'[k] > Cooldown + elapsed'
    <3>1. CASE k \in DOMAIN logged
      <4>1. logged[k] = queued[k] /\ logged[k] \in Nat /\ elapsed \in Nat
        BY <3>1, Caps DEF MarksHonest, TypeOK
      <4>2. ~(logged[k] <= Cooldown + elapsed)
        BY <1>4, <2>2, <3>1 DEF Prune, Unexpired
      <4> QED BY <1>4, <4>1, <4>2, TimesAssumption DEF Prune
    <3>2. CASE k \notin DOMAIN logged
      BY <1>4, <3>2 DEF Prune, MarksHonest
    <3> QED BY <3>1, <3>2
  <2> QED BY <2>1, <2>2 DEF MarksHonest
<1>5. ASSUME NEW d \in Domain, Score(d)
      PROVE  MarksHonest'
  BY <1>5, <1>a DEF Score
<1>6. CASE Reasons
  BY <1>6, <1>a DEF Reasons
<1>7. CASE Iterate
  BY <1>7, <1>a DEF Iterate
<1>8. CASE Report
  <2> DEFINE key == [domain |-> at, checks |-> Fired(at)]
  <2>1. key \in Key
    BY <1>8, FiredTyped DEF Report, LookedAt, Key
  <2>2. CASE Put(key)
    <3>1. /\ queued' = [queued EXCEPT ![key] = elapsed] /\ elapsed' = elapsed
          /\ logged' = [k \in DOMAIN logged \cup {key} |->
                           IF k = key THEN elapsed ELSE logged[k]]
      BY <1>8, <2>2 DEF Report, Marked
    <3> HIDE DEF key
    <3> QED BY <2>1, <3>1 DEF MarksHonest, TypeOK
  <2>3. CASE ~Put(key)
    BY <1>8, <1>a, <2>3 DEF Report, Marked
  <2> QED BY <2>2, <2>3
<1>9. CASE EndRound
  <2>1. \A k \in Key : queued[k] \in Nat
    BY Caps DEF TypeOK
  <2> QED BY <1>9, <2>1, TimesAssumption DEF EndRound, MarksHonest, TypeOK
<1>10. CASE Take
  BY <1>10, <1>a DEF Take
<1>11. CASE Write
  BY <1>11, <1>a DEF Write
<1>12. CASE UNCHANGED vars
  BY <1>12, <1>a DEF vars
<1> QED
  BY <1>1, <1>2, <1>3, <1>4, <1>5, <1>6, <1>7, <1>8, <1>9, <1>10, <1>11, <1>12
     DEF Next

\* A report is suppressed by a report queued within the cooldown and by nothing
\* else: dropped reports leave no mark and pruned marks suppressed nothing.
THEOREM MarksAreHonest == Spec => []MarksHonest
<1>1. TypeInv /\ MarksHonest /\ [Next]_vars => (TypeInv /\ MarksHonest)'
  BY TypeStep, MarksStep
<1>2. Init => TypeInv /\ MarksHonest
  BY TypeInit, MarksInit
<1> QED BY <1>1, <1>2, PTL DEF Spec

\* no step reports a key whose last report is within the cooldown
KeptCooldown ==
    \A k \in Key : queued'[k] < queued[k] => queued[k] > Cooldown + elapsed

LEMMA CooldownStep == TypeInv /\ MarksHonest /\ [Next]_vars => KeptCooldown
<1> SUFFICES ASSUME TypeInv, MarksHonest, [Next]_vars,
                    NEW k \in Key, queued'[k] < queued[k]
             PROVE  queued[k] > Cooldown + elapsed
  BY DEF KeptCooldown
<1> TypeOK /\ LookedAt
  BY DEF TypeInv
<1>1. queued[k] \in 0 .. OldMark /\ OldMark \in Nat
  BY Caps DEF TypeOK
<1>2. ~UNCHANGED queued
  BY <1>1
<1>3. ~Second
  <2>1. Second => queued'[k] = Older(queued[k], OldMark)
    BY DEF Second
  <2> QED BY <1>1, <2>1 DEF Older
<1>4. Report
  BY <1>2, <1>3 DEF Next, RecordQuery, Wake, Prune, Score, Reasons, Iterate, EndRound,
                    Take, Write, vars
<1> DEFINE key == [domain |-> at, checks |-> Fired(at)]
<1>5. Put(key) /\ queued' = [queued EXCEPT ![key] = elapsed]
  BY <1>2, <1>4 DEF Report
<1>6. k = key
  <2> HIDE DEF key
  <2> QED BY <1>1, <1>5 DEF TypeOK
<1> HIDE DEF key
<1> QED BY <1>5, <1>6 DEF Put, Due, MarksHonest

\* At most one report in each cooldown for a domain that fails the same checks,
\* though the marks are pruned while the detector runs.
THEOREM CooldownIsKept == Spec => CooldownKept
<1>1. TypeInv /\ MarksHonest /\ [Next]_vars => (TypeInv /\ MarksHonest)'
  BY TypeStep, MarksStep
<1>2. Init => TypeInv /\ MarksHonest
  BY TypeInit, MarksInit
<1>3. TypeInv /\ MarksHonest /\ [Next]_vars => [KeptCooldown]_vars
  BY CooldownStep
<1>4. CooldownKept <=> [][KeptCooldown]_vars
  BY DEF CooldownKept, KeptCooldown
<1> QED BY <1>1, <1>2, <1>3, <1>4, PTL DEF Spec
=============================================================================
