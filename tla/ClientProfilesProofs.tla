------------------------- MODULE ClientProfilesProofs -------------------------
(***************************************************************************)
(* Proofs about ClientProfiles, for every set of clients, domains and      *)
(* threads.                                                                *)
(***************************************************************************)
EXTENDS ClientProfiles, TLAPS

\* Lists stay two sets of domains when a request edits them.
LEMMA EditedType ==
    ASSUME NEW lists \in Lists, NEW r \in Request
    PROVE  Edited(lists, r) \in Lists
BY DEF Edited, Lists, ListName, Request

LEMMA TypeInit == Init => TypeOK
<1> SUFFICES ASSUME Init PROVE TypeOK
    OBVIOUS
<1>1. Empty \in Lists
    BY DEF Empty, Lists
<1> QED BY <1>1, RequestAssumption DEF Init, TypeOK

LEMMA TypeStep == TypeOK /\ [Next]_vars => TypeOK'
<1> SUFFICES ASSUME TypeOK, [Next]_vars PROVE TypeOK'
    OBVIOUS
<1> USE RequestAssumption
<1>1. CASE UNCHANGED vars
    BY <1>1 DEF TypeOK, vars
<1>2. ASSUME NEW h \in Handler, NEW r \in Request, Receive(h, r)
      PROVE  TypeOK'
    BY <1>2 DEF Receive, TypeOK, Request
<1>3. ASSUME NEW h \in Handler, SetProfile(h)
      PROVE  TypeOK'
  <2>1. req[h] \in Request /\ row[h] \in Lists /\ req[h].client \in Client
      BY <1>3 DEF SetProfile, TypeOK, Request
  <2>2. acked[req[h].client] \in Lists
      BY <2>1 DEF TypeOK
  <2>3. /\ Edited(row[h], req[h]) \in Lists
        /\ Edited(acked[req[h].client], req[h]) \in Lists
      BY <2>1, <2>2, EditedType
  <2> QED BY <1>3, <2>1, <2>3 DEF SetProfile, TypeOK
<1> QED BY <1>1, <1>2, <1>3 DEF Next

\* Rows, copies and requests are always well formed.
THEOREM TypeCorrect == Spec => []TypeOK
BY TypeInit, TypeStep, PTL DEF Spec
-----------------------------------------------------------------------------
(***************************************************************************)
(* While a client has had no overlapping requests, at most one thread is   *)
(* about to write its row, and the copy that thread holds is still what    *)
(* the table has.                                                          *)
(***************************************************************************)
Alone(h) == pc[h] = "write" /\ req[h].client \notin shared

CopyIsCurrent ==
    \A h \in Handler : Alone(h) =>
      /\ row[h] = table[req[h].client]
      /\ \A g \in Handler \ {h} :
           pc[g] = "write" => req[g].client # req[h].client

SerialInv == TypeOK /\ SerialUpdatesKept /\ CopyIsCurrent

LEMMA SerialStep == SerialInv /\ [Next]_vars => SerialInv'
<1> SUFFICES ASSUME SerialInv, [Next]_vars
             PROVE  SerialUpdatesKept' /\ CopyIsCurrent'
    BY TypeStep DEF SerialInv
<1> USE DEF SerialInv
<1>1. CASE UNCHANGED vars
    BY <1>1 DEF SerialUpdatesKept, CopyIsCurrent, Alone, vars
<1>2. ASSUME NEW h \in Handler, NEW r \in Request, Receive(h, r)
      PROVE  SerialUpdatesKept' /\ CopyIsCurrent'
  <2>1. SerialUpdatesKept'
      BY <1>2 DEF Receive, SerialUpdatesKept, TypeOK
  <2>2. CASE Needless(table[r.client], r)
      BY <1>2, <2>1, <2>2 DEF Receive, CopyIsCurrent, Alone
  <2>3. CASE ~Needless(table[r.client], r)
    <3>1. ASSUME NEW k \in Handler, Alone(k)'
          PROVE  row'[k] = table'[req'[k].client]
        BY <1>2, <2>3, <3>1 DEF Receive, CopyIsCurrent, Alone, TypeOK
    <3>2. ASSUME NEW k \in Handler, Alone(k)', NEW g \in Handler \ {k},
                 pc'[g] = "write"
          PROVE  req'[g].client # req'[k].client
        BY <1>2, <2>3, <3>2 DEF Receive, CopyIsCurrent, Alone, TypeOK
    <3> QED BY <2>1, <3>1, <3>2 DEF CopyIsCurrent
  <2> QED BY <2>1, <2>2, <2>3
<1>3. ASSUME NEW h \in Handler, SetProfile(h)
      PROVE  SerialUpdatesKept' /\ CopyIsCurrent'
  <2>1. req[h] \in Request /\ req[h].client \in Client
      BY <1>3 DEF SetProfile, TypeOK, Request
  <2>2. ASSUME NEW c \in Client, c \notin shared'
        PROVE  table'[c] = acked'[c]
    <3>1. CASE c = req[h].client
      <4>1. row[h] = table[c] /\ table[c] = acked[c]
          BY <1>3, <2>2, <3>1 DEF SetProfile, CopyIsCurrent, Alone, SerialUpdatesKept
      <4> QED BY <1>3, <2>1, <3>1, <4>1 DEF SetProfile, TypeOK
    <3>2. CASE c # req[h].client
        BY <1>3, <2>1, <2>2, <3>2 DEF SetProfile, SerialUpdatesKept, TypeOK
    <3> QED BY <3>1, <3>2
  <2>3. CopyIsCurrent'
    <3>1. ASSUME NEW k \in Handler, Alone(k)'
          PROVE  /\ row'[k] = table'[req'[k].client]
                 /\ \A g \in Handler \ {k} :
                      pc'[g] = "write" => req'[g].client # req'[k].client
      <4>1. k # h /\ Alone(k) /\ req' = req /\ row' = row
          BY <1>3, <3>1 DEF SetProfile, Alone, TypeOK
      <4>2. req[h].client # req[k].client
          BY <1>3, <4>1 DEF SetProfile, CopyIsCurrent
      <4>3. table'[req[k].client] = table[req[k].client]
          BY <1>3, <4>2, <2>1 DEF SetProfile, TypeOK
      <4> QED BY <1>3, <4>1, <4>3 DEF SetProfile, CopyIsCurrent, TypeOK
    <3> QED BY <3>1 DEF CopyIsCurrent
  <2> QED BY <2>2, <2>3 DEF SerialUpdatesKept
<1> QED BY <1>1, <1>2, <1>3 DEF Next

\* A client whose requests never overlapped keeps exactly the lists its
\* answered requests add up to, with any number of threads and clients.
THEOREM SerialUpdatesAreKept == Spec => []SerialUpdatesKept
<1>1. Init => SerialInv
    BY TypeInit DEF Init, SerialInv, SerialUpdatesKept, CopyIsCurrent, Alone
<1>2. SerialInv => SerialUpdatesKept
    BY DEF SerialInv
<1> QED BY <1>1, SerialStep, <1>2, PTL DEF Spec
=============================================================================
