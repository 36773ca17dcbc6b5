------------------------ MODULE BlocklistRegistryProofs ------------------------
(***************************************************************************)
(* Proofs about BlocklistRegistry, for any processes, threads, URLs and    *)
(* bounds.                                                                 *)
(***************************************************************************)
EXTENDS BlocklistRegistry, WellFoundedInduction, TLAPS

\* A non-empty set of list ids has a least member, so the walks over a table
\* in id order are well defined.
LEMMA LeastIsMember ==
    ASSUME NEW S \in SUBSET Id, S # {}
    PROVE  Least(S) \in S
<1> DEFINE R == OpToRel(<, Nat)
<1>1. IsWellFoundedOn(R, Nat)
  BY NatLessThanWellFounded
<1>2. PICK i \in S : \A j \in S : ~(<<j, i>> \in R)
  <2>1. S \subseteq Nat
    BY BoundAssumption DEF Id
  <2> HIDE DEF R
  <2> QED BY <1>1, <2>1, WFMin
<1>3. ASSUME NEW j \in S PROVE i <= j
  <2>1. i \in Nat /\ j \in Nat
    BY BoundAssumption DEF Id
  <2>2. ~(j < i)
    BY <1>2, <2>1 DEF R, OpToRel
  <2> QED BY <2>1, <2>2
<1> QED BY <1>3 DEF Least
-----------------------------------------------------------------------------
(***************************************************************************)
(* Type correctness.                                                       *)
(***************************************************************************)
LEMMA EmptyTyped ==
    /\ EmptyTable \in Table /\ EmptyTable \in Sets /\ NoJob \in Job
BY BoundAssumption DEF EmptyTable, NoJob, NoTag, Table, Sets, Job

LEMMA ThreadProcess == \A t \in Thread : Owner[t] \in Process
BY ProcessAssumption

LEMMA TagTyped == \A c \in Content : TagOf(c) \in 0 .. MaxVersion
BY BoundAssumption DEF TagOf, NoTag, Content, Version

\* Overwriting the ETag or the flag of a list that is in a table.
LEMMA EtagTyped ==
    ASSUME NEW table \in Table, NEW i \in Id, table[i] # None,
           NEW e \in 0 .. MaxVersion
    PROVE  [table EXCEPT ![i].etag = e] \in Table
<1>1. [table[i] EXCEPT !.etag = e] \in Row
  BY DEF Table, Row
<1> QED BY <1>1 DEF Table

LEMMA FlagTyped ==
    ASSUME NEW table \in Table, NEW i \in Id, table[i] # None, NEW e \in BOOLEAN
    PROVE  [table EXCEPT ![i].enabled = e] \in Table
<1>1. [table[i] EXCEPT !.enabled = e] \in Row
  BY DEF Table, Row
<1> QED BY <1>1 DEF Table

\* Installing a table and domain sets in a manager keeps its types.
LEMMA InstallTyped ==
    ASSUME ShapeOK, NEW t \in Thread, NEW table \in Table, NEW sets \in Sets,
           Install(t, table, sets)
    PROVE  /\ rows' \in [Process -> Table] /\ doms' \in [Process -> Sets]
           /\ index' \in [Process -> Sets] /\ mask' \in [Process -> SUBSET Id]
<1>1. IndexOf(table, sets) \in Sets
  BY DEF IndexOf, Sets
<1>2. MaskOf(table) \in SUBSET Id
  BY DEF MaskOf, Listed
<1> QED BY <1>1, <1>2 DEF ShapeOK, Install

LEMMA InitTyped == Init => ShapeOK
<1> SUFFICES ASSUME Init PROVE ShapeOK
  OBVIOUS
<1>1. /\ db \in Table /\ nextId \in 1 .. MaxId + 1 /\ cache \in Sets
      /\ owner \in [Id -> Url \cup {None}] /\ upstream \in [Url -> Version]
  BY EmptyTyped, BoundAssumption DEF Init, EmptyTable, Version
<1>2. /\ running \in [Process -> {"down", "loading", "up"}]
      /\ rows \in [Process -> Table]
      /\ doms \in [Process -> Sets] /\ index \in [Process -> Sets]
      /\ mask \in [Process -> SUBSET Id]
  BY EmptyTyped DEF Init
<1>3. /\ lock \in [Process -> Thread \cup {None}]
      /\ pc \in [Thread -> Stage] /\ job \in [Thread -> Job]
  BY EmptyTyped DEF Init, Stage
<1>4. commands \in 0 .. MaxCommand /\ crashes \in 0 .. MaxCrash
  BY BoundAssumption DEF Init
<1> QED BY <1>1, <1>2, <1>3, <1>4 DEF ShapeOK

LEMMA SelectTyped ==
    ASSUME ShapeOK, NEW t \in Thread, NEW stage \in Stage, Select(t, stage)
    PROVE  /\ lock' \in [Process -> Thread \cup {None}]
           /\ pc' \in [Thread -> Stage] /\ job' \in [Thread -> Job]
<1>1. [NoJob EXCEPT !.snap = db] \in Job
  BY EmptyTyped DEF ShapeOK, Job
<1>2. "idle" \in Stage /\ "dead" \in Stage
  BY DEF Stage
<1> QED BY <1>1, <1>2, EmptyTyped
        DEF ShapeOK, Select, StatementRaises, Raise, Acquire, Goto, Finish

LEMMA SyncedTyped ==
    ASSUME ShapeOK, NEW t \in Thread
    PROVE  Synced(t) \in Table /\ SyncedDomains(t) \in Sets
<1> DEFINE table == rows[Owner[t]]
           snap  == job[t].snap
<1>1. table \in Table /\ snap \in Table
  BY ThreadProcess DEF ShapeOK, Job
<1>2. job[t].read \in Sets /\ doms[Owner[t]] \in Sets
  BY ThreadProcess DEF ShapeOK, Job
<1>3. ASSUME NEW i \in Id, snap[i] # None, table[i] # None
      PROVE  [table[i] EXCEPT !.enabled = snap[i].enabled] \in Row
  BY <1>1, <1>3 DEF Table, Row
<1>4. Synced(t) \in Table
  BY <1>1, <1>3 DEF Synced, Table
<1>5. SyncedDomains(t) \in Sets
  BY <1>2 DEF SyncedDomains, Sets
<1> QED BY <1>4, <1>5
LEMMA CurrentTyped ==
    ASSUME ShapeOK, NEW u \in Url
    PROVE  Current(u) \in Content
BY DEF ShapeOK, Current, Content

\* what refresh_list reads under the lock before its download
CaptureOf(t, i, todo) ==
    [NoJob EXCEPT !.id = i, !.url = rows[Owner[t]][i].url,
                  !.etag = rows[Owner[t]][i].etag, !.todo = todo]

LEMMA CaptureTyped ==
    ASSUME ShapeOK, NEW t \in Thread, NEW i \in Id, rows[Owner[t]][i] # None,
           NEW todo \in SUBSET Id
    PROVE  CaptureOf(t, i, todo) \in Job
<1>1. rows[Owner[t]][i] \in Row
  BY ThreadProcess DEF ShapeOK, Table
<1>2. /\ i \in 0 .. MaxId /\ rows[Owner[t]][i].url \in Url
      /\ rows[Owner[t]][i].etag \in 0 .. MaxVersion
  BY <1>1, BoundAssumption DEF Row, Id
<1> QED BY <1>2, EmptyTyped DEF CaptureOf, Job

LEMMA ShapeStep == TypeOK /\ [Next]_vars => ShapeOK'
<1> SUFFICES ASSUME TypeOK, [Next]_vars PROVE ShapeOK'
  OBVIOUS
<1> ShapeOK /\ LocalsSet
  BY DEF TypeOK
<1> USE ThreadProcess DEF disk, memory, bounds
<1>1. ASSUME NEW t \in Loop, Start(t)
      PROVE  ShapeOK'
  <2>1. "load" \in Stage /\ t \in Thread
    BY DEF Stage, Holding, Syncing, Thread
  <2> QED BY <1>1, <2>1, SelectTyped DEF Start, Select, StatementRaises, ShapeOK
<1>2. ASSUME NEW t \in Loop, Tick(t)
      PROVE  ShapeOK'
  <2>1. "tick" \in Stage /\ t \in Thread
    BY DEF Stage, Holding, Syncing, Thread
  <2> QED BY <1>2, <2>1, SelectTyped DEF Tick, Select, StatementRaises, ShapeOK
<1>3. ASSUME NEW t \in Loop, RefreshDue(t)
      PROVE  ShapeOK'
  <2>1. "resync" \in Stage /\ t \in Thread
    BY DEF Stage, Holding, Syncing, Thread
  <2> QED BY <1>3, <2>1, SelectTyped DEF RefreshDue, Select, StatementRaises, ShapeOK
<1>4. ASSUME NEW t \in Loop, NotDue(t)
      PROVE  ShapeOK'
  BY <1>4, EmptyTyped DEF NotDue, Goto, Finish, ShapeOK, Thread, Stage
<1>5. ASSUME NEW t \in Reloader, ForceReload(t)
      PROVE  ShapeOK'
  <2>1. "resync" \in Stage /\ t \in Thread
    BY DEF Stage, Holding, Syncing, Thread
  <2> QED BY <1>5, <2>1, SelectTyped DEF ForceReload, Select, StatementRaises, ShapeOK
<1>6. ASSUME NEW t \in Thread, ReadCache(t)
      PROVE  ShapeOK'
  <2> DEFINE i == Least(Unknown(t) \ job[t].seen)
  <2>1. i \in Id
    BY <1>6, LeastIsMember DEF ReadCache, Unknown, Listed
  <2>2. PICK c \in Content \cup {None} :
          job' = [job EXCEPT ![t].read[i] = c, ![t].seen = @ \cup {i}]
    BY <1>6, <2>1 DEF ReadCache, ShapeOK, Sets
  <2>3. /\ job[t] \in Job /\ [job[t].read EXCEPT ![i] = c] \in Sets
        /\ job[t].seen \cup {i} \in SUBSET Id
    BY <2>1 DEF ShapeOK, Job, Sets
  <2>4. [job[t] EXCEPT !.read = [job[t].read EXCEPT ![i] = c],
                       !.seen = job[t].seen \cup {i}] \in Job
    BY <2>3 DEF Job
  <2>5. job' = [job EXCEPT ![t] = [job[t] EXCEPT
                  !.read = [job[t].read EXCEPT ![i] = c],
                  !.seen = job[t].seen \cup {i}]]
    BY <2>2, <2>3 DEF ShapeOK, Job
  <2>6. job' \in [Thread -> Job]
    BY <2>4, <2>5 DEF ShapeOK
  <2> QED BY <1>6, <2>6 DEF ReadCache, ShapeOK
<1>7. ASSUME NEW t \in Thread, SyncRegistry(t)
      PROVE  ShapeOK'
  <2>1. Synced(t) \in Table /\ SyncedDomains(t) \in Sets
    BY SyncedTyped
  <2>2. /\ rows' \in [Process -> Table] /\ doms' \in [Process -> Sets]
        /\ index' \in [Process -> Sets] /\ mask' \in [Process -> SUBSET Id]
    BY <1>7, <2>1, InstallTyped DEF SyncRegistry, ShapeOK
  <2>3. pc' \in [Thread -> Stage]
    BY <1>7 DEF SyncRegistry, Goto, ShapeOK, Stage
  <2>4. [NoJob EXCEPT !.todo = Listed(Synced(t))] \in Job
    BY EmptyTyped DEF Job, Listed
  <2>5. job' \in [Thread -> Job]
    BY <1>7, <2>4, EmptyTyped DEF SyncRegistry, Finish, ShapeOK
  <2> QED BY <1>7, <2>2, <2>3, <2>5 DEF SyncRegistry, Release, ShapeOK
<1>8. ASSUME NEW t \in Thread, NextList(t)
      PROVE  ShapeOK'
  <2>1. job' \in [Thread -> Job]
    <3>1. CASE job[t].todo = {}
      BY <1>8, <3>1, EmptyTyped DEF NextList, Finish, ShapeOK
    <3>2. CASE job[t].todo # {}
      <4> DEFINE i == Least(job[t].todo)
      <4>1. i \in Id
        BY <3>2, LeastIsMember DEF ShapeOK, Job
      <4>2. CASE rows[Owner[t]][i] = None
        <5>1. [job[t] EXCEPT !.todo = job[t].todo \ {i}] \in Job
          BY DEF ShapeOK, Job
        <5> QED BY <1>8, <3>2, <4>2, <5>1 DEF NextList, ShapeOK
      <4>3. CASE rows[Owner[t]][i] # None
        <5>1. CaptureOf(t, i, job[t].todo \ {i}) \in Job
          BY <4>1, <4>3, CaptureTyped DEF ShapeOK, Job
        <5> QED BY <1>8, <3>2, <4>3, <5>1 DEF NextList, Capture, CaptureOf, ShapeOK
      <4> QED BY <4>2, <4>3
    <3> QED BY <3>1, <3>2
  <2>2. pc' \in [Thread -> Stage]
    BY <1>8 DEF NextList, Capture, Goto, ShapeOK, Stage
  <2> QED BY <1>8, <2>1, <2>2 DEF NextList, ShapeOK
<1>9. ASSUME NEW t \in Thread, FetchFails(t)
      PROVE  ShapeOK'
  BY <1>9, EmptyTyped DEF FetchFails, Goto, Finish, ShapeOK, Thread, Stage
<1>10. ASSUME NEW t \in Thread, FetchSucceeds(t)
      PROVE  ShapeOK'
  <2>1. Current(job[t].url) \in Content
    BY <1>10, CurrentTyped DEF FetchSucceeds, LocalsSet
  <2>2. job' \in [Thread -> Job]
    BY <1>10, <2>1 DEF FetchSucceeds, ShapeOK, Job
  <2> QED BY <1>10, <2>2 DEF FetchSucceeds, Goto, ShapeOK, Stage
<1>11. ASSUME NEW t \in Thread, NotModified(t)
      PROVE  ShapeOK'
  BY <1>11, EmptyTyped DEF NotModified, Goto, Finish, ShapeOK, Thread, Stage, Raise
<1>12. ASSUME NEW t \in Thread, CommitRefresh(t)
      PROVE  ShapeOK'
  <2>1. job[t].id \in Id /\ TagOf(job[t].content) \in 0 .. MaxVersion
    BY <1>12, TagTyped DEF CommitRefresh, LocalsSet
  <2>2. db' \in Table
    BY <1>12, <2>1, EtagTyped DEF CommitRefresh, ShapeOK
  <2>3. /\ lock' \in [Process -> Thread \cup {None}]
        /\ pc' \in [Thread -> Stage] /\ job' \in [Thread -> Job]
    BY <1>12, EmptyTyped
       DEF CommitRefresh, Raise, Acquire, Goto, Finish, ShapeOK, Stage, Holding
  <2> QED BY <1>12, <2>2, <2>3 DEF CommitRefresh, ShapeOK
<1>13. ASSUME NEW t \in Thread, FinishRefresh(t)
      PROVE  ShapeOK'
  <2> DEFINE i == job[t].id
             c == job[t].content
             p == Owner[t]
             table == [rows[p] EXCEPT ![i].etag = TagOf(c)]
             sets  == [doms[p] EXCEPT ![i] = c]
  <2>1. i \in Id /\ c \in Content /\ rows[p][i] # None /\ p \in Process
    BY <1>13 DEF FinishRefresh, LocalsSet
  <2>2. table \in Table /\ sets \in Sets /\ cache' \in Sets
    <3>1. TagOf(c) \in 0 .. MaxVersion /\ rows[p] \in Table
      BY <2>1, TagTyped DEF ShapeOK
    <3>2. table \in Table
      BY <2>1, <3>1, EtagTyped
    <3> QED BY <1>13, <2>1, <3>2 DEF FinishRefresh, WriteCache, ShapeOK, Sets
  <2>3. Install(t, table, sets)
    BY <1>13 DEF FinishRefresh
  <2>4. /\ rows' \in [Process -> Table] /\ doms' \in [Process -> Sets]
        /\ index' \in [Process -> Sets] /\ mask' \in [Process -> SUBSET Id]
    BY <2>2, <2>3, InstallTyped
  <2>5. [NoJob EXCEPT !.todo = job[t].todo] \in Job
    BY EmptyTyped DEF ShapeOK, Job
  <2> QED BY <1>13, <2>2, <2>4, <2>5 DEF FinishRefresh, Release, Goto, ShapeOK, Stage
<1>14. ASSUME NEW t \in Handler, NEW u \in Url, AddList(t, u)
      PROVE  ShapeOK'
  <2>1. job' \in [Thread -> Job]
    BY <1>14, EmptyTyped DEF AddList, ShapeOK, Job, Thread
  <2>2. commands' \in 0 .. MaxCommand
    BY <1>14, BoundAssumption DEF AddList, Command, ShapeOK
  <2> QED BY <1>14, <2>1, <2>2 DEF AddList, Goto, ShapeOK, Thread, Stage
<1>15. ASSUME NEW t \in Handler, AddFails(t)
      PROVE  ShapeOK'
  BY <1>15, EmptyTyped DEF AddFails, Goto, Finish, ShapeOK, Thread, Stage
<1>16. ASSUME NEW t \in Handler, AddFetched(t)
      PROVE  ShapeOK'
  <2>1. Current(job[t].url) \in Content
    BY <1>16, CurrentTyped DEF AddFetched, LocalsSet, Thread
  <2>2. job' \in [Thread -> Job]
    BY <1>16, <2>1 DEF AddFetched, ShapeOK, Job, Thread
  <2> QED BY <1>16, <2>2 DEF AddFetched, Goto, ShapeOK, Thread, Stage
<1>17. ASSUME NEW t \in Handler, InsertConflict(t)
      PROVE  ShapeOK'
  BY <1>17, EmptyTyped DEF InsertConflict, Goto, Finish, ShapeOK, Thread, Stage
<1>18. ASSUME NEW t \in Handler, InsertRow(t)
      PROVE  ShapeOK'
  <2>1. job[t].url \in Url /\ TagOf(job[t].content) \in 0 .. MaxVersion /\ t \in Thread
    BY <1>18, TagTyped DEF InsertRow, LocalsSet, Thread
  <2>2. nextId \in Id /\ nextId' \in 1 .. MaxId + 1
    BY <1>18, BoundAssumption DEF InsertRow, ShapeOK, Id
  <2>3. db' \in Table /\ owner' \in [Id -> Url \cup {None}]
    BY <1>18, <2>1, <2>2 DEF InsertRow, ShapeOK, Table, Row
  <2>4. db'[nextId] \in Row \cup {None}
    BY <2>2, <2>3 DEF Table
  <2>5. job' \in [Thread -> Job]
    <3>1. /\ job[t] \in Job /\ nextId \in 0 .. MaxId
          /\ [job[t].snap EXCEPT ![nextId] = db'[nextId]] \in Table
      BY <2>1, <2>2, <2>4, BoundAssumption DEF ShapeOK, Job, Table, Id
    <3>2. [job[t] EXCEPT !.id = nextId,
             !.snap = [job[t].snap EXCEPT ![nextId] = db'[nextId]]] \in Job
      BY <3>1 DEF Job
    <3>3. job' = [job EXCEPT ![t] = [job[t] EXCEPT !.id = nextId,
             !.snap = [job[t].snap EXCEPT ![nextId] = db'[nextId]]]]
      BY <1>18, <2>1, <3>1 DEF InsertRow, ShapeOK, Job
    <3> QED BY <3>2, <3>3 DEF ShapeOK
  <2> QED BY <1>18, <2>1, <2>2, <2>3, <2>5
          DEF InsertRow, Acquire, Goto, ShapeOK, Stage, Holding
<1>19. ASSUME NEW t \in Handler, FinishAdd(t)
      PROVE  ShapeOK'
  <2> DEFINE i == job[t].id
             c == job[t].content
             p == Owner[t]
             table == [rows[p] EXCEPT ![i] = job[t].snap[i]]
             sets  == [doms[p] EXCEPT ![i] = c]
  <2>1. i \in Id /\ c \in Content /\ p \in Process /\ t \in Thread
    BY <1>19 DEF FinishAdd, LocalsSet, Thread
  <2>2. table \in Table /\ sets \in Sets /\ cache' \in Sets
    BY <1>19, <2>1 DEF FinishAdd, WriteCache, ShapeOK, Job, Table, Sets
  <2>3. Install(t, table, sets)
    BY <1>19 DEF FinishAdd
  <2>4. /\ rows' \in [Process -> Table] /\ doms' \in [Process -> Sets]
        /\ index' \in [Process -> Sets] /\ mask' \in [Process -> SUBSET Id]
    BY <2>1, <2>2, <2>3, InstallTyped
  <2> QED BY <1>19, <2>2, <2>4, EmptyTyped
          DEF FinishAdd, Release, Goto, Finish, ShapeOK, Stage
<1>20. ASSUME NEW t \in Handler, NEW i \in Id, RemoveList(t, i)
      PROVE  ShapeOK'
  <2>1. db' \in Table
    BY <1>20 DEF RemoveList, ShapeOK, Table
  <2>2. job' \in [Thread -> Job]
    <3>1. i \in 0 .. MaxId
      BY BoundAssumption DEF Id
    <3>2. [job[t] EXCEPT !.id = i] \in Job
      BY <3>1 DEF ShapeOK, Job, Thread
    <3> QED BY <1>20, <3>2 DEF RemoveList, ShapeOK
  <2>3. commands' \in 0 .. MaxCommand
    BY <1>20, BoundAssumption DEF RemoveList, Command, ShapeOK
  <2> QED BY <1>20, <2>1, <2>2, <2>3
          DEF RemoveList, Acquire, Goto, ShapeOK, Thread, Stage, Holding
<1>21. ASSUME NEW t \in Handler, FinishRemove(t)
      PROVE  ShapeOK'
  <2> DEFINE i == job[t].id
             p == Owner[t]
             table == [rows[p] EXCEPT ![i] = None]
             sets  == [doms[p] EXCEPT ![i] = None]
  <2>1. i \in Id /\ p \in Process /\ t \in Thread
    BY <1>21 DEF FinishRemove, LocalsSet, Thread
  <2>2. table \in Table /\ sets \in Sets /\ cache' \in Sets
    BY <1>21, <2>1 DEF FinishRemove, WriteCache, ShapeOK, Table, Sets
  <2>3. Install(t, table, sets)
    BY <1>21 DEF FinishRemove
  <2>4. /\ rows' \in [Process -> Table] /\ doms' \in [Process -> Sets]
        /\ index' \in [Process -> Sets] /\ mask' \in [Process -> SUBSET Id]
    BY <2>1, <2>2, <2>3, InstallTyped
  <2> QED BY <1>21, <2>2, <2>4, EmptyTyped
          DEF FinishRemove, Release, Goto, Finish, ShapeOK, Stage
<1>22. ASSUME NEW t \in Handler, NEW i \in Id, NEW e \in BOOLEAN, SetEnabled(t, i, e)
      PROVE  ShapeOK'
  <2> DEFINE p == Owner[t]
             table == [rows[p] EXCEPT ![i].enabled = e]
  <2>1. p \in Process /\ t \in Thread
    BY DEF Thread
  <2>2. table \in Table /\ doms[p] \in Sets /\ db' \in Table
    BY <1>22, <2>1, FlagTyped DEF SetEnabled, ShapeOK
  <2>3. /\ rows' \in [Process -> Table] /\ doms' \in [Process -> Sets]
        /\ index' \in [Process -> Sets] /\ mask' \in [Process -> SUBSET Id]
    BY <1>22, <2>1, <2>2, InstallTyped DEF SetEnabled
  <2>4. commands' \in 0 .. MaxCommand
    BY <1>22, BoundAssumption DEF SetEnabled, Command, ShapeOK
  <2> QED BY <1>22, <2>2, <2>3, <2>4 DEF SetEnabled, ShapeOK
<1>23. ASSUME NEW t \in Handler, NEW i \in Id, RefreshOne(t, i)
      PROVE  ShapeOK'
  <2>1. CaptureOf(t, i, {}) \in Job
    BY <1>23, CaptureTyped DEF RefreshOne, Thread
  <2>2. job' \in [Thread -> Job]
    BY <1>23, <2>1 DEF RefreshOne, Capture, CaptureOf, ShapeOK
  <2>3. commands' \in 0 .. MaxCommand
    BY <1>23, BoundAssumption DEF RefreshOne, Command, ShapeOK
  <2> QED BY <1>23, <2>2, <2>3 DEF RefreshOne, Capture, Goto, ShapeOK, Stage
<1>24. ASSUME NEW t \in Handler, RefreshAll(t)
      PROVE  ShapeOK'
  <2>1. "resync" \in Stage /\ t \in Thread
    BY DEF Stage, Holding, Syncing, Thread
  <2>2. commands' \in 0 .. MaxCommand
    BY <1>24, BoundAssumption DEF RefreshAll, Command, ShapeOK
  <2> QED BY <1>24, <2>1, <2>2, SelectTyped DEF RefreshAll, Select, StatementRaises, ShapeOK
<1>25. ASSUME NEW u \in Url, Publish(u)
      PROVE  ShapeOK'
  <2>1. upstream' \in [Url -> Version]
    BY <1>25, BoundAssumption DEF Publish, ShapeOK, Version
  <2> QED BY <1>25, <2>1 DEF Publish, ShapeOK
<1>26. ASSUME NEW p \in Process, Crash(p)
      PROVE  ShapeOK'
  <2>1. crashes' \in 0 .. MaxCrash
    BY <1>26, BoundAssumption DEF Crash, ShapeOK
  <2>2. pc' \in [Thread -> Stage] /\ job' \in [Thread -> Job]
    BY <1>26, EmptyTyped DEF Crash, ShapeOK, Stage
  <2>3. /\ rows' \in [Process -> Table] /\ doms' \in [Process -> Sets]
        /\ index' \in [Process -> Sets] /\ mask' \in [Process -> SUBSET Id]
    BY <1>26, EmptyTyped DEF Crash, ShapeOK
  <2> QED BY <1>26, <2>1, <2>2, <2>3 DEF Crash, ShapeOK
<1>27. CASE UNCHANGED vars
  BY <1>27 DEF vars, ShapeOK
<1>28. ASSUME NEW t \in Thread, CommitRaises(t)
      PROVE  ShapeOK'
  BY <1>28, EmptyTyped
     DEF CommitRaises, StatementRaises, Raise, Goto, Finish, ShapeOK, Stage
<1> QED
  BY <1>1, <1>2, <1>3, <1>4, <1>5, <1>6, <1>7, <1>8, <1>9, <1>10, <1>11, <1>12,
     <1>13, <1>14, <1>15, <1>16, <1>17, <1>18, <1>19, <1>20, <1>21, <1>22, <1>23,
     <1>24, <1>25, <1>26, <1>27, <1>28
     DEF Next, SyncStep, RefreshStep, AddStep, Request
-----------------------------------------------------------------------------
(***************************************************************************)
(* The lock.                                                               *)
(***************************************************************************)
\* No step leaves a thread inside the lock without it, or outside with it.
LEMMA LockStep == TypeOK /\ LockDiscipline /\ [Next]_vars => LockDiscipline'
<1> SUFFICES ASSUME TypeOK, LockDiscipline, [Next]_vars PROVE LockDiscipline'
  OBVIOUS
<1> ShapeOK /\ None \notin Thread
  BY NoneAssumption DEF TypeOK
<1> USE ThreadProcess
    DEF LockDiscipline, ShapeOK, Thread, Holding, Syncing,
        LockFree, Acquire, Release, Goto, Select, StatementRaises, Raise
<1>1. ASSUME NEW t \in Loop, Start(t)
      PROVE  LockDiscipline'
  BY <1>1 DEF Start
<1>2. ASSUME NEW t \in Loop, Tick(t)
      PROVE  LockDiscipline'
  BY <1>2 DEF Tick
<1>3. ASSUME NEW t \in Loop, RefreshDue(t)
      PROVE  LockDiscipline'
  BY <1>3 DEF RefreshDue
<1>4. ASSUME NEW t \in Loop, NotDue(t)
      PROVE  LockDiscipline'
  BY <1>4 DEF NotDue
<1>5. ASSUME NEW t \in Reloader, ForceReload(t)
      PROVE  LockDiscipline'
  BY <1>5 DEF ForceReload
<1>6. ASSUME NEW t \in Thread, ReadCache(t)
      PROVE  LockDiscipline'
  BY <1>6 DEF ReadCache
<1>7. ASSUME NEW t \in Thread, SyncRegistry(t)
      PROVE  LockDiscipline'
  BY <1>7 DEF SyncRegistry
<1>8. ASSUME NEW t \in Thread, NextList(t)
      PROVE  LockDiscipline'
  BY <1>8 DEF NextList, Capture
<1>9. ASSUME NEW t \in Thread, FetchFails(t)
      PROVE  LockDiscipline'
  BY <1>9 DEF FetchFails
<1>10. ASSUME NEW t \in Thread, FetchSucceeds(t)
      PROVE  LockDiscipline'
  BY <1>10 DEF FetchSucceeds
<1>11. ASSUME NEW t \in Thread, NotModified(t)
      PROVE  LockDiscipline'
  BY <1>11 DEF NotModified, Raise
<1>12. ASSUME NEW t \in Thread, CommitRefresh(t)
      PROVE  LockDiscipline'
  BY <1>12 DEF CommitRefresh, Raise
<1>13. ASSUME NEW t \in Thread, FinishRefresh(t)
      PROVE  LockDiscipline'
  BY <1>13 DEF FinishRefresh
<1>14. ASSUME NEW t \in Handler, NEW u \in Url, AddList(t, u)
      PROVE  LockDiscipline'
  BY <1>14 DEF AddList
<1>15. ASSUME NEW t \in Handler, AddFails(t)
      PROVE  LockDiscipline'
  BY <1>15 DEF AddFails
<1>16. ASSUME NEW t \in Handler, AddFetched(t)
      PROVE  LockDiscipline'
  BY <1>16 DEF AddFetched
<1>17. ASSUME NEW t \in Handler, InsertConflict(t)
      PROVE  LockDiscipline'
  BY <1>17 DEF InsertConflict
<1>18. ASSUME NEW t \in Handler, InsertRow(t)
      PROVE  LockDiscipline'
  BY <1>18 DEF InsertRow
<1>19. ASSUME NEW t \in Handler, FinishAdd(t)
      PROVE  LockDiscipline'
  BY <1>19 DEF FinishAdd
<1>20. ASSUME NEW t \in Handler, NEW i \in Id, RemoveList(t, i)
      PROVE  LockDiscipline'
  BY <1>20 DEF RemoveList
<1>21. ASSUME NEW t \in Handler, FinishRemove(t)
      PROVE  LockDiscipline'
  BY <1>21 DEF FinishRemove
<1>22. ASSUME NEW t \in Handler, NEW i \in Id, NEW e \in BOOLEAN, SetEnabled(t, i, e)
      PROVE  LockDiscipline'
  BY <1>22 DEF SetEnabled
<1>23. ASSUME NEW t \in Handler, NEW i \in Id, RefreshOne(t, i)
      PROVE  LockDiscipline'
  BY <1>23 DEF RefreshOne, Capture
<1>24. ASSUME NEW t \in Handler, RefreshAll(t)
      PROVE  LockDiscipline'
  BY <1>24 DEF RefreshAll
<1>25. ASSUME NEW u \in Url, Publish(u)
      PROVE  LockDiscipline'
  BY <1>25 DEF Publish
<1>26. ASSUME NEW p \in Process, Crash(p)
      PROVE  LockDiscipline'
  BY <1>26 DEF Crash
<1>27. CASE UNCHANGED vars
  BY <1>27 DEF vars
<1>28. ASSUME NEW t \in Thread, CommitRaises(t)
      PROVE  LockDiscipline'
  BY <1>28 DEF CommitRaises
<1> QED
  BY <1>1, <1>2, <1>3, <1>4, <1>5, <1>6, <1>7, <1>8, <1>9, <1>10, <1>11, <1>12,
     <1>13, <1>14, <1>15, <1>16, <1>17, <1>18, <1>19, <1>20, <1>21, <1>22, <1>23,
     <1>24, <1>25, <1>26, <1>27, <1>28
     DEF Next, SyncStep, RefreshStep, AddStep, Request
-----------------------------------------------------------------------------
(***************************************************************************)
(* The local variables of the threads.                                     *)
(***************************************************************************)
LEMMA LocalsStep == TypeOK /\ LockDiscipline /\ [Next]_vars => LocalsSet'
<1> SUFFICES ASSUME TypeOK, LockDiscipline, [Next]_vars PROVE LocalsSet'
  OBVIOUS
<1> ShapeOK /\ LocalsSet /\ None \notin Thread
  BY NoneAssumption DEF TypeOK
<1> USE ThreadProcess
    DEF LockDiscipline, ShapeOK, LocalsSet, Thread, Holding, Syncing,
        LockFree, Acquire, Release, Goto, Finish, Select, StatementRaises, Raise,
        disk, memory, bounds
<1>1. ASSUME NEW t \in Loop, Start(t)
      PROVE  LocalsSet'
  BY <1>1 DEF Start
<1>2. ASSUME NEW t \in Loop, Tick(t)
      PROVE  LocalsSet'
  BY <1>2 DEF Tick
<1>3. ASSUME NEW t \in Loop, RefreshDue(t)
      PROVE  LocalsSet'
  BY <1>3 DEF RefreshDue
<1>4. ASSUME NEW t \in Loop, NotDue(t)
      PROVE  LocalsSet'
  BY <1>4 DEF NotDue
<1>5. ASSUME NEW t \in Reloader, ForceReload(t)
      PROVE  LocalsSet'
  BY <1>5 DEF ForceReload
<1>6. ASSUME NEW t \in Thread, ReadCache(t)
      PROVE  LocalsSet'
  BY <1>6 DEF ReadCache
<1>7. ASSUME NEW t \in Thread, SyncRegistry(t)
      PROVE  LocalsSet'
  BY <1>7 DEF SyncRegistry, Install
<1>8. ASSUME NEW t \in Thread, NextList(t)
      PROVE  LocalsSet'
  <2> DEFINE i == Least(job[t].todo)
  <2>1. CASE pc'[t] # "fetch"
    BY <1>8, <2>1 DEF NextList, Capture
  <2>2. CASE pc'[t] = "fetch"
    <3>1. job[t].todo # {} /\ i \in Id /\ rows[Owner[t]][i] # None
      BY <1>8, <2>2, LeastIsMember DEF NextList, Job
    <3>2. rows[Owner[t]][i].url \in Url
      BY <3>1 DEF Table, Row
    <3>3. CaptureOf(t, i, job[t].todo \ {i}).id = i
          /\ CaptureOf(t, i, job[t].todo \ {i}).url = rows[Owner[t]][i].url
      BY DEF CaptureOf, NoJob
    <3>4. job'[t] = CaptureOf(t, i, job[t].todo \ {i})
      BY <1>8, <3>1 DEF NextList, Capture, CaptureOf
    <3> QED BY <1>8, <3>1, <3>2, <3>3, <3>4 DEF NextList, Capture
  <2> QED BY <2>1, <2>2
<1>9. ASSUME NEW t \in Thread, FetchFails(t)
      PROVE  LocalsSet'
  BY <1>9 DEF FetchFails
<1>10. ASSUME NEW t \in Thread, FetchSucceeds(t)
      PROVE  LocalsSet'
  <2>1. Current(job[t].url) \in Content
    BY <1>10, CurrentTyped DEF FetchSucceeds
  <2> QED BY <1>10, <2>1 DEF FetchSucceeds, Job
<1>11. ASSUME NEW t \in Thread, NotModified(t)
      PROVE  LocalsSet'
  BY <1>11 DEF NotModified, Raise
<1>12. ASSUME NEW t \in Thread, CommitRefresh(t)
      PROVE  LocalsSet'
  BY <1>12 DEF CommitRefresh, Raise
<1>13. ASSUME NEW t \in Thread, FinishRefresh(t)
      PROVE  LocalsSet'
  BY <1>13 DEF FinishRefresh, Install
<1>14. ASSUME NEW t \in Handler, NEW u \in Url, AddList(t, u)
      PROVE  LocalsSet'
  BY <1>14 DEF AddList
<1>15. ASSUME NEW t \in Handler, AddFails(t)
      PROVE  LocalsSet'
  BY <1>15 DEF AddFails
<1>16. ASSUME NEW t \in Handler, AddFetched(t)
      PROVE  LocalsSet'
  <2>1. Current(job[t].url) \in Content
    BY <1>16, CurrentTyped DEF AddFetched
  <2> QED BY <1>16, <2>1 DEF AddFetched, Job
<1>17. ASSUME NEW t \in Handler, InsertConflict(t)
      PROVE  LocalsSet'
  BY <1>17 DEF InsertConflict
<1>18. ASSUME NEW t \in Handler, InsertRow(t)
      PROVE  LocalsSet'
  <2>1. nextId \in Id
    BY <1>18, BoundAssumption DEF InsertRow, Id
  <2>2. job'[t].id = nextId /\ job'[t].content = job[t].content
    BY <1>18 DEF InsertRow, Job
  <2> QED BY <1>18, <2>1, <2>2 DEF InsertRow
<1>19. ASSUME NEW t \in Handler, FinishAdd(t)
      PROVE  LocalsSet'
  BY <1>19 DEF FinishAdd, Install
<1>20. ASSUME NEW t \in Handler, NEW i \in Id, RemoveList(t, i)
      PROVE  LocalsSet'
  BY <1>20 DEF RemoveList
<1>21. ASSUME NEW t \in Handler, FinishRemove(t)
      PROVE  LocalsSet'
  BY <1>21 DEF FinishRemove, Install
<1>22. ASSUME NEW t \in Handler, NEW i \in Id, NEW e \in BOOLEAN, SetEnabled(t, i, e)
      PROVE  LocalsSet'
  BY <1>22 DEF SetEnabled, Install
<1>23. ASSUME NEW t \in Handler, NEW i \in Id, RefreshOne(t, i)
      PROVE  LocalsSet'
  <2>1. rows[Owner[t]][i].url \in Url
    BY <1>23 DEF RefreshOne, Table, Row
  <2>2. CaptureOf(t, i, {}).id = i /\ CaptureOf(t, i, {}).url = rows[Owner[t]][i].url
    BY DEF CaptureOf, NoJob
  <2>3. job'[t] = CaptureOf(t, i, {})
    BY <1>23 DEF RefreshOne, Capture, CaptureOf
  <2> QED BY <1>23, <2>1, <2>2, <2>3 DEF RefreshOne, Capture
<1>24. ASSUME NEW t \in Handler, RefreshAll(t)
      PROVE  LocalsSet'
  BY <1>24 DEF RefreshAll
<1>25. ASSUME NEW u \in Url, Publish(u)
      PROVE  LocalsSet'
  BY <1>25 DEF Publish
<1>26. ASSUME NEW p \in Process, Crash(p)
      PROVE  LocalsSet'
  BY <1>26 DEF Crash
<1>27. CASE UNCHANGED vars
  BY <1>27 DEF vars
<1>28. ASSUME NEW t \in Thread, CommitRaises(t)
      PROVE  LocalsSet'
  BY <1>28 DEF CommitRaises
<1> QED
  BY <1>1, <1>2, <1>3, <1>4, <1>5, <1>6, <1>7, <1>8, <1>9, <1>10, <1>11, <1>12,
     <1>13, <1>14, <1>15, <1>16, <1>17, <1>18, <1>19, <1>20, <1>21, <1>22, <1>23,
     <1>24, <1>25, <1>26, <1>27, <1>28
     DEF Next, SyncStep, RefreshStep, AddStep, Request
-----------------------------------------------------------------------------
(***************************************************************************)
(* Theorems: types and the lock.                                           *)
(***************************************************************************)
LEMMA InitTypeLock == Init => TypeOK /\ LockDiscipline
<1> SUFFICES ASSUME Init PROVE TypeOK /\ LockDiscipline
  OBVIOUS
<1>1. LocalsSet
  BY DEF Init, LocalsSet
<1>2. LockDiscipline
  BY NoneAssumption, ThreadProcess DEF Init, LockDiscipline, Holding, Syncing
<1> QED BY <1>1, <1>2, InitTyped DEF TypeOK

LEMMA TypeLockStep ==
    TypeOK /\ LockDiscipline /\ [Next]_vars => TypeOK' /\ LockDiscipline'
BY ShapeStep, LocalsStep, LockStep DEF TypeOK

\* In every reachable state of the registry, for any number of processes,
\* threads, URLs and any bounds, every variable is well typed, the locals a
\* thread is about to use are set and the row it is about to overwrite exists.
THEOREM TypeCorrect == Spec => []TypeOK
<1>1. TypeOK /\ LockDiscipline /\ [Next]_vars => (TypeOK /\ LockDiscipline)'
  BY TypeLockStep
<1> QED BY <1>1, InitTypeLock, PTL DEF Spec

\* self.lock is held by a thread exactly while it is inside `with self.lock`:
\* mutual exclusion inside each manager, and no download under the lock.
THEOREM LockDisciplined == Spec => []LockDiscipline
<1>1. TypeOK /\ LockDiscipline /\ [Next]_vars => (TypeOK /\ LockDiscipline)'
  BY TypeLockStep
<1> QED BY <1>1, InitTypeLock, PTL DEF Spec
-----------------------------------------------------------------------------
(***************************************************************************)
(* The index.                                                              *)
(***************************************************************************)
\* a manager whose index is the one its rows and domain sets call for
Indexed(p) == index[p] = IndexOf(rows[p], doms[p]) /\ mask[p] = MaskOf(rows[p])

LEMMA EmptyIndexed ==
    IndexOf(EmptyTable, EmptyTable) = EmptyTable /\ MaskOf(EmptyTable) = {}
BY DEF IndexOf, MaskOf, Listed, EmptyTable

LEMMA InstallIndexes ==
    ASSUME ShapeOK, IndexCurrent, NEW t \in Thread, NEW table \in Table,
           NEW sets \in Sets, Install(t, table, sets)
    PROVE  IndexCurrent'
<1>1. ASSUME NEW p \in Process, p # Owner[t]
      PROVE  Indexed(p)'
  <2>1. /\ rows'[p] = rows[p] /\ doms'[p] = doms[p]
        /\ index'[p] = index[p] /\ mask'[p] = mask[p]
    BY <1>1 DEF Install, ShapeOK
  <2> QED BY <2>1 DEF Indexed, IndexCurrent, IndexOf, MaskOf, Listed
<1>2. ASSUME NEW p \in Process, p = Owner[t]
      PROVE  Indexed(p)'
  <2>1. /\ rows'[p] = table /\ doms'[p] = sets
        /\ index'[p] = IndexOf(table, sets) /\ mask'[p] = MaskOf(table)
    BY <1>2 DEF Install, ShapeOK
  <2> QED BY <2>1 DEF Indexed, IndexOf, MaskOf, Listed
<1> QED BY <1>1, <1>2 DEF Indexed, IndexCurrent

LEMMA IndexStep == TypeOK /\ IndexCurrent /\ [Next]_vars => IndexCurrent'
<1> SUFFICES ASSUME TypeOK, IndexCurrent, [Next]_vars PROVE IndexCurrent'
  OBVIOUS
<1> ShapeOK /\ LocalsSet
  BY DEF TypeOK
<1>a. ASSUME UNCHANGED memory PROVE IndexCurrent'
  BY <1>a DEF memory, IndexCurrent, IndexOf, MaskOf, Listed
<1>1. ASSUME NEW t \in Loop, Start(t)
      PROVE  IndexCurrent'
  BY <1>1, <1>a DEF Start, Select, StatementRaises
<1>2. ASSUME NEW t \in Loop, Tick(t)
      PROVE  IndexCurrent'
  BY <1>2, <1>a DEF Tick, Select, StatementRaises
<1>3. ASSUME NEW t \in Loop, RefreshDue(t)
      PROVE  IndexCurrent'
  BY <1>3, <1>a DEF RefreshDue, Select, StatementRaises
<1>4. ASSUME NEW t \in Loop, NotDue(t)
      PROVE  IndexCurrent'
  BY <1>4, <1>a DEF NotDue
<1>5. ASSUME NEW t \in Reloader, ForceReload(t)
      PROVE  IndexCurrent'
  BY <1>5, <1>a DEF ForceReload, Select, StatementRaises
<1>6. ASSUME NEW t \in Thread, ReadCache(t)
      PROVE  IndexCurrent'
  BY <1>6, <1>a DEF ReadCache
<1>7. ASSUME NEW t \in Thread, SyncRegistry(t)
      PROVE  IndexCurrent'
  <2>1. CASE UNCHANGED memory
    BY <2>1, <1>a
  <2>2. CASE Install(t, Synced(t), SyncedDomains(t))
    BY <2>2, SyncedTyped, InstallIndexes
  <2> QED BY <1>7, <2>1, <2>2 DEF SyncRegistry
<1>8. ASSUME NEW t \in Thread, NextList(t)
      PROVE  IndexCurrent'
  BY <1>8, <1>a DEF NextList
<1>9. ASSUME NEW t \in Thread, FetchFails(t)
      PROVE  IndexCurrent'
  BY <1>9, <1>a DEF FetchFails
<1>10. ASSUME NEW t \in Thread, FetchSucceeds(t)
      PROVE  IndexCurrent'
  BY <1>10, <1>a DEF FetchSucceeds
<1>11. ASSUME NEW t \in Thread, NotModified(t)
      PROVE  IndexCurrent'
  BY <1>11, <1>a DEF NotModified
<1>12. ASSUME NEW t \in Thread, CommitRefresh(t)
      PROVE  IndexCurrent'
  BY <1>12, <1>a DEF CommitRefresh
<1>13. ASSUME NEW t \in Thread, FinishRefresh(t)
      PROVE  IndexCurrent'
  <2> DEFINE i == job[t].id
             c == job[t].content
             p == Owner[t]
             table == [rows[p] EXCEPT ![i].etag = TagOf(c)]
             sets  == [doms[p] EXCEPT ![i] = c]
  <2>1. Install(t, table, sets)
    BY <1>13 DEF FinishRefresh
  <2>2. i \in Id /\ t \in Thread /\ p \in Process /\ c \in Content
    BY <1>13, ThreadProcess DEF FinishRefresh, LocalsSet, Thread
  <2>3. table \in Table /\ sets \in Sets
    BY <1>13, <2>2, TagTyped, EtagTyped DEF FinishRefresh, LocalsSet, ShapeOK, Sets
  <2> QED BY <2>1, <2>2, <2>3, InstallIndexes
<1>14. ASSUME NEW t \in Handler, NEW u \in Url, AddList(t, u)
      PROVE  IndexCurrent'
  BY <1>14, <1>a DEF AddList
<1>15. ASSUME NEW t \in Handler, AddFails(t)
      PROVE  IndexCurrent'
  BY <1>15, <1>a DEF AddFails
<1>16. ASSUME NEW t \in Handler, AddFetched(t)
      PROVE  IndexCurrent'
  BY <1>16, <1>a DEF AddFetched
<1>17. ASSUME NEW t \in Handler, InsertConflict(t)
      PROVE  IndexCurrent'
  BY <1>17, <1>a DEF InsertConflict
<1>18. ASSUME NEW t \in Handler, InsertRow(t)
      PROVE  IndexCurrent'
  BY <1>18, <1>a DEF InsertRow
<1>19. ASSUME NEW t \in Handler, FinishAdd(t)
      PROVE  IndexCurrent'
  <2> DEFINE i == job[t].id
             c == job[t].content
             p == Owner[t]
             table == [rows[p] EXCEPT ![i] = job[t].snap[i]]
             sets  == [doms[p] EXCEPT ![i] = c]
  <2>1. Install(t, table, sets)
    BY <1>19 DEF FinishAdd
  <2>2. i \in Id /\ t \in Thread /\ p \in Process /\ c \in Content
    BY <1>19, ThreadProcess DEF FinishAdd, LocalsSet, Thread
  <2>3. table \in Table /\ sets \in Sets
    BY <1>19, <2>2 DEF FinishAdd, LocalsSet, ShapeOK, Job, Table, Sets
  <2> QED BY <2>1, <2>2, <2>3, InstallIndexes
<1>20. ASSUME NEW t \in Handler, NEW i \in Id, RemoveList(t, i)
      PROVE  IndexCurrent'
  BY <1>20, <1>a DEF RemoveList
<1>21. ASSUME NEW t \in Handler, FinishRemove(t)
      PROVE  IndexCurrent'
  <2> DEFINE i == job[t].id
             p == Owner[t]
             table == [rows[p] EXCEPT ![i] = None]
             sets  == [doms[p] EXCEPT ![i] = None]
  <2>1. Install(t, table, sets)
    BY <1>21 DEF FinishRemove
  <2>2. i \in Id /\ t \in Thread /\ p \in Process
    BY <1>21, ThreadProcess DEF FinishRemove, LocalsSet, Thread
  <2>3. table \in Table /\ sets \in Sets
    BY <1>21, <2>2 DEF FinishRemove, LocalsSet, ShapeOK, Table, Sets
  <2> QED BY <2>1, <2>2, <2>3, InstallIndexes
<1>22. ASSUME NEW t \in Handler, NEW i \in Id, NEW e \in BOOLEAN, SetEnabled(t, i, e)
      PROVE  IndexCurrent'
  <2> DEFINE p == Owner[t]
             table == [rows[p] EXCEPT ![i].enabled = e]
             sets  == doms[p]
  <2>1. Install(t, table, sets)
    BY <1>22 DEF SetEnabled
  <2>2. i \in Id /\ t \in Thread /\ p \in Process
    BY <1>22, ThreadProcess DEF SetEnabled, LocalsSet, Thread
  <2>3. table \in Table /\ sets \in Sets
    BY <1>22, <2>2, FlagTyped DEF SetEnabled, LocalsSet, ShapeOK, Sets
  <2> QED BY <2>1, <2>2, <2>3, InstallIndexes
<1>23. ASSUME NEW t \in Handler, NEW i \in Id, RefreshOne(t, i)
      PROVE  IndexCurrent'
  BY <1>23, <1>a DEF RefreshOne
<1>24. ASSUME NEW t \in Handler, RefreshAll(t)
      PROVE  IndexCurrent'
  BY <1>24, <1>a DEF RefreshAll, Select, StatementRaises
<1>25. ASSUME NEW u \in Url, Publish(u)
      PROVE  IndexCurrent'
  BY <1>25, <1>a DEF Publish
<1>26. ASSUME NEW p \in Process, Crash(p)
      PROVE  IndexCurrent'
  <2>1. ASSUME NEW q \in Process, q # p
        PROVE  Indexed(q)'
    <3>1. /\ rows'[q] = rows[q] /\ doms'[q] = doms[q]
          /\ index'[q] = index[q] /\ mask'[q] = mask[q]
      BY <1>26, <2>1 DEF Crash, ShapeOK
    <3> QED BY <3>1 DEF Indexed, IndexCurrent, IndexOf, MaskOf, Listed
  <2>2. Indexed(p)'
    <3>1. /\ rows'[p] = EmptyTable /\ doms'[p] = EmptyTable
          /\ index'[p] = EmptyTable /\ mask'[p] = {}
      BY <1>26 DEF Crash, ShapeOK
    <3> QED BY <3>1, EmptyIndexed DEF Indexed, IndexOf, MaskOf, Listed
  <2> QED BY <2>1, <2>2 DEF Indexed, IndexCurrent
<1>27. CASE UNCHANGED vars
  BY <1>27, <1>a DEF vars
<1>28. ASSUME NEW t \in Thread, CommitRaises(t)
      PROVE  IndexCurrent'
  BY <1>28, <1>a DEF CommitRaises, StatementRaises
<1> QED
  BY <1>1, <1>2, <1>3, <1>4, <1>5, <1>6, <1>7, <1>8, <1>9, <1>10, <1>11, <1>12,
     <1>13, <1>14, <1>15, <1>16, <1>17, <1>18, <1>19, <1>20, <1>21, <1>22, <1>23,
     <1>24, <1>25, <1>26, <1>27, <1>28
     DEF Next, SyncStep, RefreshStep, AddStep, Request

\* In every reachable state the index and the mask that match() walks are those
\* of the rows and domain sets now in memory, whatever path changed them last.
THEOREM IndexIsCurrent == Spec => []IndexCurrent
<1>1. Init => IndexCurrent
  <2>1. ASSUME Init, NEW p \in Process
        PROVE  /\ rows[p] = EmptyTable /\ doms[p] = EmptyTable
               /\ index[p] = EmptyTable /\ mask[p] = {}
    BY <2>1 DEF Init
  <2> QED BY <2>1, EmptyIndexed DEF IndexCurrent
<1>2. IndexCurrent /\ TypeOK /\ [Next]_vars => IndexCurrent'
  BY IndexStep
<1> QED BY <1>1, <1>2, TypeCorrect, PTL DEF Spec
=============================================================================
