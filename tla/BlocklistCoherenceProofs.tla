----------------------- MODULE BlocklistCoherenceProofs -----------------------
(***************************************************************************)
(* What the processes agree on: the other invariants and the action        *)
(* properties of BlocklistRegistry, for any processes, threads, URLs and   *)
(* bounds.                                                                 *)
(***************************************************************************)
EXTENDS BlocklistOwnershipProofs

-----------------------------------------------------------------------------
(***************************************************************************)
(* Threads run in processes.                                               *)
(***************************************************************************)
\* outside of __init__ a thread runs only in a process that is up, and only a
\* request adds or removes a list
Alive(t) ==
    /\ pc[t] \in {"add_fetch", "add_insert", "add_write", "removing"} => t \in Handler
    /\ pc[t] \notin {"idle", "load"} => Up(t)
    /\ pc[t] = "load" => running[Owner[t]] = "loading"
AliveInv == \A t \in Thread : Alive(t)

\* No step makes a thread run in a process that is down.
LEMMA AliveStep ==
    TypeOK /\ LockDiscipline /\ AliveInv /\ [Next]_vars
      => AliveInv'
<1> SUFFICES ASSUME TypeOK, LockDiscipline, AliveInv, [Next]_vars
             PROVE  AliveInv'
  OBVIOUS
<1> ShapeOK /\ None \notin Thread
  BY NoneAssumption DEF TypeOK
<1> USE ThreadProcess
    DEF AliveInv, Alive, Up, LockDiscipline, ShapeOK, Thread, Holding, Syncing,
        LockFree, Acquire, Release, Goto
<1>1. ASSUME NEW t \in Loop, Start(t)
      PROVE  AliveInv'
  BY <1>1 DEF Start, Select, StatementRaises, Raise
<1>2. ASSUME NEW t \in Loop, Tick(t)
      PROVE  AliveInv'
  BY <1>2 DEF Tick, Select, StatementRaises, Raise
<1>3. ASSUME NEW t \in Loop, RefreshDue(t)
      PROVE  AliveInv'
  BY <1>3 DEF RefreshDue, Select, StatementRaises, Raise
<1>4. ASSUME NEW t \in Loop, NotDue(t)
      PROVE  AliveInv'
  BY <1>4 DEF NotDue
<1>5. ASSUME NEW t \in Reloader, ForceReload(t)
      PROVE  AliveInv'
  BY <1>5 DEF ForceReload, Select, StatementRaises, Raise
<1>6. ASSUME NEW t \in Thread, ReadCache(t)
      PROVE  AliveInv'
  BY <1>6 DEF ReadCache
<1>7. ASSUME NEW t \in Thread, SyncRegistry(t)
      PROVE  AliveInv'
  BY <1>7 DEF SyncRegistry
<1>8. ASSUME NEW t \in Thread, NextList(t)
      PROVE  AliveInv'
  BY <1>8 DEF NextList, Capture
<1>9. ASSUME NEW t \in Thread, FetchFails(t)
      PROVE  AliveInv'
  BY <1>9 DEF FetchFails
<1>10. ASSUME NEW t \in Thread, FetchSucceeds(t)
      PROVE  AliveInv'
  BY <1>10 DEF FetchSucceeds
<1>11. ASSUME NEW t \in Thread, NotModified(t)
      PROVE  AliveInv'
  BY <1>11 DEF NotModified, Raise
<1>12. ASSUME NEW t \in Thread, CommitRefresh(t)
      PROVE  AliveInv'
  BY <1>12 DEF CommitRefresh, Raise
<1>13. ASSUME NEW t \in Thread, FinishRefresh(t)
      PROVE  AliveInv'
  BY <1>13 DEF FinishRefresh
<1>14. ASSUME NEW t \in Handler, NEW u \in Url, AddList(t, u)
      PROVE  AliveInv'
  BY <1>14 DEF AddList, Command
<1>15. ASSUME NEW t \in Handler, AddFails(t)
      PROVE  AliveInv'
  BY <1>15 DEF AddFails
<1>16. ASSUME NEW t \in Handler, AddFetched(t)
      PROVE  AliveInv'
  BY <1>16 DEF AddFetched
<1>17. ASSUME NEW t \in Handler, InsertConflict(t)
      PROVE  AliveInv'
  BY <1>17 DEF InsertConflict
<1>18. ASSUME NEW t \in Handler, InsertRow(t)
      PROVE  AliveInv'
  BY <1>18 DEF InsertRow
<1>19. ASSUME NEW t \in Handler, FinishAdd(t)
      PROVE  AliveInv'
  BY <1>19 DEF FinishAdd
<1>20. ASSUME NEW t \in Handler, NEW i \in Id, RemoveList(t, i)
      PROVE  AliveInv'
  BY <1>20 DEF RemoveList, Command
<1>21. ASSUME NEW t \in Handler, FinishRemove(t)
      PROVE  AliveInv'
  BY <1>21 DEF FinishRemove
<1>22. ASSUME NEW t \in Handler, NEW i \in Id, NEW e \in BOOLEAN, SetEnabled(t, i, e)
      PROVE  AliveInv'
  BY <1>22 DEF SetEnabled, Command
<1>23. ASSUME NEW t \in Handler, NEW i \in Id, RefreshOne(t, i)
      PROVE  AliveInv'
  BY <1>23 DEF RefreshOne, Command, Capture
<1>24. ASSUME NEW t \in Handler, RefreshAll(t)
      PROVE  AliveInv'
  BY <1>24 DEF RefreshAll, Command, Select, StatementRaises, Raise
<1>25. ASSUME NEW u \in Url, Publish(u)
      PROVE  AliveInv'
  BY <1>25 DEF Publish
<1>26. ASSUME NEW p \in Process, Crash(p)
      PROVE  AliveInv'
  BY <1>26 DEF Crash
<1>27. CASE UNCHANGED vars
  BY <1>27 DEF vars
<1>28. ASSUME NEW t \in Thread, CommitRaises(t)
      PROVE  AliveInv'
  BY <1>28 DEF CommitRaises, StatementRaises, Raise
<1> QED
  BY <1>1, <1>2, <1>3, <1>4, <1>5, <1>6, <1>7, <1>8, <1>9, <1>10, <1>11, <1>12,
     <1>13, <1>14, <1>15, <1>16, <1>17, <1>18, <1>19, <1>20, <1>21, <1>22, <1>23,
     <1>24, <1>25, <1>26, <1>27, <1>28
     DEF Next, SyncStep, RefreshStep, AddStep, Request
-----------------------------------------------------------------------------
\* what add_list and remove_list know of the list between their two steps
HeldId(t) ==
    /\ pc[t] = "removing" => db[job[t].id] = None
    /\ pc[t] = "add_write" => /\ job[t].snap[job[t].id] # None
                              /\ job[t].snap[job[t].id].etag = TagOf(job[t].content)
HeldInv == \A t \in Thread : HeldId(t)

\* No step, of t or of another thread, invalidates what t knows of its list.
LEMMA HeldStep ==
    TypeOK /\ LockDiscipline /\ AliveInv /\ HeldInv /\ [Next]_vars
      => HeldInv'
<1> SUFFICES ASSUME TypeOK, LockDiscipline, AliveInv, HeldInv, [Next]_vars
             PROVE  HeldInv'
  OBVIOUS
<1> ShapeOK /\ LocalsSet /\ None \notin Thread
  BY NoneAssumption DEF TypeOK
<1> USE ThreadProcess
    DEF HeldInv, HeldId, LockDiscipline, ShapeOK, LocalsSet, Thread, Holding, Syncing,
        LockFree, Acquire, Release, Goto, Finish, disk
<1>1. ASSUME NEW t \in Loop, Start(t)
      PROVE  HeldInv'
  BY <1>1 DEF Start, Select, StatementRaises, Raise
<1>2. ASSUME NEW t \in Loop, Tick(t)
      PROVE  HeldInv'
  BY <1>2 DEF Tick, Select, StatementRaises, Raise
<1>3. ASSUME NEW t \in Loop, RefreshDue(t)
      PROVE  HeldInv'
  BY <1>3 DEF RefreshDue, Select, StatementRaises, Raise
<1>4. ASSUME NEW t \in Loop, NotDue(t)
      PROVE  HeldInv'
  BY <1>4 DEF NotDue
<1>5. ASSUME NEW t \in Reloader, ForceReload(t)
      PROVE  HeldInv'
  BY <1>5 DEF ForceReload, Select, StatementRaises, Raise
<1>6. ASSUME NEW t \in Thread, ReadCache(t)
      PROVE  HeldInv'
  BY <1>6 DEF ReadCache
<1>7. ASSUME NEW t \in Thread, SyncRegistry(t)
      PROVE  HeldInv'
  BY <1>7 DEF SyncRegistry
<1>8. ASSUME NEW t \in Thread, NextList(t)
      PROVE  HeldInv'
  BY <1>8 DEF NextList, Capture
<1>9. ASSUME NEW t \in Thread, FetchFails(t)
      PROVE  HeldInv'
  BY <1>9 DEF FetchFails
<1>10. ASSUME NEW t \in Thread, FetchSucceeds(t)
      PROVE  HeldInv'
  BY <1>10 DEF FetchSucceeds
<1>11. ASSUME NEW t \in Thread, NotModified(t)
      PROVE  HeldInv'
  BY <1>11 DEF NotModified, Raise
<1>12. ASSUME NEW t \in Thread, CommitRefresh(t)
      PROVE  HeldInv'
  BY <1>12 DEF CommitRefresh, Raise
<1>13. ASSUME NEW t \in Thread, FinishRefresh(t)
      PROVE  HeldInv'
  BY <1>13 DEF FinishRefresh
<1>14. ASSUME NEW t \in Handler, NEW u \in Url, AddList(t, u)
      PROVE  HeldInv'
  BY <1>14 DEF AddList, Command
<1>15. ASSUME NEW t \in Handler, AddFails(t)
      PROVE  HeldInv'
  BY <1>15 DEF AddFails
<1>16. ASSUME NEW t \in Handler, AddFetched(t)
      PROVE  HeldInv'
  BY <1>16 DEF AddFetched
<1>17. ASSUME NEW t \in Handler, InsertConflict(t)
      PROVE  HeldInv'
  BY <1>17 DEF InsertConflict
<1>18. ASSUME NEW t \in Handler, InsertRow(t)
      PROVE  HeldInv'
  <2>1. /\ nextId \in Id /\ t \in Thread /\ Owner[t] = Dashboard
        /\ lock[Dashboard] = None
    BY <1>18, BoundAssumption, ProcessAssumption DEF InsertRow, Id
  <2>2. /\ job'[t].id = nextId /\ job'[t].snap[nextId] = db'[nextId]
        /\ job'[t].content = job[t].content /\ pc'[t] = "add_write"
    BY <1>18, <2>1 DEF InsertRow, Job, Table
  <2>3. db'[nextId] # None /\ db'[nextId].etag = TagOf(job[t].content)
    <3>1. /\ job[t].url \in Url /\ TagOf(job[t].content) \in 0 .. MaxVersion
      BY <1>18, <2>1, TagTyped DEF InsertRow
    <3>2. PICK e \in BOOLEAN : db'[nextId] = [url |-> job[t].url, enabled |-> e,
                                              etag |-> TagOf(job[t].content)]
      BY <1>18, <2>1 DEF InsertRow, Table
    <3>3. db'[nextId] \in Row
      BY <3>1, <3>2 DEF Row
    <3> QED BY <3>2, <3>3, NoneAssumption
  <2>4. ASSUME NEW s \in Thread, s # t PROVE HeldId(s)'
    <3>1. pc'[s] = pc[s] /\ job'[s] = job[s]
      BY <1>18, <2>1, <2>4 DEF InsertRow
    <3>2. pc[s] # "removing"
      BY <2>1, ProcessAssumption DEF AliveInv, Alive
    <3> QED BY <3>1, <3>2
  <2> QED BY <2>1, <2>2, <2>3, <2>4
<1>19. ASSUME NEW t \in Handler, FinishAdd(t)
      PROVE  HeldInv'
  BY <1>19 DEF FinishAdd
<1>20. ASSUME NEW t \in Handler, NEW i \in Id, RemoveList(t, i)
      PROVE  HeldInv'
  <2>1. /\ t \in Thread /\ pc'[t] = "removing" /\ job'[t].id = i
    BY <1>20 DEF RemoveList, Job
  <2>2. db'[i] = None
    BY <1>20 DEF RemoveList, Table
  <2>3. ASSUME NEW s \in Thread, s # t PROVE HeldId(s)'
    <3>1. pc'[s] = pc[s] /\ job'[s] = job[s]
      BY <1>20, <2>1, <2>3 DEF RemoveList
    <3>2. \A j \in Id : db[j] = None => db'[j] = None
      BY <1>20 DEF RemoveList, Table
    <3> QED BY <3>1, <3>2
  <2> QED BY <2>1, <2>2, <2>3
<1>21. ASSUME NEW t \in Handler, FinishRemove(t)
      PROVE  HeldInv'
  BY <1>21 DEF FinishRemove
<1>22. ASSUME NEW t \in Handler, NEW i \in Id, NEW e \in BOOLEAN, SetEnabled(t, i, e)
      PROVE  HeldInv'
  BY <1>22 DEF SetEnabled, Command
<1>23. ASSUME NEW t \in Handler, NEW i \in Id, RefreshOne(t, i)
      PROVE  HeldInv'
  BY <1>23 DEF RefreshOne, Command, Capture
<1>24. ASSUME NEW t \in Handler, RefreshAll(t)
      PROVE  HeldInv'
  BY <1>24 DEF RefreshAll, Command, Select, StatementRaises, Raise
<1>25. ASSUME NEW u \in Url, Publish(u)
      PROVE  HeldInv'
  BY <1>25 DEF Publish
<1>26. ASSUME NEW p \in Process, Crash(p)
      PROVE  HeldInv'
  BY <1>26 DEF Crash
<1>27. CASE UNCHANGED vars
  BY <1>27 DEF vars
<1>28. ASSUME NEW t \in Thread, CommitRaises(t)
      PROVE  HeldInv'
  BY <1>28 DEF CommitRaises, StatementRaises, Raise
<1> HIDE DEF HeldInv, HeldId, LockDiscipline, ShapeOK, LocalsSet
<1> QED
  BY <1>1, <1>2, <1>3, <1>4, <1>5, <1>6, <1>7, <1>8, <1>9, <1>10, <1>11, <1>12,
     <1>13, <1>14, <1>15, <1>16, <1>17, <1>18, <1>19, <1>20, <1>21, <1>22, <1>23,
     <1>24, <1>25, <1>26, <1>27, <1>28
     DEF Next, SyncStep, RefreshStep, AddStep, Request
\* Every thread starts idle, with no list in hand.
LEMMA InitHeld == Init => AliveInv /\ HeldInv
<1> SUFFICES ASSUME Init PROVE AliveInv /\ HeldInv
  OBVIOUS
<1>1. \A t \in Thread : pc[t] = "idle"
  BY DEF Init
<1> QED BY <1>1 DEF AliveInv, Alive, HeldInv, HeldId

HoldsInv == TypeOK /\ LockDiscipline /\ AliveInv /\ HeldInv

\* What the theorems below take for granted is inductive ...
LEMMA HoldsStep == HoldsInv /\ [Next]_vars => HoldsInv'
BY TypeLockStep, AliveStep, HeldStep DEF HoldsInv

\* ... and holds throughout.
LEMMA HoldsAlways == Spec => []HoldsInv
<1>1. Init => HoldsInv
  BY InitTypeLock, InitHeld DEF HoldsInv
<1> QED BY <1>1, HoldsStep, PTL DEF Spec

-----------------------------------------------------------------------------
(***************************************************************************)
(* What steps do to the domains of a list that stays.                      *)
(***************************************************************************)
Retains ==
    \A i \in Id :
      /\ db[i] # None /\ db'[i] # None /\ cache[i] # None => cache'[i] # None
      /\ \A p \in Process :
           rows[p][i] # None /\ rows'[p][i] # None /\ doms[p][i] # None
             => doms'[p][i] # None

\* A download is not the absent set.
LEMMA ContentIsSomething == \A c \in Content : c # None
BY NoneAssumption

\* Installing sets that keep the domains of each list that stays is enough.
LEMMA InstallRetains ==
    ASSUME ShapeOK, NEW t \in Thread, NEW table, NEW sets, Install(t, table, sets),
           \A i \in Id : rows[Owner[t]][i] # None /\ table[i] # None
                           /\ doms[Owner[t]][i] # None => sets[i] # None,
           \A i \in Id : db[i] # None /\ db'[i] # None /\ cache[i] # None
                           => cache'[i] # None
    PROVE  Retains
<1> SUFFICES ASSUME NEW p \in Process, NEW i \in Id,
                    rows[p][i] # None, rows'[p][i] # None, doms[p][i] # None
             PROVE  doms'[p][i] # None
  BY DEF Retains
<1>1. CASE p = Owner[t]
  BY <1>1 DEF Install, ShapeOK
<1>2. CASE p # Owner[t]
  BY <1>2 DEF Install, ShapeOK
<1> QED BY <1>1, <1>2

\* A cache file is replaced by domains, never by nothing.
LEMMA WriteRetains ==
    ASSUME ShapeOK, NEW i \in Id, NEW c \in Content, WriteCache(i, c)
    PROVE  \A j \in Id : cache[j] # None => cache'[j] # None
BY ContentIsSomething DEF WriteCache, ShapeOK, Sets

\* Every step retains: only FinishRemove and a crash take domains away.
LEMMA RetainStep == TypeOK /\ HeldInv /\ [Next]_vars => Retains
<1> SUFFICES ASSUME TypeOK, HeldInv, [Next]_vars PROVE Retains
  OBVIOUS
<1> ShapeOK /\ LocalsSet
  BY DEF TypeOK
<1>a. ASSUME UNCHANGED <<cache, rows, doms>> PROVE Retains
  BY <1>a DEF Retains
<1> USE ThreadProcess DEF LocalsSet, Thread, disk, memory
<1>1. ASSUME NEW t \in Loop, Start(t)
      PROVE  Retains
  BY <1>1, <1>a DEF Start, Select, StatementRaises, Raise
<1>2. ASSUME NEW t \in Loop, Tick(t)
      PROVE  Retains
  BY <1>2, <1>a DEF Tick, Select, StatementRaises, Raise
<1>3. ASSUME NEW t \in Loop, RefreshDue(t)
      PROVE  Retains
  BY <1>3, <1>a DEF RefreshDue, Select, StatementRaises, Raise
<1>4. ASSUME NEW t \in Loop, NotDue(t)
      PROVE  Retains
  BY <1>4, <1>a DEF NotDue
<1>5. ASSUME NEW t \in Reloader, ForceReload(t)
      PROVE  Retains
  BY <1>5, <1>a DEF ForceReload, Select, StatementRaises, Raise
<1>6. ASSUME NEW t \in Thread, ReadCache(t)
      PROVE  Retains
  BY <1>6, <1>a DEF ReadCache
<1>7. ASSUME NEW t \in Thread, SyncRegistry(t)
      PROVE  Retains
  <2>1. CASE UNCHANGED memory
    BY <1>7, <2>1, <1>a DEF SyncRegistry, disk, memory
  <2>2. CASE Install(t, Synced(t), SyncedDomains(t))
    <3>1. ASSUME NEW i \in Id, rows[Owner[t]][i] # None, Synced(t)[i] # None,
                 doms[Owner[t]][i] # None
          PROVE  SyncedDomains(t)[i] # None
      <4>1. job[t].snap[i] # None
        BY <3>1 DEF Synced
      <4>2. i \notin Unknown(t)
        BY <3>1 DEF Unknown, Listed
      <4> QED BY <3>1, <4>1, <4>2 DEF SyncedDomains
    <3> QED BY <1>7, <2>2, <3>1, InstallRetains DEF SyncRegistry, disk
  <2> QED BY <1>7, <2>1, <2>2 DEF SyncRegistry
<1>8. ASSUME NEW t \in Thread, NextList(t)
      PROVE  Retains
  BY <1>8, <1>a DEF NextList, Capture
<1>9. ASSUME NEW t \in Thread, FetchFails(t)
      PROVE  Retains
  BY <1>9, <1>a DEF FetchFails
<1>10. ASSUME NEW t \in Thread, FetchSucceeds(t)
      PROVE  Retains
  BY <1>10, <1>a DEF FetchSucceeds
<1>11. ASSUME NEW t \in Thread, NotModified(t)
      PROVE  Retains
  BY <1>11, <1>a DEF NotModified, Raise
<1>12. ASSUME NEW t \in Thread, CommitRefresh(t)
      PROVE  Retains
  BY <1>12, <1>a DEF CommitRefresh, Raise
<1>13. ASSUME NEW t \in Thread, FinishRefresh(t)
      PROVE  Retains
  <2> DEFINE j == job[t].id
             c == job[t].content
             q == Owner[t]
             table == [rows[q] EXCEPT ![j].etag = TagOf(c)]
             sets  == [doms[q] EXCEPT ![j] = c]
  <2>1. j \in Id /\ c \in Content /\ q \in Process /\ t \in Thread
    BY <1>13 DEF FinishRefresh
  <2>2. Install(t, table, sets) /\ WriteCache(j, c)
    BY <1>13 DEF FinishRefresh
  <2>3. \A i \in Id : doms[q][i] # None => sets[i] # None
    BY <2>1, ContentIsSomething DEF ShapeOK, Sets
  <2>4. \A i \in Id : cache[i] # None => cache'[i] # None
    BY <2>1, <2>2, WriteRetains
  <2> HIDE DEF table, sets, q
  <2> QED BY <2>1, <2>2, <2>3, <2>4, InstallRetains DEF q
<1>14. ASSUME NEW t \in Handler, NEW u \in Url, AddList(t, u)
      PROVE  Retains
  BY <1>14, <1>a DEF AddList, Command
<1>15. ASSUME NEW t \in Handler, AddFails(t)
      PROVE  Retains
  BY <1>15, <1>a DEF AddFails
<1>16. ASSUME NEW t \in Handler, AddFetched(t)
      PROVE  Retains
  BY <1>16, <1>a DEF AddFetched
<1>17. ASSUME NEW t \in Handler, InsertConflict(t)
      PROVE  Retains
  BY <1>17, <1>a DEF InsertConflict
<1>18. ASSUME NEW t \in Handler, InsertRow(t)
      PROVE  Retains
  BY <1>18, <1>a DEF InsertRow
<1>19. ASSUME NEW t \in Handler, FinishAdd(t)
      PROVE  Retains
  <2> DEFINE j == job[t].id
             c == job[t].content
             q == Owner[t]
             table == [rows[q] EXCEPT ![j] = job[t].snap[j]]
             sets  == [doms[q] EXCEPT ![j] = c]
  <2>1. j \in Id /\ c \in Content /\ q \in Process /\ t \in Thread
    BY <1>19 DEF FinishAdd
  <2>2. Install(t, table, sets) /\ WriteCache(j, c)
    BY <1>19 DEF FinishAdd
  <2>3. \A i \in Id : doms[q][i] # None => sets[i] # None
    BY <2>1, ContentIsSomething DEF ShapeOK, Sets
  <2>4. \A i \in Id : cache[i] # None => cache'[i] # None
    BY <2>1, <2>2, WriteRetains
  <2> HIDE DEF table, sets, q
  <2> QED BY <2>1, <2>2, <2>3, <2>4, InstallRetains DEF q
<1>20. ASSUME NEW t \in Handler, NEW i \in Id, RemoveList(t, i)
      PROVE  Retains
  BY <1>20, <1>a DEF RemoveList, Command
<1>21. ASSUME NEW t \in Handler, FinishRemove(t)
      PROVE  Retains
  <2> DEFINE j == job[t].id
             q == Owner[t]
             table == [rows[q] EXCEPT ![j] = None]
             sets  == [doms[q] EXCEPT ![j] = None]
  <2>1. j \in Id /\ q \in Process /\ t \in Thread /\ db[j] = None
    BY <1>21 DEF FinishRemove, HeldInv, HeldId
  <2>2. Install(t, table, sets) /\ WriteCache(j, None)
    BY <1>21 DEF FinishRemove
  <2>3. \A i \in Id : table[i] # None /\ doms[q][i] # None => sets[i] # None
    BY <2>1 DEF ShapeOK, Table, Sets
  <2>4. \A i \in Id : db[i] # None /\ cache[i] # None => cache'[i] # None
    BY <2>1, <2>2 DEF WriteCache, ShapeOK, Sets
  <2> HIDE DEF table, sets, q
  <2> QED BY <2>1, <2>2, <2>3, <2>4, InstallRetains DEF q
<1>22. ASSUME NEW t \in Handler, NEW i \in Id, NEW e \in BOOLEAN, SetEnabled(t, i, e)
      PROVE  Retains
  <2> DEFINE q == Owner[t]
             table == [rows[q] EXCEPT ![i].enabled = e]
  <2>1. t \in Thread /\ Install(t, table, doms[q]) /\ cache' = cache
    BY <1>22 DEF SetEnabled
  <2> HIDE DEF table
  <2> QED BY <2>1, InstallRetains
<1>23. ASSUME NEW t \in Handler, NEW i \in Id, RefreshOne(t, i)
      PROVE  Retains
  BY <1>23, <1>a DEF RefreshOne, Command, Capture
<1>24. ASSUME NEW t \in Handler, RefreshAll(t)
      PROVE  Retains
  BY <1>24, <1>a DEF RefreshAll, Command, Select, StatementRaises, Raise
<1>25. ASSUME NEW u \in Url, Publish(u)
      PROVE  Retains
  BY <1>25, <1>a DEF Publish
<1>26. ASSUME NEW p \in Process, Crash(p)
      PROVE  Retains
  <2>1. \A q \in Process, i \in Id : rows'[q][i] # None => doms'[q] = doms[q]
    BY <1>26 DEF Crash, ShapeOK, EmptyTable
  <2>2. cache' = cache
    BY <1>26 DEF Crash, disk
  <2> QED BY <2>1, <2>2 DEF Retains
<1>27. CASE UNCHANGED vars
  BY <1>27, <1>a DEF vars
<1>28. ASSUME NEW t \in Thread, CommitRaises(t)
      PROVE  Retains
  BY <1>28, <1>a DEF CommitRaises, StatementRaises
<1> HIDE DEF LocalsSet
<1> QED
  BY <1>1, <1>2, <1>3, <1>4, <1>5, <1>6, <1>7, <1>8, <1>9, <1>10, <1>11, <1>12,
     <1>13, <1>14, <1>15, <1>16, <1>17, <1>18, <1>19, <1>20, <1>21, <1>22, <1>23,
     <1>24, <1>25, <1>26, <1>27, <1>28
     DEF Next, SyncStep, RefreshStep, AddStep, Request

\* While a list stays registered no step of any process, no failure and no
\* restart of another empties its domains in memory or its cache file.
THEOREM ListsFailOpen == Spec => FailOpen
<1>1. HoldsInv /\ [Next]_vars => Retains
  BY RetainStep DEF HoldsInv
<1> QED BY <1>1, HoldsAlways, PTL DEF Spec, FailOpen, Retains

-----------------------------------------------------------------------------
(***************************************************************************)
(* What steps do to an ETag and the domains it stands for.                 *)
(***************************************************************************)
StaysHonest ==
    \A p \in Process, i \in Id :
      rows[p][i] # None /\ rows'[p][i] # None /\ Honest(p, i) => Honest(p, i)'

Tells(table, sets, i) ==
    table[i].etag # NoTag => sets[i] # None /\ sets[i].ver = table[i].etag

\* the tags of table and sets tell as much as those t's manager has
TellsAsMuch(t, table, sets) ==
    LET old == rows[Owner[t]] IN
    \A i \in Id : old[i] # None /\ table[i] # None /\ Tells(old, doms[Owner[t]], i)
                    => Tells(table, sets, i)

\* Installing rows that tell as much as the old ones keeps every tag honest.
LEMMA InstallHonest ==
    ASSUME ShapeOK, NEW t \in Thread, NEW table, NEW sets, Install(t, table, sets),
           TellsAsMuch(t, table, sets)
    PROVE  StaysHonest
<1> SUFFICES ASSUME NEW p \in Process, NEW i \in Id,
                    rows[p][i] # None, rows'[p][i] # None, Honest(p, i)
             PROVE  Honest(p, i)'
  BY DEF StaysHonest
<1>1. CASE p = Owner[t]
  <2>1. rows'[p] = table /\ doms'[p] = sets
    BY <1>1 DEF Install, ShapeOK
  <2>2. Tells(rows[p], doms[p], i)
    BY DEF Honest, Tells
  <2>3. Tells(table, sets, i)
    BY <1>1, <2>1, <2>2 DEF TellsAsMuch
  <2> QED BY <2>1, <2>3 DEF Honest, Tells
<1>2. CASE p # Owner[t]
  <2>1. rows'[p] = rows[p] /\ doms'[p] = doms[p]
    BY <1>2 DEF Install, ShapeOK
  <2> QED BY <2>1 DEF Honest
<1> QED BY <1>1, <1>2

\* the tag of a download tells its version
LEMMA TagTells ==
    ASSUME NEW c \in Content, TagOf(c) # NoTag
    PROVE  c # None /\ c.ver = TagOf(c)
BY ContentIsSomething DEF TagOf

\* Every step keeps honest tags honest.
LEMMA HonestStep == TypeOK /\ HeldInv /\ [Next]_vars => StaysHonest
<1> SUFFICES ASSUME TypeOK, HeldInv, [Next]_vars PROVE StaysHonest
  OBVIOUS
<1> ShapeOK /\ LocalsSet
  BY DEF TypeOK
<1>a. ASSUME UNCHANGED <<rows, doms>> PROVE StaysHonest
  BY <1>a DEF StaysHonest, Honest
<1> USE ThreadProcess DEF LocalsSet, Thread, disk, memory
<1>1. ASSUME NEW t \in Loop, Start(t)
      PROVE  StaysHonest
  BY <1>1, <1>a DEF Start, Select, StatementRaises, Raise
<1>2. ASSUME NEW t \in Loop, Tick(t)
      PROVE  StaysHonest
  BY <1>2, <1>a DEF Tick, Select, StatementRaises, Raise
<1>3. ASSUME NEW t \in Loop, RefreshDue(t)
      PROVE  StaysHonest
  BY <1>3, <1>a DEF RefreshDue, Select, StatementRaises, Raise
<1>4. ASSUME NEW t \in Loop, NotDue(t)
      PROVE  StaysHonest
  BY <1>4, <1>a DEF NotDue
<1>5. ASSUME NEW t \in Reloader, ForceReload(t)
      PROVE  StaysHonest
  BY <1>5, <1>a DEF ForceReload, Select, StatementRaises, Raise
<1>6. ASSUME NEW t \in Thread, ReadCache(t)
      PROVE  StaysHonest
  BY <1>6, <1>a DEF ReadCache
<1>7. ASSUME NEW t \in Thread, SyncRegistry(t)
      PROVE  StaysHonest
  <2>1. CASE UNCHANGED memory
    BY <1>7, <2>1, <1>a DEF SyncRegistry, memory
  <2>2. CASE Install(t, Synced(t), SyncedDomains(t))
    <3>1. ASSUME NEW i \in Id, rows[Owner[t]][i] # None, Synced(t)[i] # None,
                 Tells(rows[Owner[t]], doms[Owner[t]], i)
          PROVE  Tells(Synced(t), SyncedDomains(t), i)
      <4>1. job[t].snap[i] # None
        BY <3>1 DEF Synced
      <4>2. i \notin Unknown(t)
        BY <3>1 DEF Unknown, Listed
      <4>3. SyncedDomains(t)[i] = doms[Owner[t]][i]
        BY <4>1, <4>2 DEF SyncedDomains
      <4>4. rows[Owner[t]][i] \in Row
        BY <3>1 DEF ShapeOK, Table
      <4>5. Synced(t)[i].etag = rows[Owner[t]][i].etag
        BY <3>1, <4>1, <4>4 DEF Synced, Row
      <4> QED BY <3>1, <4>3, <4>5 DEF Tells
    <3>2. TellsAsMuch(t, Synced(t), SyncedDomains(t))
      BY <3>1 DEF TellsAsMuch
    <3> QED BY <2>2, <3>2, InstallHonest
  <2> QED BY <1>7, <2>1, <2>2 DEF SyncRegistry
<1>8. ASSUME NEW t \in Thread, NextList(t)
      PROVE  StaysHonest
  BY <1>8, <1>a DEF NextList, Capture
<1>9. ASSUME NEW t \in Thread, FetchFails(t)
      PROVE  StaysHonest
  BY <1>9, <1>a DEF FetchFails
<1>10. ASSUME NEW t \in Thread, FetchSucceeds(t)
      PROVE  StaysHonest
  BY <1>10, <1>a DEF FetchSucceeds
<1>11. ASSUME NEW t \in Thread, NotModified(t)
      PROVE  StaysHonest
  BY <1>11, <1>a DEF NotModified, Raise
<1>12. ASSUME NEW t \in Thread, CommitRefresh(t)
      PROVE  StaysHonest
  BY <1>12, <1>a DEF CommitRefresh, Raise
<1>13. ASSUME NEW t \in Thread, FinishRefresh(t)
      PROVE  StaysHonest
  <2> DEFINE j == job[t].id
             c == job[t].content
             q == Owner[t]
             table == [rows[q] EXCEPT ![j].etag = TagOf(c)]
             sets  == [doms[q] EXCEPT ![j] = c]
  <2>1. j \in Id /\ c \in Content /\ q \in Process /\ t \in Thread
    BY <1>13 DEF FinishRefresh
  <2>2. Install(t, table, sets)
    BY <1>13 DEF FinishRefresh
  <2>3. rows[q] \in Table /\ doms[q] \in Sets
    BY <2>1 DEF ShapeOK
  <2>4. \A i \in Id \ {j} : table[i] = rows[q][i] /\ sets[i] = doms[q][i]
    BY <2>3 DEF Table, Sets
  <2>5. sets[j] = c
    BY <2>1, <2>3 DEF Sets
  <2>6. table[j].etag = TagOf(c)
    <3>1. rows[q][j] \in Row
      BY <1>13, <2>1, <2>3 DEF FinishRefresh, Table
    <3>2. table[j] = [rows[q][j] EXCEPT !.etag = TagOf(c)]
      BY <2>1, <2>3 DEF Table
    <3> QED BY <3>1, <3>2 DEF Row
  <2>7. Tells(table, sets, j)
    BY <2>1, <2>5, <2>6, TagTells DEF Tells
  <2> HIDE DEF table, sets, q, j
  <2>8. \A i \in Id : Tells(rows[q], doms[q], i) => Tells(table, sets, i)
    BY <2>4, <2>7 DEF Tells
  <2>9. TellsAsMuch(t, table, sets)
    BY <2>8 DEF TellsAsMuch, q
  <2> QED BY <2>1, <2>2, <2>9, InstallHonest
<1>14. ASSUME NEW t \in Handler, NEW u \in Url, AddList(t, u)
      PROVE  StaysHonest
  BY <1>14, <1>a DEF AddList, Command
<1>15. ASSUME NEW t \in Handler, AddFails(t)
      PROVE  StaysHonest
  BY <1>15, <1>a DEF AddFails
<1>16. ASSUME NEW t \in Handler, AddFetched(t)
      PROVE  StaysHonest
  BY <1>16, <1>a DEF AddFetched
<1>17. ASSUME NEW t \in Handler, InsertConflict(t)
      PROVE  StaysHonest
  BY <1>17, <1>a DEF InsertConflict
<1>18. ASSUME NEW t \in Handler, InsertRow(t)
      PROVE  StaysHonest
  BY <1>18, <1>a DEF InsertRow
<1>19. ASSUME NEW t \in Handler, FinishAdd(t)
      PROVE  StaysHonest
  <2> DEFINE j == job[t].id
             c == job[t].content
             q == Owner[t]
             table == [rows[q] EXCEPT ![j] = job[t].snap[j]]
             sets  == [doms[q] EXCEPT ![j] = c]
  <2>1. j \in Id /\ c \in Content /\ q \in Process /\ t \in Thread
    BY <1>19 DEF FinishAdd
  <2>2. Install(t, table, sets)
    BY <1>19 DEF FinishAdd
  <2>3. rows[q] \in Table /\ doms[q] \in Sets
    BY <2>1 DEF ShapeOK
  <2>4. \A i \in Id \ {j} : table[i] = rows[q][i] /\ sets[i] = doms[q][i]
    BY <2>3 DEF Table, Sets
  <2>5. sets[j] = c
    BY <2>1, <2>3 DEF Sets
  <2>6. table[j].etag = TagOf(c)
    <3>1. table[j] = job[t].snap[j]
      BY <2>1, <2>3 DEF Table
    <3>2. job[t].snap[j].etag = TagOf(c)
      BY <1>19 DEF FinishAdd, HeldInv, HeldId
    <3> QED BY <3>1, <3>2
  <2>7. Tells(table, sets, j)
    BY <2>1, <2>5, <2>6, TagTells DEF Tells
  <2> HIDE DEF table, sets, q, j
  <2>8. \A i \in Id : Tells(rows[q], doms[q], i) => Tells(table, sets, i)
    BY <2>4, <2>7 DEF Tells
  <2>9. TellsAsMuch(t, table, sets)
    BY <2>8 DEF TellsAsMuch, q
  <2> QED BY <2>1, <2>2, <2>9, InstallHonest
<1>20. ASSUME NEW t \in Handler, NEW i \in Id, RemoveList(t, i)
      PROVE  StaysHonest
  BY <1>20, <1>a DEF RemoveList, Command
<1>21. ASSUME NEW t \in Handler, FinishRemove(t)
      PROVE  StaysHonest
  <2> DEFINE j == job[t].id
             q == Owner[t]
             table == [rows[q] EXCEPT ![j] = None]
             sets  == [doms[q] EXCEPT ![j] = None]
  <2>1. j \in Id /\ q \in Process /\ t \in Thread
    BY <1>21 DEF FinishRemove
  <2>2. Install(t, table, sets)
    BY <1>21 DEF FinishRemove
  <2>3. \A i \in Id : table[i] # None => table[i] = rows[q][i] /\ sets[i] = doms[q][i]
    BY <2>1 DEF ShapeOK, Table, Sets
  <2> HIDE DEF table, sets, q
  <2>4. \A i \in Id : table[i] # None /\ Tells(rows[q], doms[q], i) => Tells(table, sets, i)
    BY <2>3 DEF Tells
  <2>5. TellsAsMuch(t, table, sets)
    BY <2>4 DEF TellsAsMuch, q
  <2> QED BY <2>1, <2>2, <2>5, InstallHonest
<1>22. ASSUME NEW t \in Handler, NEW i \in Id, NEW e \in BOOLEAN, SetEnabled(t, i, e)
      PROVE  StaysHonest
  <2> DEFINE q == Owner[t]
             table == [rows[q] EXCEPT ![i].enabled = e]
  <2>1. t \in Thread /\ Install(t, table, doms[q]) /\ q \in Process
    BY <1>22 DEF SetEnabled
  <2>2. rows[q] \in Table /\ rows[q][i] \in Row
    BY <1>22, <2>1 DEF SetEnabled, ShapeOK, Table
  <2>3. \A j \in Id : table[j].etag = rows[q][j].etag
    BY <2>2 DEF Table, Row
  <2> HIDE DEF table, q
  <2>4. \A j \in Id : Tells(rows[q], doms[q], j) => Tells(table, doms[q], j)
    BY <2>3 DEF Tells
  <2>5. TellsAsMuch(t, table, doms[Owner[t]])
    BY <2>4 DEF TellsAsMuch, q
  <2> QED BY <2>1, <2>5, InstallHonest DEF q
<1>23. ASSUME NEW t \in Handler, NEW i \in Id, RefreshOne(t, i)
      PROVE  StaysHonest
  BY <1>23, <1>a DEF RefreshOne, Command, Capture
<1>24. ASSUME NEW t \in Handler, RefreshAll(t)
      PROVE  StaysHonest
  BY <1>24, <1>a DEF RefreshAll, Command, Select, StatementRaises, Raise
<1>25. ASSUME NEW u \in Url, Publish(u)
      PROVE  StaysHonest
  BY <1>25, <1>a DEF Publish
<1>26. ASSUME NEW p \in Process, Crash(p)
      PROVE  StaysHonest
  <2>1. \A q \in Process, i \in Id :
           rows'[q][i] # None => rows'[q] = rows[q] /\ doms'[q] = doms[q]
    BY <1>26 DEF Crash, ShapeOK, EmptyTable
  <2> QED BY <2>1 DEF StaysHonest, Honest
<1>27. CASE UNCHANGED vars
  BY <1>27, <1>a DEF vars
<1>28. ASSUME NEW t \in Thread, CommitRaises(t)
      PROVE  StaysHonest
  BY <1>28, <1>a DEF CommitRaises, StatementRaises
<1> HIDE DEF LocalsSet
<1> QED
  BY <1>1, <1>2, <1>3, <1>4, <1>5, <1>6, <1>7, <1>8, <1>9, <1>10, <1>11, <1>12,
     <1>13, <1>14, <1>15, <1>16, <1>17, <1>18, <1>19, <1>20, <1>21, <1>22, <1>23,
     <1>24, <1>25, <1>26, <1>27, <1>28
     DEF Next, SyncStep, RefreshStep, AddStep, Request

\* A refresh, whatever runs during its download, leaves an ETag that names the
\* version of the domains in memory: a later 304 cannot freeze a stale list.
THEOREM TagsAreHonest == Spec => TagsStayHonest
<1>1. HoldsInv /\ [Next]_vars => StaysHonest
  BY HonestStep DEF HoldsInv
<1> QED BY <1>1, HoldsAlways, PTL DEF Spec, TagsStayHonest, StaysHonest
-----------------------------------------------------------------------------
(***************************************************************************)
(* The refresh loops of the other processes.                               *)
(***************************************************************************)
\* a loop's list stays while it downloads it: nothing else of its process syncs
Kept(t) ==
    /\ RowAwaited(t)
    /\ pc[t] \notin {"idle", "load"} =>
         \A r \in Reloader : Owner[r] = Owner[t] => pc[r] \notin {"idle"} \cup Syncing
LoopInv == \A t \in Loop : Owner[t] # Dashboard => Kept(t)


\* Only the process's own threads take rows away, and the lock and the order of
\* its two background threads keep them from doing so during a download.
LEMMA LoopStep == TypeOK /\ LockDiscipline /\ LoopInv /\ [Next]_vars => LoopInv'
<1> SUFFICES ASSUME TypeOK, LockDiscipline, LoopInv, [Next]_vars PROVE LoopInv'
  OBVIOUS
<1> ShapeOK /\ LocalsSet /\ None \notin Thread
  BY NoneAssumption DEF TypeOK
<1> USE ThreadProcess, ProcessAssumption
    DEF LoopInv, Kept, RowAwaited, LockDiscipline, ShapeOK, LocalsSet, Thread, Holding, Syncing,
        LockFree, Acquire, Release, Goto, Finish, disk, memory
<1>1. ASSUME NEW t \in Loop, Start(t)
      PROVE  LoopInv'
  BY <1>1 DEF Start, Select, StatementRaises, Raise
<1>2. ASSUME NEW t \in Loop, Tick(t)
      PROVE  LoopInv'
  BY <1>2 DEF Tick, Select, StatementRaises, Raise
<1>3. ASSUME NEW t \in Loop, RefreshDue(t)
      PROVE  LoopInv'
  BY <1>3 DEF RefreshDue, Select, StatementRaises, Raise
<1>4. ASSUME NEW t \in Loop, NotDue(t)
      PROVE  LoopInv'
  BY <1>4 DEF NotDue
<1>5. ASSUME NEW t \in Reloader, ForceReload(t)
      PROVE  LoopInv'
  BY <1>5 DEF ForceReload, Select, StatementRaises, Raise
<1>6. ASSUME NEW t \in Thread, ReadCache(t)
      PROVE  LoopInv'
  BY <1>6 DEF ReadCache
<1>7. ASSUME NEW t \in Thread, SyncRegistry(t)
      PROVE  LoopInv'
  <2>1. ASSUME NEW s \in Loop, Owner[s] # Dashboard,
               pc[s] \in {"fetch", "touch", "got"}
        PROVE  rows'[Owner[s]] = rows[Owner[s]]
    <3>1. Owner[s] # Owner[t]
      BY <1>7, <2>1 DEF SyncRegistry
    <3> QED BY <1>7, <3>1 DEF SyncRegistry, Install
  <2>2. /\ \A s \in Thread : s # t => pc'[s] = pc[s] /\ job'[s] = job[s]
        /\ pc[t] \in Syncing /\ pc'[t] \in {"idle", "decide", "pick"}
        /\ pc'[t] = "idle" <=> pc[t] = "load"
    BY <1>7 DEF SyncRegistry
  <2>3. ASSUME NEW s \in Loop, Owner[s] # Dashboard PROVE Kept(s)'
    <3>1. CASE s = t
      BY <2>2, <2>3, <3>1
    <3>2. CASE s # t
      BY <2>1, <2>2, <2>3, <3>2
    <3> QED BY <3>1, <3>2
  <2> QED BY <2>3
<1>8. ASSUME NEW t \in Thread, NextList(t)
      PROVE  LoopInv'
  <2>1. CASE t \in Loop /\ pc'[t] = "fetch"
    <3> DEFINE i == Least(job[t].todo)
    <3>1. rows[Owner[t]][i] # None /\ job'[t] = CaptureOf(t, i, job[t].todo \ {i})
      BY <1>8, <2>1 DEF NextList, Capture, CaptureOf
    <3>2. job'[t].id = i
      BY <3>1 DEF CaptureOf, NoJob
    <3> QED BY <1>8, <2>1, <3>1, <3>2 DEF NextList, Capture
  <2>2. CASE t \in Loop /\ pc'[t] # "fetch"
    BY <1>8, <2>2 DEF NextList, Capture
  <2>3. CASE t \notin Loop
    BY <1>8, <2>3 DEF NextList, Capture
  <2> QED BY <2>1, <2>2, <2>3
<1>9. ASSUME NEW t \in Thread, FetchFails(t)
      PROVE  LoopInv'
  BY <1>9 DEF FetchFails
<1>10. ASSUME NEW t \in Thread, FetchSucceeds(t)
      PROVE  LoopInv'
  <2>1. job'[t].id = job[t].id
    BY <1>10 DEF FetchSucceeds, Job
  <2> QED BY <1>10, <2>1 DEF FetchSucceeds
<1>11. ASSUME NEW t \in Thread, NotModified(t)
      PROVE  LoopInv'
  BY <1>11 DEF NotModified, Raise
<1>12. ASSUME NEW t \in Thread, CommitRefresh(t)
      PROVE  LoopInv'
  BY <1>12 DEF CommitRefresh, Raise
<1>13. ASSUME NEW t \in Thread, FinishRefresh(t)
      PROVE  LoopInv'
  <2>1. \A p \in Process, i \in Id : rows[p][i] # None => rows'[p][i] # None
    <3> DEFINE j == job[t].id
               q == Owner[t]
               table == [rows[q] EXCEPT ![j].etag = TagOf(job[t].content)]
    <3>1. /\ rows' = [rows EXCEPT ![q] = table] /\ q \in Process
          /\ rows[q] \in Table /\ j \in Id /\ rows[q][j] # None
      BY <1>13 DEF FinishRefresh, Install
    <3>2. TagOf(job[t].content) \in 0 .. MaxVersion
      BY <1>13, TagTyped DEF FinishRefresh
    <3>3. table \in Table
      BY <3>1, <3>2, EtagTyped
    <3>4. table[j] # None
      <4>1. rows[q][j] \in Row /\ table[j] = [rows[q][j] EXCEPT !.etag = TagOf(job[t].content)]
        BY <3>1 DEF Table
      <4>2. table[j] \in Row
        BY <3>2, <4>1 DEF Row
      <4> QED BY <4>2, NoneAssumption
    <3>5. \A i \in Id : rows[q][i] # None => table[i] # None
      BY <3>1, <3>4 DEF Table
    <3> HIDE DEF table
    <3> QED BY <3>1, <3>5
  <2>2. /\ \A s \in Thread : s # t => pc'[s] = pc[s] /\ job'[s] = job[s]
        /\ pc[t] = "write" /\ pc'[t] = "pick"
    BY <1>13 DEF FinishRefresh
  <2>3. \A s \in Thread : pc[s] \in {"fetch", "touch", "got"} => job[s].id \in Id
    OBVIOUS
  <2> HIDE DEF LocalsSet, ShapeOK
  <2> QED BY <2>1, <2>2, <2>3
<1>14. ASSUME NEW t \in Handler, NEW u \in Url, AddList(t, u)
      PROVE  LoopInv'
  BY <1>14 DEF AddList, Command
<1>15. ASSUME NEW t \in Handler, AddFails(t)
      PROVE  LoopInv'
  BY <1>15 DEF AddFails
<1>16. ASSUME NEW t \in Handler, AddFetched(t)
      PROVE  LoopInv'
  BY <1>16 DEF AddFetched
<1>17. ASSUME NEW t \in Handler, InsertConflict(t)
      PROVE  LoopInv'
  BY <1>17 DEF InsertConflict
<1>18. ASSUME NEW t \in Handler, InsertRow(t)
      PROVE  LoopInv'
  BY <1>18 DEF InsertRow
<1>19. ASSUME NEW t \in Handler, FinishAdd(t)
      PROVE  LoopInv'
  <2>1. \A s \in Loop : Owner[s] # Dashboard => rows'[Owner[s]] = rows[Owner[s]]
    BY <1>19 DEF FinishAdd, Install
  <2>2. \A s \in Thread : s # t => pc'[s] = pc[s] /\ job'[s] = job[s]
    BY <1>19 DEF FinishAdd, Command
  <2>3. t \notin Loop /\ t \notin Reloader
    OBVIOUS
  <2> QED BY <2>1, <2>2, <2>3
<1>20. ASSUME NEW t \in Handler, NEW i \in Id, RemoveList(t, i)
      PROVE  LoopInv'
  BY <1>20 DEF RemoveList, Command
<1>21. ASSUME NEW t \in Handler, FinishRemove(t)
      PROVE  LoopInv'
  <2>1. \A s \in Loop : Owner[s] # Dashboard => rows'[Owner[s]] = rows[Owner[s]]
    BY <1>21 DEF FinishRemove, Install
  <2>2. \A s \in Thread : s # t => pc'[s] = pc[s] /\ job'[s] = job[s]
    BY <1>21 DEF FinishRemove, Command
  <2>3. t \notin Loop /\ t \notin Reloader
    OBVIOUS
  <2> QED BY <2>1, <2>2, <2>3
<1>22. ASSUME NEW t \in Handler, NEW i \in Id, NEW e \in BOOLEAN, SetEnabled(t, i, e)
      PROVE  LoopInv'
  <2>1. \A s \in Loop : Owner[s] # Dashboard => rows'[Owner[s]] = rows[Owner[s]]
    BY <1>22 DEF SetEnabled, Install
  <2>2. pc' = pc /\ job' = job
    BY <1>22 DEF SetEnabled
  <2> QED BY <2>1, <2>2
<1>23. ASSUME NEW t \in Handler, NEW i \in Id, RefreshOne(t, i)
      PROVE  LoopInv'
  BY <1>23 DEF RefreshOne, Command, Capture
<1>24. ASSUME NEW t \in Handler, RefreshAll(t)
      PROVE  LoopInv'
  BY <1>24 DEF RefreshAll, Command, Select, StatementRaises, Raise
<1>25. ASSUME NEW u \in Url, Publish(u)
      PROVE  LoopInv'
  BY <1>25 DEF Publish
<1>26. ASSUME NEW p \in Process, Crash(p)
      PROVE  LoopInv'
  BY <1>26 DEF Crash
<1>27. CASE UNCHANGED vars
  BY <1>27 DEF vars
<1>28. ASSUME NEW t \in Thread, CommitRaises(t)
      PROVE  LoopInv'
  BY <1>28 DEF CommitRaises, StatementRaises, Raise
<1> HIDE DEF LoopInv, Kept, LockDiscipline, ShapeOK, LocalsSet
<1> QED
  BY <1>1, <1>2, <1>3, <1>4, <1>5, <1>6, <1>7, <1>8, <1>9, <1>10, <1>11, <1>12,
     <1>13, <1>14, <1>15, <1>16, <1>17, <1>18, <1>19, <1>20, <1>21, <1>22, <1>23,
     <1>24, <1>25, <1>26, <1>27, <1>28
     DEF Next, SyncStep, RefreshStep, AddStep, Request

\* The KeyError of refresh_list is the dashboard's alone: in the UDP and DoT
\* processes, whose loop and reload thread share a manager, no sync takes away a
\* list that the loop is downloading, whatever the dashboard removes meanwhile
\* and whatever fails.
THEOREM OthersAlwaysFindRows == Spec => []OthersFindRows
<1>1. Init => LoopInv
  BY DEF Init, LoopInv, Kept, RowAwaited, Thread
<1>2. HoldsInv /\ LoopInv /\ [Next]_vars => LoopInv'
  BY LoopStep DEF HoldsInv
<1>3. LoopInv => OthersFindRows
  BY DEF LoopInv, Kept, OthersFindRows
<1> QED BY <1>1, <1>2, <1>3, HoldsAlways, PTL DEF Spec

-----------------------------------------------------------------------------
(***************************************************************************)
(* The dashboard process and the table.                                    *)
(***************************************************************************)
\* the same lists with the same flags
Same(table, other) ==
    \A i \in Id : /\ table[i] = None <=> other[i] = None
                  /\ table[i] # None => table[i].enabled = other[i].enabled

\* what the dashboard process is about to have in memory is what is committed
DashJob(t) ==
    LET i == job[t].id table == rows[Dashboard] IN
    /\ pc[t] \in Syncing => Same(job[t].snap, db)
    /\ pc[t] = "write" => Same(table, db)
    /\ pc[t] = "add_write" => Same([table EXCEPT ![i] = job[t].snap[i]], db)
    /\ pc[t] = "removing" => Same([table EXCEPT ![i] = None], db)
DashInv ==
    /\ running[Dashboard] = "up" /\ lock[Dashboard] = None => Same(rows[Dashboard], db)
    /\ \A t \in Thread : Owner[t] = Dashboard => DashJob(t)

\* no thread but t moves
OnlyMoves(t) == \A s \in Thread \ {t} : pc'[s] = pc[s] /\ job'[s] = job[s]

\* Same is transitive.
LEMMA SameOften ==
    ASSUME NEW a, NEW b, NEW c, Same(a, b), Same(b, c)
    PROVE  Same(a, c)
BY DEF Same

\* a step of another process, which may change ETags in the table
LEMMA DashElsewhere ==
    ASSUME NEW t \in Thread, Owner[t] # Dashboard, OnlyMoves(t), DashInv,
           Same(db, db'), rows'[Dashboard] = rows[Dashboard],
           lock'[Dashboard] = lock[Dashboard],
           running'[Dashboard] = running[Dashboard]
    PROVE  DashInv'
<1>1. ASSUME NEW a, Same(a, db) PROVE Same(a, db')
  BY <1>1, SameOften
<1>2. running'[Dashboard] = "up" /\ lock'[Dashboard] = None => Same(rows'[Dashboard], db')
  BY <1>1 DEF DashInv
<1>3. ASSUME NEW s \in Thread, Owner[s] = Dashboard PROVE DashJob(s)'
  <2>1. pc'[s] = pc[s] /\ job'[s] = job[s] /\ DashJob(s)
    BY <1>3 DEF OnlyMoves, DashInv
  <2> QED BY <2>1, <1>1 DEF DashJob
<1> QED BY <1>2, <1>3 DEF DashInv

\* a step of the dashboard process outside its critical sections
LEMMA DashOutside ==
    ASSUME NEW t \in Thread, OnlyMoves(t), DashInv, Same(db, db'),
           UNCHANGED <<rows, lock, running>>, pc'[t] \notin Holding
    PROVE  DashInv'
<1>1. ASSUME NEW a, Same(a, db) PROVE Same(a, db')
  BY <1>1, SameOften
<1>2. running'[Dashboard] = "up" /\ lock'[Dashboard] = None => Same(rows'[Dashboard], db')
  BY <1>1 DEF DashInv
<1>3. ASSUME NEW s \in Thread, Owner[s] = Dashboard PROVE DashJob(s)'
  <2>1. CASE s = t
    BY <2>1 DEF DashJob, Holding, Syncing
  <2>2. CASE s # t
    <3>1. pc'[s] = pc[s] /\ job'[s] = job[s] /\ DashJob(s)
      BY <1>3, <2>2 DEF OnlyMoves, DashInv
    <3> QED BY <3>1, <1>1 DEF DashJob
  <2> QED BY <2>1, <2>2
<1> QED BY <1>2, <1>3 DEF DashInv

\* a thread of the dashboard process takes the lock: it is the only one inside
LEMMA DashTakes ==
    ASSUME ShapeOK, LockDiscipline, NEW t \in Thread, Owner[t] = Dashboard,
           OnlyMoves(t), LockFree(t), Acquire(t), DashJob(t)'
    PROVE  DashInv'
<1>1. lock'[Dashboard] # None /\ None \notin Thread
  BY NoneAssumption, ProcessAssumption DEF Acquire, ShapeOK
<1>2. ASSUME NEW s \in Thread, Owner[s] = Dashboard, s # t PROVE DashJob(s)'
  <2>1. pc'[s] \notin Holding
    BY <1>1, <1>2 DEF OnlyMoves, LockDiscipline, LockFree
  <2> QED BY <2>1 DEF DashJob, Holding, Syncing
<1> QED BY <1>1, <1>2 DEF DashInv

\* ... and gives it back, having put in memory what is in the table
LEMMA DashGives ==
    ASSUME ShapeOK, LockDiscipline, NEW t \in Thread, Owner[t] = Dashboard,
           OnlyMoves(t), pc[t] \in Holding, pc'[t] \notin Holding,
           Same(rows'[Dashboard], db')
    PROVE  DashInv'
<1>1. ASSUME NEW s \in Thread, Owner[s] = Dashboard PROVE DashJob(s)'
  <2>1. pc'[s] \notin Holding
    BY <1>1 DEF OnlyMoves, LockDiscipline
  <2> QED BY <2>1 DEF DashJob, Holding, Syncing
<1> QED BY <1>1 DEF DashInv

\* sync_registry leaves the lists and flags of its SELECT
LEMMA SyncedSame ==
    ASSUME ShapeOK, NEW t \in Thread
    PROVE  Same(Synced(t), job[t].snap)
<1> SUFFICES ASSUME NEW i \in Id
             PROVE  /\ Synced(t)[i] = None <=> job[t].snap[i] = None
                    /\ Synced(t)[i] # None => Synced(t)[i].enabled = job[t].snap[i].enabled
  BY DEF Same
<1>1. job[t].snap \in Table /\ rows[Owner[t]] \in Table
  BY ThreadProcess DEF ShapeOK, Job
<1>2. CASE job[t].snap[i] = None \/ rows[Owner[t]][i] = None
  BY <1>2 DEF Synced
<1>3. CASE job[t].snap[i] # None /\ rows[Owner[t]][i] # None
  <2>1. job[t].snap[i] \in Row /\ rows[Owner[t]][i] \in Row
    BY <1>1, <1>3 DEF Table
  <2>2. Synced(t)[i] = [rows[Owner[t]][i] EXCEPT !.enabled = job[t].snap[i].enabled]
    BY <1>3 DEF Synced
  <2>3. Synced(t)[i] \in Row
    BY <2>1, <2>2 DEF Row
  <2> QED BY <1>3, <2>1, <2>2, <2>3, NoneAssumption DEF Row
<1> QED BY <1>2, <1>3

\* a refresh changes the ETag of a list and nothing else Same looks at
LEMMA EtagSame ==
    ASSUME NEW table \in Table, NEW i \in Id, table[i] # None, NEW e \in 0 .. MaxVersion
    PROVE  /\ Same(table, [table EXCEPT ![i].etag = e])
           /\ Same([table EXCEPT ![i].etag = e], table)
<1> DEFINE other == [table EXCEPT ![i].etag = e]
<1>1. table[i] \in Row /\ other[i] = [table[i] EXCEPT !.etag = e]
  BY DEF Table
<1>2. other[i] \in Row /\ other[i].enabled = table[i].enabled
  BY <1>1 DEF Row
<1>3. \A j \in Id \ {i} : other[j] = table[j]
  BY DEF Table
<1> HIDE DEF other
<1>4. Same(table, other) /\ Same(other, table)
  BY <1>2, <1>3, NoneAssumption DEF Same
<1> QED BY <1>4 DEF other

\* set_enabled
LEMMA FlagSet ==
    ASSUME NEW table \in Table, NEW i \in Id, table[i] # None, NEW e \in BOOLEAN
    PROVE  LET other == [table EXCEPT ![i].enabled = e] IN
           /\ other[i] # None /\ other[i].enabled = e
           /\ \A j \in Id \ {i} : other[j] = table[j]
<1> DEFINE other == [table EXCEPT ![i].enabled = e]
<1>1. table[i] \in Row /\ other[i] = [table[i] EXCEPT !.enabled = e]
  BY DEF Table
<1>2. other[i] \in Row /\ other[i].enabled = e
  BY <1>1 DEF Row
<1> QED BY <1>2, NoneAssumption DEF Table

\* Every step keeps the dashboard process in line with the table.
LEMMA DashStep ==
    TypeOK /\ LockDiscipline /\ AliveInv /\ DashInv /\ [Next]_vars
      => DashInv'
<1> SUFFICES ASSUME TypeOK, LockDiscipline, AliveInv, DashInv, [Next]_vars
             PROVE  DashInv'
  OBVIOUS
<1> ShapeOK /\ LocalsSet /\ None \notin Thread
  BY NoneAssumption DEF TypeOK
<1>c. ASSUME NEW t \in Thread, StatementRaises(t), UNCHANGED running
      PROVE  DashInv'
  <2>1. OnlyMoves(t) /\ Same(db, db')
    BY <1>c DEF StatementRaises, Raise, OnlyMoves, Goto, Finish, ShapeOK, Same, disk
  <2>2. UNCHANGED <<rows, lock, running>> /\ pc'[t] \notin Holding
    BY <1>c DEF StatementRaises, Raise, Goto, ShapeOK, Holding, Syncing, memory
  <2> QED BY <2>1, <2>2, DashOutside
<1>b. ASSUME NEW t \in Thread, NEW stage \in Syncing, Select(t, stage),
             ~StatementRaises(t),
             \A p \in Process \ {Owner[t]} : running'[p] = running[p]
      PROVE  DashInv'
  <2>0. /\ LockFree(t) /\ Acquire(t) /\ Goto(t, stage)
        /\ job' = [job EXCEPT ![t] = [NoJob EXCEPT !.snap = db]]
        /\ UNCHANGED <<disk, memory>>
    BY <1>b DEF Select
  <2>1. OnlyMoves(t) /\ LockFree(t) /\ Acquire(t) /\ pc'[t] = stage
    BY <2>0 DEF OnlyMoves, Goto, ShapeOK
  <2>2. UNCHANGED <<db, rows>> /\ job'[t].snap = db
    BY <2>0 DEF disk, memory, ShapeOK, NoJob
  <2>3. Same(job'[t].snap, db') /\ Same(db, db')
    BY <2>2 DEF Same
  <2>4. CASE Owner[t] = Dashboard
    <3>1. DashJob(t)'
      BY <2>1, <2>3 DEF DashJob, Syncing
    <3> QED BY <2>1, <2>4, <3>1, DashTakes
  <2>5. CASE Owner[t] # Dashboard
    <3>1. /\ rows'[Dashboard] = rows[Dashboard] /\ lock'[Dashboard] = lock[Dashboard]
          /\ running'[Dashboard] = running[Dashboard]
      BY <1>b, <2>1, <2>2, <2>5, ProcessAssumption DEF Acquire, ShapeOK
    <3> QED BY <2>1, <2>3, <2>5, <3>1, DashElsewhere
  <2> QED BY <2>4, <2>5
<1> "load" \in Syncing /\ "tick" \in Syncing /\ "resync" \in Syncing
  BY DEF Syncing
<1> USE ThreadProcess, ProcessAssumption
    DEF ShapeOK, LocalsSet, Thread, LockFree, Acquire, Release, Goto, Finish, disk, memory
<1>1. ASSUME NEW t \in Loop, Start(t)
      PROVE  DashInv'
  <2>1. t \in Thread /\ Select(t, "load") /\ "load" \in Syncing
    BY <1>1 DEF Start
  <2>2. \A p \in Process \ {Owner[t]} : running'[p] = running[p]
    BY <1>1 DEF Start, Command
  <2>3. ~StatementRaises(t)
    <3>1. pc'[t] = "load"
      BY <2>1 DEF Select
    <3> QED BY <3>1 DEF StatementRaises, Raise
  <2> QED BY <2>1, <2>2, <2>3, <1>b
<1>2. ASSUME NEW t \in Loop, Tick(t)
      PROVE  DashInv'
  <2>1. t \in Thread /\ Select(t, "tick")
    BY <1>2 DEF Tick
  <2>2. \A p \in Process \ {Owner[t]} : running'[p] = running[p]
    BY <1>2 DEF Tick, Command
  <2>3. UNCHANGED running
    BY <1>2 DEF Tick
  <2> QED BY <2>1, <2>2, <2>3, <1>b, <1>c
<1>3. ASSUME NEW t \in Loop, RefreshDue(t)
      PROVE  DashInv'
  <2>1. t \in Thread /\ Select(t, "resync")
    BY <1>3 DEF RefreshDue
  <2>2. \A p \in Process \ {Owner[t]} : running'[p] = running[p]
    BY <1>3 DEF RefreshDue, Command
  <2>3. UNCHANGED running
    BY <1>3 DEF RefreshDue
  <2> QED BY <2>1, <2>2, <2>3, <1>b, <1>c
<1>4. ASSUME NEW t \in Loop, NotDue(t)
      PROVE  DashInv'
  <2>1. t \in Thread /\ OnlyMoves(t) /\ Same(db, db')
    BY <1>4 DEF NotDue, OnlyMoves, Same, Capture
  <2>2. UNCHANGED <<rows, lock, running>> /\ pc'[t] \notin Holding
    BY <1>4 DEF NotDue, Holding, Syncing, Capture
  <2> QED BY <2>1, <2>2, DashOutside
<1>5. ASSUME NEW t \in Reloader, ForceReload(t)
      PROVE  DashInv'
  <2>1. t \in Thread /\ Select(t, "resync")
    BY <1>5 DEF ForceReload
  <2>2. \A p \in Process \ {Owner[t]} : running'[p] = running[p]
    BY <1>5 DEF ForceReload, Command
  <2>3. UNCHANGED running
    BY <1>5 DEF ForceReload
  <2> QED BY <2>1, <2>2, <2>3, <1>b, <1>c
<1>6. ASSUME NEW t \in Thread, ReadCache(t)
      PROVE  DashInv'
  <2>1. /\ job'[t].snap = job[t].snap /\ pc' = pc /\ pc[t] \in Syncing
        /\ \A s \in Thread \ {t} : job'[s] = job[s]
    BY <1>6 DEF ReadCache, Job
  <2>2. UNCHANGED <<db, rows, lock, running>>
    BY <1>6 DEF ReadCache
  <2>3. ASSUME NEW s \in Thread, Owner[s] = Dashboard PROVE DashJob(s)'
    <3>1. CASE s = t
      BY <2>1, <2>2, <2>3, <3>1 DEF DashInv, DashJob, Syncing
    <3>2. CASE s # t
      BY <2>1, <2>2, <2>3, <3>2 DEF DashInv, DashJob
    <3> QED BY <3>1, <3>2
  <2> QED BY <2>2, <2>3 DEF DashInv
<1>7. ASSUME NEW t \in Thread, SyncRegistry(t)
      PROVE  DashInv'
  <2>1. /\ t \in Thread /\ OnlyMoves(t) /\ UNCHANGED db /\ pc[t] \in Syncing
        /\ pc[t] \in Holding /\ pc'[t] \notin Holding
    BY <1>7 DEF SyncRegistry, OnlyMoves, Holding, Syncing
  <2>2. rows' = [rows EXCEPT ![Owner[t]] = Synced(t)]
    BY <1>7 DEF SyncRegistry, Install
  <2>3. CASE Owner[t] = Dashboard
    <3>1. Same(job[t].snap, db')
      BY <2>1, <2>3 DEF DashInv, DashJob
    <3>2. Same(rows'[Dashboard], db')
      BY <2>2, <2>3, <3>1, SyncedSame, SameOften
    <3> QED BY <2>1, <2>3, <3>2, DashGives
  <2>4. CASE Owner[t] # Dashboard
    <3>1. /\ rows'[Dashboard] = rows[Dashboard] /\ lock'[Dashboard] = lock[Dashboard]
          /\ running'[Dashboard] = running[Dashboard] /\ Same(db, db')
      BY <1>7, <2>2, <2>4 DEF SyncRegistry, Same
    <3> QED BY <2>1, <2>4, <3>1, DashElsewhere
  <2> QED BY <2>3, <2>4
<1>8. ASSUME NEW t \in Thread, NextList(t)
      PROVE  DashInv'
  <2>1. t \in Thread /\ OnlyMoves(t) /\ Same(db, db')
    BY <1>8 DEF NextList, OnlyMoves, Same, Capture
  <2>2. UNCHANGED <<rows, lock, running>> /\ pc'[t] \notin Holding
    BY <1>8 DEF NextList, Holding, Syncing, Capture
  <2> QED BY <2>1, <2>2, DashOutside
<1>9. ASSUME NEW t \in Thread, FetchFails(t)
      PROVE  DashInv'
  <2>1. t \in Thread /\ OnlyMoves(t) /\ Same(db, db')
    BY <1>9 DEF FetchFails, OnlyMoves, Same, Capture
  <2>2. UNCHANGED <<rows, lock, running>> /\ pc'[t] \notin Holding
    BY <1>9 DEF FetchFails, Holding, Syncing, Capture
  <2> QED BY <2>1, <2>2, DashOutside
<1>10. ASSUME NEW t \in Thread, FetchSucceeds(t)
      PROVE  DashInv'
  <2>1. t \in Thread /\ OnlyMoves(t) /\ Same(db, db')
    BY <1>10 DEF FetchSucceeds, OnlyMoves, Same, Capture
  <2>2. UNCHANGED <<rows, lock, running>> /\ pc'[t] \notin Holding
    BY <1>10 DEF FetchSucceeds, Holding, Syncing, Capture
  <2> QED BY <2>1, <2>2, DashOutside
<1>11. ASSUME NEW t \in Thread, NotModified(t)
      PROVE  DashInv'
  <2>1. t \in Thread /\ OnlyMoves(t) /\ Same(db, db')
    BY <1>11 DEF NotModified, OnlyMoves, Same, Capture, Raise
  <2>2. UNCHANGED <<rows, lock, running>> /\ pc'[t] \notin Holding
    BY <1>11 DEF NotModified, Holding, Syncing, Capture, Raise
  <2> QED BY <2>1, <2>2, DashOutside
<1>12. ASSUME NEW t \in Thread, CommitRefresh(t)
      PROVE  DashInv'
  <2> DEFINE i == job[t].id
  <2>1. t \in Thread /\ OnlyMoves(t) /\ Up(t)
    BY <1>12 DEF CommitRefresh, OnlyMoves, AliveInv, Alive, Raise
  <2>2. Same(db, db')
    <3>1. i \in Id /\ TagOf(job[t].content) \in 0 .. MaxVersion /\ db \in Table
      BY <1>12, TagTyped DEF CommitRefresh
    <3>2. CASE db[i] = None
      BY <1>12, <3>2 DEF CommitRefresh, Same
    <3>3. CASE db[i] # None
      <4>1. db' = [db EXCEPT ![i].etag = TagOf(job[t].content)]
        BY <1>12, <3>3 DEF CommitRefresh
      <4> QED BY <3>1, <3>3, <4>1, EtagSame
    <3> QED BY <3>2, <3>3
  <2>3. UNCHANGED <<rows, running>>
    BY <1>12 DEF CommitRefresh
  <2>4. CASE rows[Owner[t]][i] = None
    <3>1. UNCHANGED lock /\ pc'[t] \notin Holding
      BY <1>12, <2>4 DEF CommitRefresh, Raise, Holding, Syncing
    <3> QED BY <2>1, <2>2, <2>3, <3>1, DashOutside
  <2>5. CASE rows[Owner[t]][i] # None /\ Owner[t] = Dashboard
    <3>1. LockFree(t) /\ Acquire(t) /\ pc'[t] = "write"
      BY <1>12, <2>5 DEF CommitRefresh
    <3>2. Same(rows'[Dashboard], db')
      BY <2>1, <2>2, <2>3, <2>5, <3>1, SameOften DEF DashInv, Up, LockFree
    <3>3. DashJob(t)'
      BY <3>1, <3>2 DEF DashJob, Syncing
    <3> QED BY <2>1, <2>5, <3>1, <3>3, DashTakes
  <2>6. CASE rows[Owner[t]][i] # None /\ Owner[t] # Dashboard
    <3>1. lock'[Dashboard] = lock[Dashboard]
      BY <1>12, <2>6 DEF CommitRefresh
    <3> QED BY <2>1, <2>2, <2>3, <2>6, <3>1, DashElsewhere
  <2> QED BY <2>4, <2>5, <2>6
<1>13. ASSUME NEW t \in Thread, FinishRefresh(t)
      PROVE  DashInv'
  <2> DEFINE i == job[t].id
             q == Owner[t]
             table == [rows[q] EXCEPT ![i].etag = TagOf(job[t].content)]
  <2>1. /\ t \in Thread /\ OnlyMoves(t) /\ UNCHANGED <<db, running>>
        /\ pc[t] = "write" /\ pc[t] \in Holding /\ pc'[t] \notin Holding
    BY <1>13 DEF FinishRefresh, OnlyMoves, Holding, Syncing
  <2>2. rows' = [rows EXCEPT ![q] = table] /\ q \in Process
    BY <1>13 DEF FinishRefresh, Install
  <2>3. CASE q = Dashboard
    <3>1. Same(rows[q], db)
      BY <2>1, <2>3 DEF DashInv, DashJob
    <3>2. Same(table, rows[q])
      <4>1. rows[q] \in Table /\ i \in Id /\ rows[q][i] # None
        BY <2>1, <2>2
      <4>2. TagOf(job[t].content) \in 0 .. MaxVersion
        BY <2>1, TagTyped
      <4> QED BY <4>1, <4>2, EtagSame
    <3> HIDE DEF table
    <3>3. rows'[Dashboard] = table
      BY <2>2, <2>3
    <3>4. Same(rows'[Dashboard], db')
      BY <2>1, <3>1, <3>2, <3>3, SameOften
    <3> QED BY <2>1, <2>3, <3>4, DashGives
  <2>4. CASE q # Dashboard
    <3> HIDE DEF table
    <3>1. /\ rows'[Dashboard] = rows[Dashboard] /\ lock'[Dashboard] = lock[Dashboard]
          /\ Same(db, db')
      BY <1>13, <2>1, <2>2, <2>4 DEF FinishRefresh, Same
    <3> QED BY <2>1, <2>4, <3>1, DashElsewhere
  <2> QED BY <2>3, <2>4
<1>14. ASSUME NEW t \in Handler, NEW u \in Url, AddList(t, u)
      PROVE  DashInv'
  <2>1. t \in Thread /\ OnlyMoves(t) /\ Same(db, db')
    BY <1>14 DEF AddList, OnlyMoves, Same, Capture, Command
  <2>2. UNCHANGED <<rows, lock, running>> /\ pc'[t] \notin Holding
    BY <1>14 DEF AddList, Holding, Syncing, Capture, Command
  <2> QED BY <2>1, <2>2, DashOutside
<1>15. ASSUME NEW t \in Handler, AddFails(t)
      PROVE  DashInv'
  <2>1. t \in Thread /\ OnlyMoves(t) /\ Same(db, db')
    BY <1>15 DEF AddFails, OnlyMoves, Same, Capture
  <2>2. UNCHANGED <<rows, lock, running>> /\ pc'[t] \notin Holding
    BY <1>15 DEF AddFails, Holding, Syncing, Capture
  <2> QED BY <2>1, <2>2, DashOutside
<1>16. ASSUME NEW t \in Handler, AddFetched(t)
      PROVE  DashInv'
  <2>1. t \in Thread /\ OnlyMoves(t) /\ Same(db, db')
    BY <1>16 DEF AddFetched, OnlyMoves, Same, Capture
  <2>2. UNCHANGED <<rows, lock, running>> /\ pc'[t] \notin Holding
    BY <1>16 DEF AddFetched, Holding, Syncing, Capture
  <2> QED BY <2>1, <2>2, DashOutside
<1>17. ASSUME NEW t \in Handler, InsertConflict(t)
      PROVE  DashInv'
  <2>1. t \in Thread /\ OnlyMoves(t) /\ Same(db, db')
    BY <1>17 DEF InsertConflict, OnlyMoves, Same, Capture
  <2>2. UNCHANGED <<rows, lock, running>> /\ pc'[t] \notin Holding
    BY <1>17 DEF InsertConflict, Holding, Syncing, Capture
  <2> QED BY <2>1, <2>2, DashOutside
<1>18. ASSUME NEW t \in Handler, InsertRow(t)
      PROVE  DashInv'
  <2>1. /\ t \in Thread /\ OnlyMoves(t) /\ Up(t) /\ Owner[t] = Dashboard
        /\ LockFree(t) /\ Acquire(t) /\ pc'[t] = "add_write"
        /\ UNCHANGED rows
    BY <1>18 DEF InsertRow, OnlyMoves, AliveInv, Alive
  <2> nextId \in Id
    BY <1>18, BoundAssumption DEF InsertRow, Id
  <2>2. job'[t].id = nextId /\ job'[t].snap[nextId] = db'[nextId]
    BY <1>18, <2>1 DEF InsertRow, Job, Table
  <2>3. \A i \in Id \ {nextId} : db'[i] = db[i]
    BY <1>18 DEF InsertRow, Table
  <2>4. Same(rows[Dashboard], db)
    BY <2>1 DEF DashInv, Up, LockFree
  <2>5. Same([rows'[Dashboard] EXCEPT ![nextId] = db'[nextId]], db')
    BY <2>1, <2>3, <2>4 DEF Same, Table
  <2>6. DashJob(t)'
    BY <2>1, <2>2, <2>5 DEF DashJob, Syncing
  <2> QED BY <2>1, <2>6, DashTakes
<1>19. ASSUME NEW t \in Handler, FinishAdd(t)
      PROVE  DashInv'
  <2> DEFINE i == job[t].id
             table == [rows[Dashboard] EXCEPT ![i] = job[t].snap[i]]
  <2>1. /\ t \in Thread /\ OnlyMoves(t) /\ UNCHANGED <<db, running>> /\ Owner[t] = Dashboard
        /\ pc[t] = "add_write" /\ pc[t] \in Holding /\ pc'[t] \notin Holding
    BY <1>19 DEF FinishAdd, OnlyMoves, Holding, Syncing
  <2>2. rows' = [rows EXCEPT ![Dashboard] = table]
    BY <1>19, <2>1 DEF FinishAdd, Install
  <2>3. Same(table, db)
    BY <2>1 DEF DashInv, DashJob
  <2>4. Same(rows'[Dashboard], db')
    BY <2>1, <2>2, <2>3
  <2> QED BY <2>1, <2>4, DashGives
<1>20. ASSUME NEW t \in Handler, NEW i \in Id, RemoveList(t, i)
      PROVE  DashInv'
  <2>1. /\ t \in Thread /\ OnlyMoves(t) /\ Up(t) /\ Owner[t] = Dashboard
        /\ LockFree(t) /\ Acquire(t) /\ pc'[t] = "removing"
        /\ UNCHANGED rows /\ job'[t].id = i
    BY <1>20 DEF RemoveList, Command, OnlyMoves, Job
  <2>2. db' = [db EXCEPT ![i] = None]
    BY <1>20 DEF RemoveList
  <2>3. Same(rows[Dashboard], db)
    BY <2>1 DEF DashInv, Up, LockFree
  <2>4. Same([rows'[Dashboard] EXCEPT ![i] = None], db')
    BY <2>1, <2>2, <2>3 DEF Same, Table
  <2>5. DashJob(t)'
    BY <2>1, <2>4 DEF DashJob, Syncing
  <2> QED BY <2>1, <2>5, DashTakes
<1>21. ASSUME NEW t \in Handler, FinishRemove(t)
      PROVE  DashInv'
  <2> DEFINE i == job[t].id
             table == [rows[Dashboard] EXCEPT ![i] = None]
  <2>1. /\ t \in Thread /\ OnlyMoves(t) /\ UNCHANGED <<db, running>> /\ Owner[t] = Dashboard
        /\ pc[t] = "removing" /\ pc[t] \in Holding /\ pc'[t] \notin Holding
    BY <1>21 DEF FinishRemove, OnlyMoves, Holding, Syncing
  <2>2. rows' = [rows EXCEPT ![Dashboard] = table]
    BY <1>21, <2>1 DEF FinishRemove, Install
  <2>3. Same(table, db)
    BY <2>1 DEF DashInv, DashJob
  <2>4. Same(rows'[Dashboard], db')
    BY <2>1, <2>2, <2>3
  <2> QED BY <2>1, <2>4, DashGives
<1>22. ASSUME NEW t \in Handler, NEW i \in Id, NEW e \in BOOLEAN, SetEnabled(t, i, e)
      PROVE  DashInv'
  <2> DEFINE table == rows[Dashboard]
             other == [table EXCEPT ![i].enabled = e]
  <2>1. /\ t \in Thread /\ Up(t) /\ Owner[t] = Dashboard /\ lock[Dashboard] = None
        /\ pc' = pc /\ table[i] # None /\ table \in Table
    BY <1>22 DEF SetEnabled, Command
  <2>2. rows'[Dashboard] = other
    BY <1>22, <2>1 DEF SetEnabled, Install
  <2>3. Same(table, db)
    BY <2>1 DEF DashInv, Up
  <2>4. db[i] # None /\ db' = [db EXCEPT ![i].enabled = e]
    BY <1>22, <2>1, <2>3 DEF SetEnabled, Same
  <2>5. /\ other[i] # None /\ other[i].enabled = e
        /\ \A j \in Id \ {i} : other[j] = table[j]
    BY <2>1, FlagSet
  <2>6. /\ db'[i] # None /\ db'[i].enabled = e
        /\ \A j \in Id \ {i} : db'[j] = db[j]
    BY <2>4, FlagSet
  <2> HIDE DEF other
  <2>7. Same(rows'[Dashboard], db')
    BY <2>2, <2>3, <2>5, <2>6 DEF Same
  <2>8. ASSUME NEW s \in Thread, Owner[s] = Dashboard PROVE DashJob(s)'
    <3>1. pc'[s] \notin Holding
      BY <2>1, <2>8 DEF LockDiscipline
    <3> QED BY <3>1 DEF DashJob, Holding, Syncing
  <2> QED BY <2>7, <2>8 DEF DashInv
<1>23. ASSUME NEW t \in Handler, NEW i \in Id, RefreshOne(t, i)
      PROVE  DashInv'
  <2>1. t \in Thread /\ OnlyMoves(t) /\ Same(db, db')
    BY <1>23 DEF RefreshOne, OnlyMoves, Same, Capture, Command
  <2>2. UNCHANGED <<rows, lock, running>> /\ pc'[t] \notin Holding
    BY <1>23 DEF RefreshOne, Holding, Syncing, Capture, Command
  <2> QED BY <2>1, <2>2, DashOutside
<1>24. ASSUME NEW t \in Handler, RefreshAll(t)
      PROVE  DashInv'
  <2>1. t \in Thread /\ Select(t, "resync")
    BY <1>24 DEF RefreshAll
  <2>2. \A p \in Process \ {Owner[t]} : running'[p] = running[p]
    BY <1>24 DEF RefreshAll, Command
  <2>3. UNCHANGED running
    BY <1>24 DEF RefreshAll
  <2> QED BY <2>1, <2>2, <2>3, <1>b, <1>c
<1>25. ASSUME NEW u \in Url, Publish(u)
      PROVE  DashInv'
  BY <1>25 DEF Publish, DashInv, DashJob
<1>26. ASSUME NEW p \in Process, Crash(p)
      PROVE  DashInv'
  <2>1. UNCHANGED db
    BY <1>26 DEF Crash
  <2>2. CASE p = Dashboard
    <3>1. running'[Dashboard] = "down" /\ \A s \in Thread : Owner[s] = Dashboard => pc'[s] = "idle"
      BY <1>26, <2>2 DEF Crash
    <3> QED BY <3>1 DEF DashInv, DashJob, Syncing
  <2>3. CASE p # Dashboard
    <3>1. /\ running'[Dashboard] = running[Dashboard] /\ rows'[Dashboard] = rows[Dashboard]
          /\ lock'[Dashboard] = lock[Dashboard]
          /\ \A s \in Thread : Owner[s] = Dashboard => pc'[s] = pc[s] /\ job'[s] = job[s]
      BY <1>26, <2>3 DEF Crash
    <3> QED BY <2>1, <3>1 DEF DashInv, DashJob
  <2> QED BY <2>2, <2>3
<1>27. CASE UNCHANGED vars
  BY <1>27 DEF vars, DashInv, DashJob
<1>28. ASSUME NEW t \in Thread, CommitRaises(t)
      PROVE  DashInv'
  BY <1>28, <1>c DEF CommitRaises
<1> HIDE DEF ShapeOK, LocalsSet, Thread
<1> QED
  BY <1>1, <1>2, <1>3, <1>4, <1>5, <1>6, <1>7, <1>8, <1>9, <1>10, <1>11, <1>12,
     <1>13, <1>14, <1>15, <1>16, <1>17, <1>18, <1>19, <1>20, <1>21, <1>22, <1>23,
     <1>24, <1>25, <1>26, <1>27, <1>28
     DEF Next, SyncStep, RefreshStep, AddStep, Request

\* The dashboard process is down at first.
LEMMA InitDash == Init => DashInv
<1> SUFFICES ASSUME Init PROVE DashInv
  OBVIOUS
<1>1. running[Dashboard] = "down" /\ \A t \in Thread : pc[t] = "idle"
  BY ProcessAssumption DEF Init
<1> QED BY <1>1 DEF DashInv, DashJob, Syncing

\* DashInv is invariant.
LEMMA DashAlways == Spec => []DashInv
<1>1. HoldsInv /\ DashInv /\ [Next]_vars => DashInv'
  BY DashStep DEF HoldsInv
<1> QED BY <1>1, InitDash, HoldsAlways, PTL DEF Spec

\* Outside its critical sections the dashboard process lists and enforces what
\* is committed: no sync working on an older SELECT brings a list back.
THEOREM DashboardIsCoherent == Spec => []DashboardCoherent
<1>1. DashInv => DashboardCoherent
  BY DEF DashInv, DashboardCoherent, Same, Listed, MaskOf
<1> QED BY <1>1, DashAlways, PTL

-----------------------------------------------------------------------------
(***************************************************************************)
(* One list per URL.                                                       *)
(***************************************************************************)
UniqueInv ==
    /\ UniqueUrls
    /\ \A t \in Thread : pc[t] \in Syncing => OncePerUrl(job[t].snap)

\* no thread but one that took it in this step has another snapshot
SnapsKept ==
    \A s \in Thread :
      pc'[s] \in Syncing => pc[s] \in Syncing /\ job'[s].snap = job[s].snap

\* table has no list that other has not, under the same URL
Within(table, other) ==
    \A i \in Id : table[i] # None => other[i] # None /\ table[i].url = other[i].url

\* A part of a table with one list per URL is one.
LEMMA OnceWithin ==
    ASSUME NEW table, NEW other, Within(table, other), OncePerUrl(other)
    PROVE  OncePerUrl(table)
BY DEF Within, OncePerUrl, Listed

\* two tables agree on the URL of an id, since each has the one it was given
LEMMA NamedWithin ==
    ASSUME NEW table, NEW other, Named(table), Named(other),
           \A i \in Id : table[i] # None => other[i] # None
    PROVE  Within(table, other)
BY DEF Named, Within

\* A new ETag or flag leaves the lists and URLs of a table.
LEMMA EtagWithin ==
    ASSUME NEW table \in Table, NEW i \in Id, table[i] # None, NEW e
    PROVE  Within([table EXCEPT ![i].etag = e], table)
<1> DEFINE other == [table EXCEPT ![i].etag = e]
<1>1. table[i] \in Row /\ other[i] = [table[i] EXCEPT !.etag = e]
  BY DEF Table
<1>2. other[i].url = table[i].url
  BY <1>1 DEF Row
<1>3. \A j \in Id \ {i} : other[j] = table[j]
  BY DEF Table
<1> HIDE DEF other
<1>4. Within(other, table)
  BY <1>2, <1>3 DEF Within
<1> QED BY <1>4 DEF other

LEMMA FlagWithin ==
    ASSUME NEW table \in Table, NEW i \in Id, table[i] # None, NEW e
    PROVE  Within([table EXCEPT ![i].enabled = e], table)
<1> DEFINE other == [table EXCEPT ![i].enabled = e]
<1>1. table[i] \in Row /\ other[i] = [table[i] EXCEPT !.enabled = e]
  BY DEF Table
<1>2. other[i].url = table[i].url
  BY <1>1 DEF Row
<1>3. \A j \in Id \ {i} : other[j] = table[j]
  BY DEF Table
<1> HIDE DEF other
<1>4. Within(other, table)
  BY <1>2, <1>3 DEF Within
<1> QED BY <1>4 DEF other

\* one thread's manager gets a table with one list per URL
LEMMA InstallUnique ==
    ASSUME ShapeOK, UniqueInv, NEW t \in Thread, NEW table, OncePerUrl(table),
           rows' = [rows EXCEPT ![Owner[t]] = table], UNCHANGED db,
           SnapsKept
    PROVE  UniqueInv'
<1>1. ASSUME NEW p \in Process PROVE OncePerUrl(rows'[p])
  <2>1. rows'[p] = table \/ rows'[p] = rows[p]
    BY DEF ShapeOK
  <2> QED BY <2>1 DEF UniqueInv, UniqueUrls, SnapsKept
<1>2. \A s \in Thread : pc'[s] \in Syncing => OncePerUrl(job'[s].snap)
  BY DEF UniqueInv, SnapsKept
<1>3. OncePerUrl(db')
  BY DEF UniqueInv, UniqueUrls
<1> QED BY <1>1, <1>2, <1>3 DEF UniqueInv, UniqueUrls

\* Every step keeps one list per URL.
LEMMA UniqueStep ==
    TypeOK /\ OwnInv /\ DashInv /\ UniqueInv /\ [Next]_vars
      => UniqueInv'
<1> SUFFICES ASSUME TypeOK, OwnInv, DashInv, UniqueInv, [Next]_vars
             PROVE  UniqueInv'
  OBVIOUS
<1> ShapeOK /\ LocalsSet /\ None \notin Thread
  BY NoneAssumption DEF TypeOK
<1>a. ASSUME UNCHANGED <<db, rows>>, SnapsKept
      PROVE  UniqueInv'
  BY <1>a DEF UniqueInv, UniqueUrls, SnapsKept
<1>b. ASSUME NEW t \in Thread, NEW stage \in Syncing, Select(t, stage)
      PROVE  UniqueInv'
  <2>1. /\ UNCHANGED <<db, rows>>
        /\ job'[t].snap = db \/ pc'[t] \notin Syncing
        /\ \A s \in Thread \ {t} : pc'[s] = pc[s] /\ job'[s] = job[s]
    BY <1>b DEF Select, StatementRaises, Raise, Goto, Finish, ShapeOK, NoJob, disk,
                memory, Syncing
  <2> QED BY <2>1 DEF UniqueInv, UniqueUrls
<1> "load" \in Syncing /\ "tick" \in Syncing /\ "resync" \in Syncing
  BY DEF Syncing
<1> USE ThreadProcess, ProcessAssumption
    DEF ShapeOK, LocalsSet, Thread, Goto, Finish, disk, memory
<1>1. ASSUME NEW t \in Loop, Start(t)
      PROVE  UniqueInv'
  <2>1. t \in Thread /\ Select(t, "load")
    BY <1>1 DEF Start
  <2> QED BY <2>1, <1>b
<1>2. ASSUME NEW t \in Loop, Tick(t)
      PROVE  UniqueInv'
  <2>1. t \in Thread /\ Select(t, "tick")
    BY <1>2 DEF Tick
  <2> QED BY <2>1, <1>b
<1>3. ASSUME NEW t \in Loop, RefreshDue(t)
      PROVE  UniqueInv'
  <2>1. t \in Thread /\ Select(t, "resync")
    BY <1>3 DEF RefreshDue
  <2> QED BY <2>1, <1>b
<1>4. ASSUME NEW t \in Loop, NotDue(t)
      PROVE  UniqueInv'
  <2>1. UNCHANGED <<db, rows>>
    BY <1>4 DEF NotDue
  <2>2. SnapsKept
    BY <1>4 DEF SnapsKept, NotDue, Syncing, Job
  <2> QED BY <2>1, <2>2, <1>a
<1>5. ASSUME NEW t \in Reloader, ForceReload(t)
      PROVE  UniqueInv'
  <2>1. t \in Thread /\ Select(t, "resync")
    BY <1>5 DEF ForceReload
  <2> QED BY <2>1, <1>b
<1>6. ASSUME NEW t \in Thread, ReadCache(t)
      PROVE  UniqueInv'
  <2>1. UNCHANGED <<db, rows>>
    BY <1>6 DEF ReadCache
  <2>2. SnapsKept
    BY <1>6 DEF SnapsKept, ReadCache, Syncing, Job
  <2> QED BY <2>1, <2>2, <1>a
<1>7. ASSUME NEW t \in Thread, SyncRegistry(t)
      PROVE  UniqueInv'
  <2>1. /\ t \in Thread /\ UNCHANGED db /\ pc[t] \in Syncing
        /\ rows' = [rows EXCEPT ![Owner[t]] = Synced(t)]
    BY <1>7 DEF SyncRegistry, Install
  <2>2. SnapsKept
    BY <1>7 DEF SnapsKept, SyncRegistry, Syncing
  <2>3. Named(Synced(t)) /\ Named(job[t].snap)
    BY <2>1, SyncedNamed DEF OwnInv, OwnJob
  <2>4. \A i \in Id : Synced(t)[i] # None => job[t].snap[i] # None
    BY <2>1, SyncedSame DEF Same
  <2>5. OncePerUrl(job[t].snap)
    BY <2>1 DEF UniqueInv
  <2>6. OncePerUrl(Synced(t))
    BY <2>3, <2>4, <2>5, NamedWithin, OnceWithin
  <2> QED BY <2>1, <2>2, <2>6, InstallUnique
<1>8. ASSUME NEW t \in Thread, NextList(t)
      PROVE  UniqueInv'
  <2>1. UNCHANGED <<db, rows>>
    BY <1>8 DEF NextList
  <2>2. SnapsKept
    BY <1>8 DEF SnapsKept, NextList, Syncing, Job, Capture
  <2> QED BY <2>1, <2>2, <1>a
<1>9. ASSUME NEW t \in Thread, FetchFails(t)
      PROVE  UniqueInv'
  <2>1. UNCHANGED <<db, rows>>
    BY <1>9 DEF FetchFails
  <2>2. SnapsKept
    BY <1>9 DEF SnapsKept, FetchFails, Syncing, Job
  <2> QED BY <2>1, <2>2, <1>a
<1>10. ASSUME NEW t \in Thread, FetchSucceeds(t)
      PROVE  UniqueInv'
  <2>1. UNCHANGED <<db, rows>>
    BY <1>10 DEF FetchSucceeds
  <2>2. SnapsKept
    BY <1>10 DEF SnapsKept, FetchSucceeds, Syncing, Job
  <2> QED BY <2>1, <2>2, <1>a
<1>11. ASSUME NEW t \in Thread, NotModified(t)
      PROVE  UniqueInv'
  <2>1. UNCHANGED <<db, rows>>
    BY <1>11 DEF NotModified
  <2>2. SnapsKept
    BY <1>11 DEF SnapsKept, NotModified, Syncing, Job, Raise
  <2> QED BY <2>1, <2>2, <1>a
<1>12. ASSUME NEW t \in Thread, CommitRefresh(t)
      PROVE  UniqueInv'
  <2> DEFINE i == job[t].id
  <2>1. UNCHANGED rows
    BY <1>12 DEF CommitRefresh
  <2>2. SnapsKept
    BY <1>12 DEF SnapsKept, CommitRefresh, Syncing, Raise
  <2>3. OncePerUrl(db')
    <3>1. OncePerUrl(db) /\ i \in Id
      BY <1>12 DEF UniqueInv, UniqueUrls, CommitRefresh
    <3>2. CASE db[i] = None
      BY <1>12, <3>1, <3>2 DEF CommitRefresh
    <3>3. CASE db[i] # None
      BY <1>12, <3>1, <3>3, EtagWithin, OnceWithin DEF CommitRefresh
    <3> QED BY <3>2, <3>3
  <2> QED BY <2>1, <2>2, <2>3 DEF UniqueInv, UniqueUrls, SnapsKept
<1>13. ASSUME NEW t \in Thread, FinishRefresh(t)
      PROVE  UniqueInv'
  <2> DEFINE table == [rows[Owner[t]] EXCEPT ![job[t].id].etag = TagOf(job[t].content)]
  <2>1. t \in Thread /\ Owner[t] \in Process /\ UNCHANGED db
    BY <1>13 DEF FinishRefresh
  <2>2. rows' = [rows EXCEPT ![Owner[t]] = table]
    BY <1>13 DEF FinishRefresh, Install
  <2>3. SnapsKept
    BY <1>13 DEF SnapsKept, FinishRefresh, Syncing
  <2>4. OncePerUrl(table)
    <3>1. OncePerUrl(rows[Owner[t]]) /\ OncePerUrl(db)
      BY <2>1 DEF UniqueInv, UniqueUrls
    <3>2. /\ rows[Owner[t]] \in Table /\ job[t].id \in Id
          /\ rows[Owner[t]][job[t].id] # None
      BY <1>13, <2>1 DEF FinishRefresh
    <3>3. Within(table, rows[Owner[t]])
      BY <3>2, EtagWithin
    <3> QED BY <3>1, <3>3, OnceWithin
  <2> HIDE DEF table
  <2> QED BY <2>1, <2>2, <2>3, <2>4, InstallUnique
<1>14. ASSUME NEW t \in Handler, NEW u \in Url, AddList(t, u)
      PROVE  UniqueInv'
  <2>1. UNCHANGED <<db, rows>>
    BY <1>14 DEF AddList
  <2>2. SnapsKept
    BY <1>14 DEF SnapsKept, AddList, Syncing, Job, Command
  <2> QED BY <2>1, <2>2, <1>a
<1>15. ASSUME NEW t \in Handler, AddFails(t)
      PROVE  UniqueInv'
  <2>1. UNCHANGED <<db, rows>>
    BY <1>15 DEF AddFails
  <2>2. SnapsKept
    BY <1>15 DEF SnapsKept, AddFails, Syncing, Job
  <2> QED BY <2>1, <2>2, <1>a
<1>16. ASSUME NEW t \in Handler, AddFetched(t)
      PROVE  UniqueInv'
  <2>1. UNCHANGED <<db, rows>>
    BY <1>16 DEF AddFetched
  <2>2. SnapsKept
    BY <1>16 DEF SnapsKept, AddFetched, Syncing, Job
  <2> QED BY <2>1, <2>2, <1>a
<1>17. ASSUME NEW t \in Handler, InsertConflict(t)
      PROVE  UniqueInv'
  <2>1. UNCHANGED <<db, rows>>
    BY <1>17 DEF InsertConflict
  <2>2. SnapsKept
    BY <1>17 DEF SnapsKept, InsertConflict, Syncing, Job
  <2> QED BY <2>1, <2>2, <1>a
<1>18. ASSUME NEW t \in Handler, InsertRow(t)
      PROVE  UniqueInv'
  <2>1. UNCHANGED rows
    BY <1>18 DEF InsertRow
  <2>2. SnapsKept
    BY <1>18 DEF SnapsKept, InsertRow, Syncing
  <2>3. OncePerUrl(db) /\ nextId \in Id
    BY <1>18, BoundAssumption DEF UniqueInv, UniqueUrls, InsertRow, Id
  <2>4. \A j \in Id \ {nextId} : db'[j] = db[j]
    BY <1>18 DEF InsertRow, Table
  <2>5. db'[nextId].url = job[t].url
    BY <1>18, <2>3 DEF InsertRow, Table
  <2>6. \A j \in Listed(db) : db[j].url # job[t].url
    BY <1>18 DEF InsertRow
  <2>7. OncePerUrl(db')
    BY <2>3, <2>4, <2>5, <2>6 DEF OncePerUrl, Listed
  <2> QED BY <2>1, <2>2, <2>7 DEF UniqueInv, UniqueUrls, SnapsKept
<1>19. ASSUME NEW t \in Handler, FinishAdd(t)
      PROVE  UniqueInv'
  <2> DEFINE table == [rows[Owner[t]] EXCEPT ![job[t].id] = job[t].snap[job[t].id]]
  <2>1. t \in Thread /\ Owner[t] \in Process /\ UNCHANGED db
    BY <1>19 DEF FinishAdd
  <2>2. rows' = [rows EXCEPT ![Owner[t]] = table]
    BY <1>19 DEF FinishAdd, Install
  <2>3. SnapsKept
    BY <1>19 DEF SnapsKept, FinishAdd, Syncing
  <2>4. OncePerUrl(table)
    <3>1. OncePerUrl(rows[Owner[t]]) /\ OncePerUrl(db)
      BY <2>1 DEF UniqueInv, UniqueUrls
    <3>2. /\ rows[Owner[t]] \in Table /\ job[t].id \in Id /\ pc[t] = "add_write"
          /\ Owner[t] = Dashboard
      BY <1>19, <2>1 DEF FinishAdd
    <3>3. Same(table, db)
      BY <2>1, <3>2 DEF DashInv, DashJob
    <3>4. /\ Named(rows[Owner[t]]) /\ Named(job[t].snap) /\ Named(db)
      BY <2>1 DEF OwnInv, OwnContent, OwnJob
    <3>5. Named(table)
      BY <3>2, <3>4 DEF Named, Table
    <3> HIDE DEF table
    <3>6. \A j \in Id : table[j] # None => db[j] # None
      BY <3>3 DEF Same
    <3> QED BY <3>1, <3>4, <3>5, <3>6, NamedWithin, OnceWithin
  <2> HIDE DEF table
  <2> QED BY <2>1, <2>2, <2>3, <2>4, InstallUnique
<1>20. ASSUME NEW t \in Handler, NEW i \in Id, RemoveList(t, i)
      PROVE  UniqueInv'
  <2>1. UNCHANGED rows
    BY <1>20 DEF RemoveList
  <2>2. SnapsKept
    BY <1>20 DEF SnapsKept, RemoveList, Syncing
  <2>3. Within(db', db)
    BY <1>20 DEF RemoveList, Within, Table
  <2>4. OncePerUrl(db')
    BY <2>3, OnceWithin DEF UniqueInv, UniqueUrls
  <2> QED BY <2>1, <2>2, <2>4 DEF UniqueInv, UniqueUrls, SnapsKept
<1>21. ASSUME NEW t \in Handler, FinishRemove(t)
      PROVE  UniqueInv'
  <2> DEFINE table == [rows[Owner[t]] EXCEPT ![job[t].id] = None]
  <2>1. t \in Thread /\ Owner[t] \in Process /\ UNCHANGED db
    BY <1>21 DEF FinishRemove
  <2>2. rows' = [rows EXCEPT ![Owner[t]] = table]
    BY <1>21 DEF FinishRemove, Install
  <2>3. SnapsKept
    BY <1>21 DEF SnapsKept, FinishRemove, Syncing
  <2>4. OncePerUrl(table)
    <3>1. OncePerUrl(rows[Owner[t]]) /\ OncePerUrl(db)
      BY <2>1 DEF UniqueInv, UniqueUrls
    <3>2. rows[Owner[t]] \in Table /\ job[t].id \in Id
      BY <1>21, <2>1 DEF FinishRemove
    <3>3. Within(table, rows[Owner[t]])
      BY <3>2 DEF Within, Table
    <3> QED BY <3>1, <3>3, OnceWithin
  <2> HIDE DEF table
  <2> QED BY <2>1, <2>2, <2>3, <2>4, InstallUnique
<1>22. ASSUME NEW t \in Handler, NEW i \in Id, NEW e \in BOOLEAN, SetEnabled(t, i, e)
      PROVE  UniqueInv'
  <2> DEFINE table == [rows[Owner[t]] EXCEPT ![i].enabled = e]
  <2>1. t \in Thread /\ Owner[t] \in Process
    BY <1>22 DEF SetEnabled
  <2>2. rows' = [rows EXCEPT ![Owner[t]] = table]
    BY <1>22 DEF SetEnabled, Install
  <2>3. SnapsKept
    BY <1>22 DEF SnapsKept, SetEnabled, Syncing, Command
  <2>4. OncePerUrl(rows[Owner[t]]) /\ OncePerUrl(db)
    BY <2>1 DEF UniqueInv, UniqueUrls
  <2>5. OncePerUrl(table)
    <3>1. rows[Owner[t]] \in Table /\ rows[Owner[t]][i] # None
      BY <1>22, <2>1 DEF SetEnabled
    <3> QED BY <2>4, <3>1, FlagWithin, OnceWithin
  <2>6. OncePerUrl(db')
    <3>1. CASE db[i] = None
      BY <1>22, <2>4, <3>1 DEF SetEnabled
    <3>2. CASE db[i] # None
      BY <1>22, <2>4, <3>2, FlagWithin, OnceWithin DEF SetEnabled
    <3> QED BY <3>1, <3>2
  <2>7. \A p \in Process : rows'[p] = table \/ rows'[p] = rows[p]
    BY <2>2
  <2> HIDE DEF table
  <2> QED BY <2>3, <2>5, <2>6, <2>7 DEF UniqueInv, UniqueUrls, SnapsKept
<1>23. ASSUME NEW t \in Handler, NEW i \in Id, RefreshOne(t, i)
      PROVE  UniqueInv'
  <2>1. UNCHANGED <<db, rows>>
    BY <1>23 DEF RefreshOne
  <2>2. SnapsKept
    BY <1>23 DEF SnapsKept, RefreshOne, Syncing, Job, Command, Capture
  <2> QED BY <2>1, <2>2, <1>a
<1>24. ASSUME NEW t \in Handler, RefreshAll(t)
      PROVE  UniqueInv'
  <2>1. t \in Thread /\ Select(t, "resync")
    BY <1>24 DEF RefreshAll
  <2> QED BY <2>1, <1>b
<1>25. ASSUME NEW u \in Url, Publish(u)
      PROVE  UniqueInv'
  <2>1. UNCHANGED <<db, rows>>
    BY <1>25 DEF Publish
  <2>2. SnapsKept
    BY <1>25 DEF SnapsKept, Publish, Syncing, Job
  <2> QED BY <2>1, <2>2, <1>a
<1>26. ASSUME NEW p \in Process, Crash(p)
      PROVE  UniqueInv'
  <2>1. UNCHANGED db
    BY <1>26 DEF Crash
  <2>2. SnapsKept
    BY <1>26 DEF SnapsKept, Crash, Syncing
  <2>3. \A q \in Process : rows'[q] = EmptyTable \/ rows'[q] = rows[q]
    BY <1>26 DEF Crash
  <2>4. OncePerUrl(EmptyTable)
    BY DEF OncePerUrl, Listed, EmptyTable
  <2> QED BY <2>1, <2>2, <2>3, <2>4 DEF UniqueInv, UniqueUrls, SnapsKept
<1>27. CASE UNCHANGED vars
  <2> UNCHANGED <<db, rows>> /\ SnapsKept
    BY <1>27 DEF vars, SnapsKept
  <2> QED BY <1>a
<1>28. ASSUME NEW t \in Thread, CommitRaises(t)
      PROVE  UniqueInv'
  <2>1. UNCHANGED <<db, rows>>
    BY <1>28 DEF CommitRaises, StatementRaises
  <2>2. SnapsKept
    BY <1>28 DEF SnapsKept, CommitRaises, StatementRaises, Raise, Syncing, Job
  <2> QED BY <2>1, <2>2, <1>a
<1> HIDE DEF ShapeOK, LocalsSet, Thread
<1> QED
  BY <1>1, <1>2, <1>3, <1>4, <1>5, <1>6, <1>7, <1>8, <1>9, <1>10, <1>11, <1>12,
     <1>13, <1>14, <1>15, <1>16, <1>17, <1>18, <1>19, <1>20, <1>21, <1>22, <1>23,
     <1>24, <1>25, <1>26, <1>27, <1>28
     DEF Next, SyncStep, RefreshStep, AddStep, Request

\* A URL is registered at most once, in the table and in every process, however
\* additions and removals race and whenever each process picks them up.
THEOREM UrlsAreUnique == Spec => []UniqueUrls
<1>1. Init => UniqueInv /\ OwnInv
  <2> SUFFICES ASSUME Init PROVE UniqueInv /\ OwnInv
    OBVIOUS
  <2>1. OwnInv
    BY EmptyNamed DEF Init, OwnInv, OwnContent, Fresh, OwnJob, Named, EmptyTable
  <2>2. db = EmptyTable /\ \A p \in Process : rows[p] = EmptyTable
    BY DEF Init
  <2>3. \A t \in Thread : pc[t] \notin Syncing
    BY DEF Init, Syncing
  <2>4. OncePerUrl(EmptyTable)
    BY DEF OncePerUrl, Listed, EmptyTable
  <2> QED BY <2>1, <2>2, <2>3, <2>4 DEF UniqueInv, UniqueUrls, SnapsKept
<1>2. HoldsInv /\ DashInv /\ OwnInv /\ UniqueInv /\ [Next]_vars => OwnInv' /\ UniqueInv'
  BY OwnStep, UniqueStep DEF HoldsInv
<1>3. UniqueInv => UniqueUrls
  BY DEF UniqueInv
<1> QED BY <1>1, <1>2, <1>3, HoldsAlways, DashAlways, PTL DEF Spec

-----------------------------------------------------------------------------
(***************************************************************************)
(* What ends a refresh loop: a removal or a statement that raises.  Where  *)
(* the dashboard removes no list, ids only ever come: the table grows, and *)
(* every snapshot and every manager has a part of it that grows as well.   *)
(***************************************************************************)
Below(table, other) == \A i \in Id : table[i] # None => other[i] # None

Stays(t) ==
    LET table == rows[Owner[t]] IN
    /\ pc[t] \in Syncing => Below(table, job[t].snap) /\ Below(job[t].snap, db)
    /\ pc[t] = "add_write" => db[job[t].id] # None
    /\ pc[t] \in {"fetch", "touch", "got"} => table[job[t].id] # None
    /\ pc[t] # "removing"
    /\ t \in Loop /\ pc[t] = "dead" => DbFaults
StayInv == /\ \A p \in Process : Below(rows[p], db)
           /\ \A t \in Thread : Stays(t)

\* Below is transitive.
LEMMA BelowTrans ==
    ASSUME NEW a, NEW b, NEW c, Below(a, b), Below(b, c)
    PROVE  Below(a, c)
BY DEF Below

LEMMA SameBelow == ASSUME NEW a, NEW b, Same(a, b) PROVE Below(a, b)
BY DEF Same, Below

LEMMA FlagBelow ==
    ASSUME NEW table \in Table, NEW i \in Id, table[i] # None, NEW e \in BOOLEAN
    PROVE  /\ Below(table, [table EXCEPT ![i].enabled = e])
           /\ Below([table EXCEPT ![i].enabled = e], table)
<1> DEFINE other == [table EXCEPT ![i].enabled = e]
<1>1. other[i] # None /\ \A j \in Id \ {i} : other[j] = table[j]
  BY FlagSet
<1> HIDE DEF other
<1>2. Below(table, other) /\ Below(other, table)
  BY <1>1 DEF Below
<1> QED BY <1>2 DEF other

\* the threads that have a snapshot find their manager as it was
Undisturbed(t) ==
    \A s \in Thread \ {t} : pc[s] \in Syncing => rows'[Owner[s]] = rows[Owner[s]]

\* a step of t that takes no list away
LEMMA StayGrows ==
    ASSUME LocalsSet, StayInv, NEW t \in Thread, OnlyMoves(t), Below(db, db'),
           \A p \in Process : Below(rows[p], rows'[p]) /\ Below(rows'[p], db'),
           Undisturbed(t), Stays(t)'
    PROVE  StayInv'
<1>1. ASSUME NEW s \in Thread, s # t PROVE Stays(s)'
  <2>1. pc'[s] = pc[s] /\ job'[s] = job[s] /\ Stays(s)
    BY <1>1 DEF OnlyMoves, StayInv
  <2>2. Owner[s] \in Process /\ Below(rows[Owner[s]], rows'[Owner[s]])
    BY ThreadProcess
  <2>3. CASE pc[s] \in Syncing
    <3>1. /\ Below(rows[Owner[s]], job[s].snap) /\ Below(job[s].snap, db)
          /\ rows'[Owner[s]] = rows[Owner[s]]
      BY <1>1, <2>1, <2>3 DEF Stays, Undisturbed
    <3>2. Below(job[s].snap, db')
      BY <3>1, BelowTrans
    <3> QED BY <2>1, <2>3, <3>1, <3>2 DEF Stays, Syncing
  <2>4. CASE pc[s] \notin Syncing
    <3>1. /\ pc[s] = "add_write" => job[s].id \in Id
          /\ pc[s] \in {"fetch", "touch", "got"} => job[s].id \in Id
      BY DEF LocalsSet
    <3> QED BY <2>1, <2>2, <2>4, <3>1 DEF Stays, Below
  <2> QED BY <2>3, <2>4
<1> QED BY <1>1 DEF StayInv

\* a step of t that leaves every manager alone
LEMMA StayQuiet ==
    ASSUME LocalsSet, StayInv, NEW t \in Thread, OnlyMoves(t), Below(db, db'),
           UNCHANGED rows, Stays(t)'
    PROVE  StayInv'
<1>1. \A p \in Process : Below(rows[p], rows'[p])
  BY DEF Below
<1>2. \A p \in Process : Below(rows'[p], db')
  BY BelowTrans DEF StayInv
<1> QED BY <1>1, <1>2, StayGrows DEF Undisturbed

\* a step of t, which has the lock or finds it free, that gives t's manager a
\* table of more lists
LEMMA StayInstalled ==
    ASSUME ShapeOK, LocalsSet, LockDiscipline, StayInv, NEW t \in Thread, OnlyMoves(t),
           Below(db, db'), NEW table, rows' = [rows EXCEPT ![Owner[t]] = table],
           Below(rows[Owner[t]], table), Below(table, db'),
           pc[t] \in Holding \/ LockFree(t), Stays(t)'
    PROVE  StayInv'
<1>1. Undisturbed(t)
  <2> SUFFICES ASSUME NEW s \in Thread, s # t, pc[s] \in Syncing
               PROVE  rows'[Owner[s]] = rows[Owner[s]]
    BY DEF Undisturbed
  <2>1. lock[Owner[s]] = s /\ s # None
    BY NoneAssumption DEF LockDiscipline, Holding
  <2>2. Owner[s] # Owner[t]
    BY <2>1 DEF LockDiscipline, LockFree
  <2> QED BY <2>2, ThreadProcess DEF ShapeOK
<1>2. ASSUME NEW p \in Process
      PROVE  Below(rows[p], rows'[p]) /\ Below(rows'[p], db')
  <2>1. CASE p = Owner[t]
    BY <2>1 DEF ShapeOK
  <2>2. CASE p # Owner[t]
    <3>1. rows'[p] = rows[p] /\ Below(rows[p], db)
      BY <2>2 DEF ShapeOK, StayInv
    <3> QED BY <3>1, BelowTrans DEF Below
  <2> QED BY <2>1, <2>2
<1> QED BY <1>1, <1>2, StayGrows

\* Without removals every step keeps the table growing.
LEMMA StayStep ==
    TypeOK /\ LockDiscipline /\ HeldInv /\ "remove" \notin Commands /\ StayInv /\
    [Next]_vars
      => StayInv'
<1> SUFFICES ASSUME TypeOK, LockDiscipline, HeldInv, "remove" \notin Commands,
                    StayInv, [Next]_vars
             PROVE  StayInv'
  OBVIOUS
<1> ShapeOK /\ LocalsSet /\ None \notin Thread
  BY NoneAssumption DEF TypeOK
<1>a. ASSUME UNCHANGED db PROVE Below(db, db')
  BY <1>a DEF Below
<1>b. ASSUME NEW t \in Thread, NEW stage \in Syncing, Select(t, stage)
      PROVE  StayInv'
  <2>1. OnlyMoves(t) /\ UNCHANGED <<db, rows>>
    BY <1>b DEF Select, StatementRaises, Raise, OnlyMoves, Goto, Finish, ShapeOK, disk,
                memory
  <2>2. \/ pc'[t] = stage /\ job'[t].snap = db
        \/ pc'[t] = "idle"
        \/ DbFaults /\ pc'[t] = "dead"
    BY <1>b DEF Select, StatementRaises, Raise, Goto, ShapeOK, NoJob
  <2>3. Below(rows[Owner[t]], db) /\ Below(db, db)
    BY ThreadProcess DEF StayInv, Below
  <2>4. Stays(t)'
    BY <2>1, <2>2, <2>3 DEF Stays, Syncing
  <2> QED BY <2>1, <2>4, <1>a, StayQuiet
<1> "load" \in Syncing /\ "tick" \in Syncing /\ "resync" \in Syncing
  BY DEF Syncing
<1> USE ThreadProcess, ProcessAssumption
    DEF ShapeOK, LocalsSet, Thread, Goto, Finish, disk, memory
<1>1. ASSUME NEW t \in Loop, Start(t)
      PROVE  StayInv'
  <2>1. t \in Thread /\ Select(t, "load")
    BY <1>1 DEF Start
  <2> QED BY <2>1, <1>b
<1>2. ASSUME NEW t \in Loop, Tick(t)
      PROVE  StayInv'
  <2>1. t \in Thread /\ Select(t, "tick")
    BY <1>2 DEF Tick
  <2> QED BY <2>1, <1>b
<1>3. ASSUME NEW t \in Loop, RefreshDue(t)
      PROVE  StayInv'
  <2>1. t \in Thread /\ Select(t, "resync")
    BY <1>3 DEF RefreshDue
  <2> QED BY <2>1, <1>b
<1>4. ASSUME NEW t \in Loop, NotDue(t)
      PROVE  StayInv'
  <2>1. t \in Thread /\ OnlyMoves(t) /\ UNCHANGED <<db, rows>>
    BY <1>4 DEF NotDue, OnlyMoves
  <2>2. Stays(t)'
    BY <1>4, <2>1 DEF NotDue, StayInv, Stays, Syncing
  <2> QED BY <2>1, <2>2, <1>a, StayQuiet
<1>5. ASSUME NEW t \in Reloader, ForceReload(t)
      PROVE  StayInv'
  <2>1. t \in Thread /\ Select(t, "resync")
    BY <1>5 DEF ForceReload
  <2> QED BY <2>1, <1>b
<1>6. ASSUME NEW t \in Thread, ReadCache(t)
      PROVE  StayInv'
  <2>1. t \in Thread /\ OnlyMoves(t) /\ UNCHANGED <<db, rows, pc>> /\ pc[t] \in Syncing
    BY <1>6 DEF ReadCache, OnlyMoves
  <2>2. job'[t].snap = job[t].snap
    BY <1>6 DEF ReadCache, Job
  <2>3. Stays(t)'
    BY <2>1, <2>2 DEF StayInv, Stays, Syncing
  <2> QED BY <2>1, <2>3, <1>a, StayQuiet
<1>7. ASSUME NEW t \in Thread, SyncRegistry(t)
      PROVE  StayInv'
  <2>1. /\ t \in Thread /\ OnlyMoves(t) /\ UNCHANGED db /\ pc[t] \in Syncing
        /\ rows' = [rows EXCEPT ![Owner[t]] = Synced(t)]
        /\ pc'[t] \in {"idle", "decide", "pick"}
    BY <1>7 DEF SyncRegistry, Install, OnlyMoves
  <2>2. Below(rows[Owner[t]], job[t].snap) /\ Below(job[t].snap, db)
    BY <2>1 DEF StayInv, Stays
  <2>3. Below(job[t].snap, Synced(t)) /\ Below(Synced(t), job[t].snap)
    BY <2>1, SyncedSame DEF Same, Below
  <2>4. Below(rows[Owner[t]], Synced(t)) /\ Below(Synced(t), db')
    BY <2>1, <2>2, <2>3, BelowTrans
  <2>5. Stays(t)' /\ pc[t] \in Holding
    BY <2>1 DEF Stays, Syncing, Holding
  <2> QED BY <2>1, <2>4, <2>5, <1>a, StayInstalled
<1>8. ASSUME NEW t \in Thread, NextList(t)
      PROVE  StayInv'
  <2>1. t \in Thread /\ OnlyMoves(t) /\ UNCHANGED <<db, rows>>
    BY <1>8 DEF NextList, Capture, OnlyMoves
  <2>2. CASE pc'[t] = "fetch"
    <3> DEFINE i == Least(job[t].todo)
    <3>1. rows[Owner[t]][i] # None /\ job'[t] = CaptureOf(t, i, job[t].todo \ {i})
      BY <1>8, <2>2 DEF NextList, Capture, CaptureOf
    <3>2. job'[t].id = i
      BY <3>1 DEF CaptureOf, NoJob
    <3>3. Stays(t)'
      BY <2>1, <2>2, <3>1, <3>2 DEF Stays, Syncing
    <3> QED BY <2>1, <3>3, <1>a, StayQuiet
  <2>3. CASE pc'[t] # "fetch"
    <3>1. Stays(t)'
      BY <1>8, <2>3 DEF NextList, Capture, Stays, Syncing
    <3> QED BY <2>1, <3>1, <1>a, StayQuiet
  <2> QED BY <2>2, <2>3
<1>9. ASSUME NEW t \in Thread, FetchFails(t)
      PROVE  StayInv'
  <2>1. t \in Thread /\ OnlyMoves(t) /\ UNCHANGED <<db, rows>>
    BY <1>9 DEF FetchFails, OnlyMoves
  <2>2. Stays(t)'
    BY <1>9, <2>1 DEF FetchFails, StayInv, Stays, Syncing
  <2> QED BY <2>1, <2>2, <1>a, StayQuiet
<1>10. ASSUME NEW t \in Thread, FetchSucceeds(t)
      PROVE  StayInv'
  <2>1. t \in Thread /\ OnlyMoves(t) /\ UNCHANGED <<db, rows>>
    BY <1>10 DEF FetchSucceeds, OnlyMoves
  <2>2. job'[t].id = job[t].id
    BY <1>10 DEF FetchSucceeds, Job
  <2>3. Stays(t)'
    BY <1>10, <2>1, <2>2 DEF FetchSucceeds, StayInv, Stays, Syncing
  <2> QED BY <2>1, <2>3, <1>a, StayQuiet
<1>11. ASSUME NEW t \in Thread, NotModified(t)
      PROVE  StayInv'
  <2>1. t \in Thread /\ OnlyMoves(t) /\ UNCHANGED <<db, rows>>
    BY <1>11 DEF NotModified, OnlyMoves, Raise
  <2>2. Stays(t)'
    BY <1>11, <2>1 DEF NotModified, StayInv, Stays, Syncing, Raise
  <2> QED BY <2>1, <2>2, <1>a, StayQuiet
<1>12. ASSUME NEW t \in Thread, CommitRefresh(t)
      PROVE  StayInv'
  <2> DEFINE i == job[t].id
  <2>1. /\ t \in Thread /\ OnlyMoves(t) /\ UNCHANGED rows /\ i \in Id
    BY <1>12 DEF CommitRefresh, Raise, OnlyMoves
  <2>2. rows[Owner[t]][i] # None
    BY <1>12 DEF CommitRefresh, StayInv, Stays
  <2>3. db[i] # None
    BY <2>1, <2>2 DEF StayInv, Below
  <2>4. Below(db, db')
    <3>1. db' = [db EXCEPT ![i].etag = TagOf(job[t].content)]
      BY <1>12, <2>3 DEF CommitRefresh
    <3>2. TagOf(job[t].content) \in 0 .. MaxVersion
      BY <1>12, TagTyped DEF CommitRefresh
    <3> QED BY <2>1, <2>3, <3>1, <3>2, EtagSame, SameBelow
  <2>5. Stays(t)'
    BY <1>12, <2>2 DEF CommitRefresh, Stays, Syncing
  <2> QED BY <2>1, <2>4, <2>5, StayQuiet
<1>13. ASSUME NEW t \in Thread, FinishRefresh(t)
      PROVE  StayInv'
  <2> DEFINE i == job[t].id
             q == Owner[t]
             table == [rows[q] EXCEPT ![i].etag = TagOf(job[t].content)]
  <2>1. /\ t \in Thread /\ OnlyMoves(t) /\ UNCHANGED db /\ q \in Process
        /\ pc[t] = "write" /\ pc[t] \in Holding /\ pc'[t] = "pick"
    BY <1>13 DEF FinishRefresh, OnlyMoves, Holding
  <2>2. rows' = [rows EXCEPT ![q] = table]
    BY <1>13 DEF FinishRefresh, Install
  <2>3. Below(rows[q], table) /\ Below(table, rows[q])
    <3>1. rows[q] \in Table /\ i \in Id /\ rows[q][i] # None
      BY <2>1
    <3>2. TagOf(job[t].content) \in 0 .. MaxVersion
      BY <2>1, TagTyped
    <3>3. Same(rows[q], table) /\ Same(table, rows[q])
      BY <3>1, <3>2, EtagSame
    <3> HIDE DEF table
    <3> QED BY <3>3, SameBelow
  <2>4. Below(rows[q], db)
    BY <2>1 DEF StayInv
  <2>5. Stays(t)'
    BY <2>1 DEF Stays, Syncing
  <2> HIDE DEF table
  <2>6. Below(table, db')
    BY <2>1, <2>3, <2>4, BelowTrans
  <2> QED BY <2>1, <2>2, <2>3, <2>5, <2>6, <1>a, StayInstalled
<1>14. ASSUME NEW t \in Handler, NEW u \in Url, AddList(t, u)
      PROVE  StayInv'
  <2>1. t \in Thread /\ OnlyMoves(t) /\ UNCHANGED <<db, rows>>
    BY <1>14 DEF AddList, OnlyMoves, Command
  <2>2. Stays(t)'
    BY <1>14, <2>1 DEF AddList, StayInv, Stays, Syncing, Command
  <2> QED BY <2>1, <2>2, <1>a, StayQuiet
<1>15. ASSUME NEW t \in Handler, AddFails(t)
      PROVE  StayInv'
  <2>1. t \in Thread /\ OnlyMoves(t) /\ UNCHANGED <<db, rows>>
    BY <1>15 DEF AddFails, OnlyMoves
  <2>2. Stays(t)'
    BY <1>15, <2>1 DEF AddFails, StayInv, Stays, Syncing
  <2> QED BY <2>1, <2>2, <1>a, StayQuiet
<1>16. ASSUME NEW t \in Handler, AddFetched(t)
      PROVE  StayInv'
  <2>1. t \in Thread /\ OnlyMoves(t) /\ UNCHANGED <<db, rows>>
    BY <1>16 DEF AddFetched, OnlyMoves
  <2>2. Stays(t)'
    BY <1>16, <2>1 DEF AddFetched, StayInv, Stays, Syncing
  <2> QED BY <2>1, <2>2, <1>a, StayQuiet
<1>17. ASSUME NEW t \in Handler, InsertConflict(t)
      PROVE  StayInv'
  <2>1. t \in Thread /\ OnlyMoves(t) /\ UNCHANGED <<db, rows>>
    BY <1>17 DEF InsertConflict, OnlyMoves
  <2>2. Stays(t)'
    BY <1>17, <2>1 DEF InsertConflict, StayInv, Stays, Syncing
  <2> QED BY <2>1, <2>2, <1>a, StayQuiet
<1>18. ASSUME NEW t \in Handler, InsertRow(t)
      PROVE  StayInv'
  <2>1. /\ t \in Thread /\ OnlyMoves(t) /\ UNCHANGED rows /\ pc'[t] = "add_write"
    BY <1>18 DEF InsertRow, OnlyMoves
  <2>2. nextId \in Id
    BY <1>18, BoundAssumption DEF InsertRow, Id
  <2>3. job'[t].id = nextId
    BY <1>18, <2>1, <2>2 DEF InsertRow, Job
  <2>4. db'[nextId] # None
    <3>1. /\ job[t].url \in Url /\ TagOf(job[t].content) \in 0 .. MaxVersion
      BY <1>18, <2>1, TagTyped DEF InsertRow
    <3>2. PICK e \in BOOLEAN : db'[nextId] = [url |-> job[t].url, enabled |-> e,
                                              etag |-> TagOf(job[t].content)]
      BY <1>18, <2>2 DEF InsertRow, Table
    <3>3. db'[nextId] \in Row
      BY <3>1, <3>2 DEF Row
    <3> QED BY <3>3, NoneAssumption
  <2>5. \A j \in Id \ {nextId} : db'[j] = db[j]
    BY <1>18 DEF InsertRow, Table
  <2>6. Below(db, db')
    BY <2>4, <2>5 DEF Below
  <2>7. Stays(t)'
    BY <2>1, <2>3, <2>4, ProcessAssumption DEF Stays, Syncing
  <2> QED BY <2>1, <2>6, <2>7, StayQuiet
<1>19. ASSUME NEW t \in Handler, FinishAdd(t)
      PROVE  StayInv'
  <2> DEFINE i == job[t].id
             q == Owner[t]
             table == [rows[q] EXCEPT ![i] = job[t].snap[i]]
  <2>1. /\ t \in Thread /\ OnlyMoves(t) /\ UNCHANGED db /\ q \in Process /\ i \in Id
        /\ pc[t] = "add_write" /\ pc[t] \in Holding /\ pc'[t] = "idle"
    BY <1>19 DEF FinishAdd, OnlyMoves, Holding
  <2>2. rows' = [rows EXCEPT ![q] = table]
    BY <1>19 DEF FinishAdd, Install
  <2>3. job[t].snap[i] # None /\ db[i] # None /\ Below(rows[q], db)
    BY <2>1 DEF HeldInv, HeldId, StayInv, Stays
  <2>4. Below(rows[q], table) /\ Below(table, db')
    BY <2>1, <2>3 DEF Below, Table
  <2>5. Stays(t)'
    BY <2>1 DEF Stays, Syncing
  <2> HIDE DEF table
  <2> QED BY <2>1, <2>2, <2>4, <2>5, <1>a, StayInstalled
<1>20. ASSUME NEW t \in Handler, NEW i \in Id, RemoveList(t, i)
      PROVE  StayInv'
  BY <1>20 DEF RemoveList, Command
<1>21. ASSUME NEW t \in Handler, FinishRemove(t)
      PROVE  StayInv'
  BY <1>21 DEF FinishRemove, StayInv, Stays
<1>22. ASSUME NEW t \in Handler, NEW i \in Id, NEW e \in BOOLEAN, SetEnabled(t, i, e)
      PROVE  StayInv'
  <2> DEFINE q == Owner[t]
             table == [rows[q] EXCEPT ![i].enabled = e]
  <2>1. /\ t \in Thread /\ OnlyMoves(t) /\ q \in Process /\ UNCHANGED <<pc, job>>
        /\ LockFree(t) /\ pc[t] = "idle"
    BY <1>22 DEF SetEnabled, Command, OnlyMoves
  <2>2. /\ rows' = [rows EXCEPT ![q] = table]
        /\ rows[q] \in Table /\ rows[q][i] # None
    BY <1>22, <2>1 DEF SetEnabled, Install
  <2>3. Below(rows[q], db)
    BY <2>1 DEF StayInv
  <2>4. db[i] # None /\ db' = [db EXCEPT ![i].enabled = e]
    BY <1>22, <2>2, <2>3 DEF SetEnabled, Below
  <2>5. Below(db, db') /\ Below(rows[q], table) /\ Below(table, rows[q])
    BY <2>2, <2>4, FlagBelow
  <2>6. Stays(t)'
    BY <2>1 DEF Stays, Syncing
  <2> HIDE DEF table
  <2>7. Below(table, db')
    BY <2>3, <2>5, BelowTrans
  <2> QED BY <2>1, <2>2, <2>5, <2>6, <2>7, StayInstalled
<1>23. ASSUME NEW t \in Handler, NEW i \in Id, RefreshOne(t, i)
      PROVE  StayInv'
  <2>1. t \in Thread /\ OnlyMoves(t) /\ UNCHANGED <<db, rows>> /\ pc'[t] = "fetch"
    BY <1>23 DEF RefreshOne, Command, Capture, OnlyMoves
  <2>2. rows[Owner[t]][i] # None /\ job'[t] = CaptureOf(t, i, {})
    BY <1>23 DEF RefreshOne, Capture, CaptureOf
  <2>3. job'[t].id = i
    BY <2>2 DEF CaptureOf, NoJob
  <2>4. Stays(t)'
    BY <2>1, <2>2, <2>3 DEF Stays, Syncing
  <2> QED BY <2>1, <2>4, <1>a, StayQuiet
<1>24. ASSUME NEW t \in Handler, RefreshAll(t)
      PROVE  StayInv'
  <2>1. t \in Thread /\ Select(t, "resync")
    BY <1>24 DEF RefreshAll
  <2> QED BY <2>1, <1>b
<1>25. ASSUME NEW u \in Url, Publish(u)
      PROVE  StayInv'
  BY <1>25 DEF Publish, StayInv, Stays
<1>26. ASSUME NEW p \in Process, Crash(p)
      PROVE  StayInv'
  <2>1. /\ UNCHANGED db
        /\ \A q \in Process : rows'[q] = EmptyTable \/ rows'[q] = rows[q]
        /\ \A q \in Process \ {p} : rows'[q] = rows[q]
    BY <1>26 DEF Crash
  <2>2. \A q \in Process : Below(rows'[q], db')
    BY <2>1 DEF StayInv, Below, EmptyTable
  <2>3. ASSUME NEW s \in Thread PROVE Stays(s)'
    <3>1. CASE Owner[s] = p
      BY <1>26, <3>1 DEF Crash, Stays, Syncing
    <3>2. CASE Owner[s] # p
      BY <1>26, <2>1, <3>2 DEF Crash, StayInv, Stays
    <3> QED BY <3>1, <3>2
  <2> QED BY <2>2, <2>3 DEF StayInv
<1>27. CASE UNCHANGED vars
  BY <1>27 DEF vars, StayInv, Stays
<1>28. ASSUME NEW t \in Thread, CommitRaises(t)
      PROVE  StayInv'
  <2>1. t \in Thread /\ OnlyMoves(t) /\ UNCHANGED <<db, rows>>
    BY <1>28 DEF CommitRaises, StatementRaises, Raise, OnlyMoves
  <2>2. Stays(t)'
    BY <1>28, <2>1 DEF CommitRaises, StatementRaises, Raise, Stays, Syncing
  <2> QED BY <2>1, <2>2, <1>a, StayQuiet
<1> HIDE DEF ShapeOK, LocalsSet, Thread
<1> QED
  BY <1>1, <1>2, <1>3, <1>4, <1>5, <1>6, <1>7, <1>8, <1>9, <1>10, <1>11, <1>12,
     <1>13, <1>14, <1>15, <1>16, <1>17, <1>18, <1>19, <1>20, <1>21, <1>22, <1>23,
     <1>24, <1>25, <1>26, <1>27, <1>28
     DEF Next, SyncStep, RefreshStep, AddStep, Request

\* Without removals the table grows throughout.
LEMMA StayAlways ==
    ASSUME "remove" \notin Commands
    PROVE  Spec => []StayInv
<1>1. Init => StayInv
  <2> SUFFICES ASSUME Init PROVE StayInv
    OBVIOUS
  <2>1. /\ \A p \in Process : rows[p] = EmptyTable
        /\ \A t \in Thread : pc[t] = "idle"
    BY DEF Init
  <2> QED BY <2>1 DEF StayInv, Stays, Below, EmptyTable, Syncing
<1>2. HoldsInv /\ StayInv /\ [Next]_vars => StayInv'
  BY StayStep DEF HoldsInv
<1> QED BY <1>1, <1>2, HoldsAlways, PTL DEF Spec

\* A KeyError ends no thread unless a list is removed: without removals every
\* refresh, of a loop or of a request, finds the row it captured, whatever
\* fails, restarts or races.
THEOREM OnlyRemovalLosesRow ==
    ASSUME "remove" \notin Commands
    PROVE  Spec => [](\A t \in Thread : RowAwaited(t))
<1>1. StayInv => \A t \in Thread : RowAwaited(t)
  BY DEF StayInv, Stays, RowAwaited
<1> QED BY <1>1, StayAlways, PTL

\* Removals and statements that raise are the only two things that end a refresh
\* loop: failed downloads and cache files, restarts, races of other requests and
\* of other processes never do.
THEOREM RemovalOrRefusalEndsLoop ==
    ASSUME "remove" \notin Commands, DbFaults = FALSE
    PROVE  Spec => []LoopSurvives
<1>1. StayInv => LoopSurvives
  BY DEF StayInv, Stays, LoopSurvives, Thread
<1> QED BY <1>1, StayAlways, PTL

-----------------------------------------------------------------------------
(***************************************************************************)
(* Fail open across restarts: where cache files can be written and read, a *)
(* list that a process has served is in its cache file as long as it is    *)
(* registered, and a process that learns of it again reads it from there.  *)
(***************************************************************************)
Backed(i) == i < nextId /\ (db[i] # None => cache[i] # None)

\* domains in memory, or read and about to be, have a cache file behind them
BackedInv ==
    /\ \A p \in Process, i \in Id : doms[p][i] # None => rows[p][i] # None /\ Backed(i)
    /\ \A t \in Thread, i \in Id : job[t].read[i] # None => Backed(i)

\* thread t is not about to put list i in memory without its domains
FindsDomains(t, i) ==
    pc[t] \in Syncing /\ i \in job[t].seen
      => job[t].read[i] # None \/ rows[Owner[t]][i] # None

\* whatever comes, process p has the domains of list i when it lists it
Durable(p, i) ==
    /\ Backed(i)
    /\ db[i] # None =>
         /\ rows[p][i] # None => doms[p][i] # None
         /\ \A t \in Thread : Owner[t] = p => FindsDomains(t, i)

\* only t moves, and not in the middle of the walk over its snapshot
Quiet(t) ==
    /\ OnlyMoves(t)
    /\ job'[t].read \in {job[t].read, EmptyTable}
    /\ pc'[t] \in Syncing => job'[t].seen = {}

Installs(t) ==
    \/ SyncRegistry(t) \/ FinishRefresh(t)
    \/ t \in Handler /\ (FinishAdd(t) \/ FinishRemove(t))
    \/ \E i \in Id, e \in BOOLEAN : t \in Handler /\ SetEnabled(t, i, e)

StepKind ==
    \/ UNCHANGED <<rows, doms, pc, job>>
    \/ \E t \in Thread : Quiet(t) /\ (UNCHANGED <<rows, doms>> \/ Installs(t))
    \/ \E t \in Thread : ReadCache(t)
    \/ \E p \in Process : Crash(p)

\* An id is given out once: a list that was removed does not come back.
LEMMA IdsGoUp ==
    TypeOK /\ [Next]_vars
      => nextId <= nextId' /\ \A i \in Id : i < nextId /\ db[i] = None => db'[i] = None
<1> DEFINE Goal == /\ nextId <= nextId'
                   /\ \A i \in Id : i < nextId /\ db[i] = None => db'[i] = None
<1> SUFFICES ASSUME TypeOK, [Next]_vars PROVE Goal
  OBVIOUS
<1> db \in Table /\ nextId \in Nat /\ Id \in SUBSET Nat
  BY BoundAssumption DEF TypeOK, ShapeOK, Id
<1> USE DEF disk, Table
<1>1. ASSUME NEW t \in Loop, Start(t)
      PROVE  Goal
  BY <1>1 DEF Start, Select
<1>2. ASSUME NEW t \in Loop, Tick(t)
      PROVE  Goal
  BY <1>2 DEF Tick, Select, StatementRaises
<1>3. ASSUME NEW t \in Loop, RefreshDue(t)
      PROVE  Goal
  BY <1>3 DEF RefreshDue, Select, StatementRaises
<1>4. ASSUME NEW t \in Loop, NotDue(t)
      PROVE  Goal
  BY <1>4 DEF NotDue
<1>5. ASSUME NEW t \in Reloader, ForceReload(t)
      PROVE  Goal
  BY <1>5 DEF ForceReload, Select, StatementRaises
<1>6. ASSUME NEW t \in Thread, ReadCache(t)
      PROVE  Goal
  BY <1>6 DEF ReadCache
<1>7. ASSUME NEW t \in Thread, SyncRegistry(t)
      PROVE  Goal
  BY <1>7 DEF SyncRegistry
<1>8. ASSUME NEW t \in Thread, NextList(t)
      PROVE  Goal
  BY <1>8 DEF NextList
<1>9. ASSUME NEW t \in Thread, FetchFails(t)
      PROVE  Goal
  BY <1>9 DEF FetchFails
<1>10. ASSUME NEW t \in Thread, FetchSucceeds(t)
      PROVE  Goal
  BY <1>10 DEF FetchSucceeds
<1>11. ASSUME NEW t \in Thread, NotModified(t)
      PROVE  Goal
  BY <1>11 DEF NotModified
<1>12. ASSUME NEW t \in Thread, CommitRefresh(t)
      PROVE  Goal
  BY <1>12 DEF CommitRefresh
<1>13. ASSUME NEW t \in Thread, FinishRefresh(t)
      PROVE  Goal
  BY <1>13 DEF FinishRefresh
<1>14. ASSUME NEW t \in Handler, NEW u \in Url, AddList(t, u)
      PROVE  Goal
  BY <1>14 DEF AddList
<1>15. ASSUME NEW t \in Handler, AddFails(t)
      PROVE  Goal
  BY <1>15 DEF AddFails
<1>16. ASSUME NEW t \in Handler, AddFetched(t)
      PROVE  Goal
  BY <1>16 DEF AddFetched
<1>17. ASSUME NEW t \in Handler, InsertConflict(t)
      PROVE  Goal
  BY <1>17 DEF InsertConflict
<1>18. ASSUME NEW t \in Handler, InsertRow(t)
      PROVE  Goal
  BY <1>18 DEF InsertRow
<1>19. ASSUME NEW t \in Handler, FinishAdd(t)
      PROVE  Goal
  BY <1>19 DEF FinishAdd
<1>20. ASSUME NEW t \in Handler, NEW i \in Id, RemoveList(t, i)
      PROVE  Goal
  BY <1>20 DEF RemoveList
<1>21. ASSUME NEW t \in Handler, FinishRemove(t)
      PROVE  Goal
  BY <1>21 DEF FinishRemove
<1>22. ASSUME NEW t \in Handler, NEW i \in Id, NEW e \in BOOLEAN, SetEnabled(t, i, e)
      PROVE  Goal
  BY <1>22 DEF SetEnabled
<1>23. ASSUME NEW t \in Handler, NEW i \in Id, RefreshOne(t, i)
      PROVE  Goal
  BY <1>23 DEF RefreshOne
<1>24. ASSUME NEW t \in Handler, RefreshAll(t)
      PROVE  Goal
  BY <1>24 DEF RefreshAll, Select, StatementRaises
<1>25. ASSUME NEW u \in Url, Publish(u)
      PROVE  Goal
  BY <1>25 DEF Publish
<1>26. ASSUME NEW p \in Process, Crash(p)
      PROVE  Goal
  BY <1>26 DEF Crash
<1>27. CASE UNCHANGED vars
  BY <1>27 DEF vars
<1>28. ASSUME NEW t \in Thread, CommitRaises(t)
      PROVE  Goal
  BY <1>28 DEF CommitRaises, StatementRaises
<1> HIDE DEF Goal
<1> QED
  BY <1>1, <1>2, <1>3, <1>4, <1>5, <1>6, <1>7, <1>8, <1>9, <1>10, <1>11, <1>12,
     <1>13, <1>14, <1>15, <1>16, <1>17, <1>18, <1>19, <1>20, <1>21, <1>22, <1>23,
     <1>24, <1>25, <1>26, <1>27, <1>28
     DEF Next, SyncStep, RefreshStep, AddStep, Request
\* Every step changes the managers, the walk of one thread, or neither.
LEMMA StepKinds == TypeOK /\ [Next]_vars => StepKind
<1> SUFFICES ASSUME TypeOK, [Next]_vars PROVE StepKind
  OBVIOUS
<1> ShapeOK
  BY DEF TypeOK
<1>q. ASSUME NEW t \in Thread, Quiet(t), UNCHANGED <<rows, doms>> \/ Installs(t)
      PROVE  StepKind
  BY <1>q DEF StepKind
<1> USE DEF ShapeOK, Job, Thread, Syncing, Goto, Finish, Quiet, OnlyMoves, NoJob, memory
<1>1. ASSUME NEW t \in Loop, Start(t)
      PROVE  StepKind
  <2>1. t \in Thread /\ Quiet(t) /\ UNCHANGED <<rows, doms>>
    BY <1>1 DEF Start, Select
  <2> QED BY <2>1, <1>q
<1>2. ASSUME NEW t \in Loop, Tick(t)
      PROVE  StepKind
  <2>1. t \in Thread /\ Quiet(t) /\ UNCHANGED <<rows, doms>>
    BY <1>2 DEF Tick, Select, StatementRaises, Raise
  <2> QED BY <2>1, <1>q
<1>3. ASSUME NEW t \in Loop, RefreshDue(t)
      PROVE  StepKind
  <2>1. t \in Thread /\ Quiet(t) /\ UNCHANGED <<rows, doms>>
    BY <1>3 DEF RefreshDue, Select, StatementRaises, Raise
  <2> QED BY <2>1, <1>q
<1>4. ASSUME NEW t \in Loop, NotDue(t)
      PROVE  StepKind
  <2>1. t \in Thread /\ Quiet(t) /\ UNCHANGED <<rows, doms>>
    BY <1>4 DEF NotDue
  <2> QED BY <2>1, <1>q
<1>5. ASSUME NEW t \in Reloader, ForceReload(t)
      PROVE  StepKind
  <2>1. t \in Thread /\ Quiet(t) /\ UNCHANGED <<rows, doms>>
    BY <1>5 DEF ForceReload, Select, StatementRaises, Raise
  <2> QED BY <2>1, <1>q
<1>6. ASSUME NEW t \in Thread, ReadCache(t)
      PROVE  StepKind
  BY <1>6 DEF StepKind
<1>7. ASSUME NEW t \in Thread, SyncRegistry(t)
      PROVE  StepKind
  <2>1. t \in Thread /\ Quiet(t)
    BY <1>7 DEF SyncRegistry
  <2>2. Installs(t)
    BY <1>7 DEF Installs
  <2> QED BY <2>1, <2>2, <1>q
<1>8. ASSUME NEW t \in Thread, NextList(t)
      PROVE  StepKind
  <2>1. OnlyMoves(t) /\ UNCHANGED <<rows, doms>> /\ pc'[t] \notin Syncing
    BY <1>8 DEF NextList, Capture
  <2>2. job'[t].read \in {job[t].read, EmptyTable}
    <3> DEFINE i == Least(job[t].todo)
    <3>1. CASE pc'[t] = "fetch"
      <4>1. job'[t] = CaptureOf(t, i, job[t].todo \ {i})
        BY <1>8, <3>1 DEF NextList, Capture, CaptureOf
      <4> QED BY <4>1 DEF CaptureOf
    <3>2. CASE pc'[t] # "fetch"
      BY <1>8, <3>2 DEF NextList, Capture
    <3> QED BY <3>1, <3>2
  <2> QED BY <2>1, <2>2, <1>q
<1>9. ASSUME NEW t \in Thread, FetchFails(t)
      PROVE  StepKind
  <2>1. t \in Thread /\ Quiet(t) /\ UNCHANGED <<rows, doms>>
    BY <1>9 DEF FetchFails
  <2> QED BY <2>1, <1>q
<1>10. ASSUME NEW t \in Thread, FetchSucceeds(t)
      PROVE  StepKind
  <2>1. t \in Thread /\ Quiet(t) /\ UNCHANGED <<rows, doms>>
    BY <1>10 DEF FetchSucceeds
  <2> QED BY <2>1, <1>q
<1>11. ASSUME NEW t \in Thread, NotModified(t)
      PROVE  StepKind
  <2>1. t \in Thread /\ Quiet(t) /\ UNCHANGED <<rows, doms>>
    BY <1>11 DEF NotModified, Raise
  <2> QED BY <2>1, <1>q
<1>12. ASSUME NEW t \in Thread, CommitRefresh(t)
      PROVE  StepKind
  <2>1. t \in Thread /\ Quiet(t) /\ UNCHANGED <<rows, doms>>
    BY <1>12 DEF CommitRefresh, Raise
  <2> QED BY <2>1, <1>q
<1>13. ASSUME NEW t \in Thread, FinishRefresh(t)
      PROVE  StepKind
  <2>1. t \in Thread /\ Quiet(t)
    BY <1>13 DEF FinishRefresh
  <2>2. Installs(t)
    BY <1>13 DEF Installs
  <2> QED BY <2>1, <2>2, <1>q
<1>14. ASSUME NEW t \in Handler, NEW u \in Url, AddList(t, u)
      PROVE  StepKind
  <2>1. t \in Thread /\ Quiet(t) /\ UNCHANGED <<rows, doms>>
    BY <1>14 DEF AddList, Command
  <2> QED BY <2>1, <1>q
<1>15. ASSUME NEW t \in Handler, AddFails(t)
      PROVE  StepKind
  <2>1. t \in Thread /\ Quiet(t) /\ UNCHANGED <<rows, doms>>
    BY <1>15 DEF AddFails
  <2> QED BY <2>1, <1>q
<1>16. ASSUME NEW t \in Handler, AddFetched(t)
      PROVE  StepKind
  <2>1. t \in Thread /\ Quiet(t) /\ UNCHANGED <<rows, doms>>
    BY <1>16 DEF AddFetched
  <2> QED BY <2>1, <1>q
<1>17. ASSUME NEW t \in Handler, InsertConflict(t)
      PROVE  StepKind
  <2>1. t \in Thread /\ Quiet(t) /\ UNCHANGED <<rows, doms>>
    BY <1>17 DEF InsertConflict
  <2> QED BY <2>1, <1>q
<1>18. ASSUME NEW t \in Handler, InsertRow(t)
      PROVE  StepKind
  <2>1. t \in Thread /\ Quiet(t) /\ UNCHANGED <<rows, doms>>
    BY <1>18 DEF InsertRow
  <2> QED BY <2>1, <1>q
<1>19. ASSUME NEW t \in Handler, FinishAdd(t)
      PROVE  StepKind
  <2>1. t \in Thread /\ Quiet(t)
    BY <1>19 DEF FinishAdd
  <2>2. Installs(t)
    BY <1>19 DEF Installs
  <2> QED BY <2>1, <2>2, <1>q
<1>20. ASSUME NEW t \in Handler, NEW i \in Id, RemoveList(t, i)
      PROVE  StepKind
  <2>1. t \in Thread /\ Quiet(t) /\ UNCHANGED <<rows, doms>>
    BY <1>20 DEF RemoveList, Command
  <2> QED BY <2>1, <1>q
<1>21. ASSUME NEW t \in Handler, FinishRemove(t)
      PROVE  StepKind
  <2>1. t \in Thread /\ Quiet(t)
    BY <1>21 DEF FinishRemove
  <2>2. Installs(t)
    BY <1>21 DEF Installs
  <2> QED BY <2>1, <2>2, <1>q
<1>22. ASSUME NEW t \in Handler, NEW i \in Id, NEW e \in BOOLEAN, SetEnabled(t, i, e)
      PROVE  StepKind
  <2>1. t \in Thread /\ Quiet(t)
    BY <1>22 DEF SetEnabled, Command
  <2>2. Installs(t)
    BY <1>22 DEF Installs
  <2> QED BY <2>1, <2>2, <1>q
<1>23. ASSUME NEW t \in Handler, NEW i \in Id, RefreshOne(t, i)
      PROVE  StepKind
  <2>1. t \in Thread /\ Quiet(t) /\ UNCHANGED <<rows, doms>>
    BY <1>23 DEF RefreshOne, Command, Capture
  <2> QED BY <2>1, <1>q
<1>24. ASSUME NEW t \in Handler, RefreshAll(t)
      PROVE  StepKind
  <2>1. t \in Thread /\ Quiet(t) /\ UNCHANGED <<rows, doms>>
    BY <1>24 DEF RefreshAll, Command, Select, StatementRaises, Raise
  <2> QED BY <2>1, <1>q
<1>25. ASSUME NEW u \in Url, Publish(u)
      PROVE  StepKind
  BY <1>25 DEF StepKind, Publish
<1>26. ASSUME NEW p \in Process, Crash(p)
      PROVE  StepKind
  BY <1>26 DEF StepKind
<1>27. CASE UNCHANGED vars
  BY <1>27 DEF vars, StepKind
<1>28. ASSUME NEW t \in Thread, CommitRaises(t)
      PROVE  StepKind
  <2>1. t \in Thread /\ Quiet(t) /\ UNCHANGED <<rows, doms>>
    BY <1>28 DEF CommitRaises, StatementRaises, Raise
  <2> QED BY <2>1, <1>q
<1> HIDE DEF ShapeOK, Job, Thread, Quiet
<1> QED
  BY <1>1, <1>2, <1>3, <1>4, <1>5, <1>6, <1>7, <1>8, <1>9, <1>10, <1>11, <1>12,
     <1>13, <1>14, <1>15, <1>16, <1>17, <1>18, <1>19, <1>20, <1>21, <1>22, <1>23,
     <1>24, <1>25, <1>26, <1>27, <1>28
     DEF Next, SyncStep, RefreshStep, AddStep, Request
\* A cache file stays as long as its list.
LEMMA BackedStays ==
    ASSUME TypeOK, HeldInv, [Next]_vars, NEW i \in Id, Backed(i)
    PROVE  Backed(i)'
<1>1. Retains /\ nextId <= nextId' /\ (db[i] = None => db'[i] = None)
  BY RetainStep, IdsGoUp DEF Backed
<1>2. nextId \in Int /\ nextId' \in Int /\ i \in Int
  BY ShapeStep, BoundAssumption DEF TypeOK, ShapeOK, Id
<1>3. i < nextId'
  BY <1>1, <1>2 DEF Backed
<1> QED BY <1>1, <1>3 DEF Retains, Backed

\* An id that has been given out for a URL is below the next one.
LEMMA GivenOut ==
    ASSUME TypeOK, OwnInv, NEW i \in Id, owner[i] # None
    PROVE  i < nextId
BY BoundAssumption DEF TypeOK, ShapeOK, OwnInv, Fresh, Id

\* A download that is filed leaves a cache file, where files can be written.
LEMMA FiledBacked ==
    ASSUME TypeOK, OwnInv, DiskFaults = FALSE, NEW t \in Thread,
           pc[t] \in {"write", "add_write"}, NEW i, i = job[t].id,
           WriteCache(i, job[t].content), UNCHANGED <<db, nextId>>
    PROVE  i \in Id /\ job[t].content # None /\ Backed(i)'
<1> DEFINE c == job[t].content
<1>1. i \in Id /\ c \in Content /\ c.url = owner[i] /\ cache \in Sets
  BY DEF TypeOK, LocalsSet, ShapeOK, OwnInv, OwnJob
<1>2. owner[i] # None /\ c # None
  BY <1>1, NoneAssumption DEF Content
<1>3. i < nextId
  BY <1>1, <1>2, GivenOut
<1>4. cache'[i] = c
  BY <1>1 DEF WriteCache, Sets
<1> QED BY <1>1, <1>2, <1>3, <1>4 DEF Backed

\* what the manager of t's process gets has a cache file behind it
Covered(table, sets) ==
    \A i \in Id : sets[i] # None => table[i] # None /\ Backed(i)'

\* ... and the domains of every list whose domains are to last
Lasting(t, table, sets) ==
    \A i \in Id : Durable(Owner[t], i) /\ db'[i] # None /\ table[i] # None
                    => sets[i] # None

\* t installs such a table, having locked the others of its process out
Gets(t, table, sets) ==
    /\ rows' = [rows EXCEPT ![Owner[t]] = table]
    /\ doms' = [doms EXCEPT ![Owner[t]] = sets]
Installing(t) ==
    \E table, sets :
      Gets(t, table, sets) /\ Covered(table, sets) /\ Lasting(t, table, sets)
LockedOut(t) == \A s \in Thread \ {t} : Owner[s] = Owner[t] => pc[s] \notin Syncing

\* the conditions of the two invariants' lemmas
Known == /\ TypeOK /\ LockDiscipline /\ HeldInv /\ OwnInv /\ BackedInv
         /\ DiskFaults = FALSE

\* The five actions that change a manager install such tables.
LEMMA InstallsCovered ==
    ASSUME Known, [Next]_vars, NEW t \in Thread, Installs(t)
    PROVE  Installing(t) /\ LockedOut(t)
<1> DEFINE q == Owner[t]
<1> PICK c : c = job[t].content
  OBVIOUS
<1>1. /\ q \in Process /\ rows[q] \in Table /\ doms[q] \in Sets
      /\ TypeOK /\ ShapeOK /\ LocalsSet /\ HeldInv /\ OwnInv /\ BackedInv
      /\ LockDiscipline /\ None \notin Thread
  BY ThreadProcess, NoneAssumption DEF Known, TypeOK, ShapeOK
<1>2. \A i \in Id : doms[q][i] # None => rows[q][i] # None /\ Backed(i)'
  BY <1>1, BackedStays DEF BackedInv
<1>3. ASSUME pc[t] \in Holding \/ LockFree(t) PROVE LockedOut(t)
  <2> SUFFICES ASSUME NEW s \in Thread, s # t, Owner[s] = Owner[t], pc[s] \in Syncing
               PROVE  FALSE
    BY DEF LockedOut
  <2>1. lock[Owner[s]] = s
    BY <1>1 DEF LockDiscipline, Holding
  <2> QED BY <1>1, <1>3, <2>1 DEF LockDiscipline, LockFree
<1> HIDE DEF q
<1>5. CASE SyncRegistry(t)
  <2>1. pc[t] \in Syncing /\ Unknown(t) \subseteq job[t].seen /\ UNCHANGED db
    BY <1>5 DEF SyncRegistry, disk
  <2>2. LockedOut(t)
    BY <1>3, <2>1 DEF Holding
  <2>3. ASSUME NEW i \in Id, SyncedDomains(t)[i] # None
        PROVE  Synced(t)[i] # None /\ Backed(i)'
    <3>1. job[t].snap[i] # None
      BY <2>3 DEF SyncedDomains
    <3>2. Synced(t)[i] # None
      BY <1>1, <3>1, SyncedSame DEF Same
    <3>3. CASE i \in Unknown(t)
      <4>1. job[t].read[i] # None
        BY <2>3, <3>1, <3>3 DEF SyncedDomains
      <4> QED BY <1>1, <3>2, <4>1, BackedStays DEF BackedInv
    <3>4. CASE i \notin Unknown(t)
      <4>1. doms[q][i] # None
        BY <2>3, <3>1, <3>4 DEF SyncedDomains, q
      <4> QED BY <1>2, <3>2, <4>1
    <3> QED BY <3>3, <3>4
  <2>4. ASSUME NEW i \in Id, Durable(q, i), db'[i] # None, Synced(t)[i] # None
        PROVE  SyncedDomains(t)[i] # None
    <3>1. job[t].snap[i] # None
      BY <2>4 DEF Synced
    <3>2. /\ rows[q][i] # None => doms[q][i] # None
          /\ FindsDomains(t, i)
      BY <2>1, <2>4 DEF Durable, q
    <3>3. CASE rows[q][i] = None
      <4>1. i \in Unknown(t)
        BY <3>1, <3>3 DEF Unknown, Listed, q
      <4>2. job[t].read[i] # None
        BY <2>1, <3>2, <3>3, <4>1 DEF FindsDomains, q
      <4> QED BY <3>1, <4>1, <4>2 DEF SyncedDomains
    <3>4. CASE rows[q][i] # None
      <4>1. i \notin Unknown(t)
        BY <3>4 DEF Unknown, Listed, q
      <4> QED BY <3>1, <3>2, <3>4, <4>1 DEF SyncedDomains, q
    <3> QED BY <3>3, <3>4
  <2>6. CASE Install(t, Synced(t), SyncedDomains(t))
    <3>1. PICK table, sets : table = Synced(t) /\ sets = SyncedDomains(t)
      OBVIOUS
    <3>2. Gets(t, table, sets)
      BY <2>6, <3>1 DEF Install, q, Gets
    <3>3. Covered(table, sets)
      BY <2>3, <3>1 DEF Covered
    <3>4. Lasting(t, table, sets)
      BY <2>4, <3>1 DEF Lasting, q
    <3> QED BY <2>2, <3>2, <3>3, <3>4 DEF Installing
  <2>7. CASE Synced(t) = rows[q] /\ UNCHANGED memory
    <3>1. PICK table, sets : table = rows[q] /\ sets = doms[q]
      OBVIOUS
    <3>2. Gets(t, table, sets)
      BY <1>1, <2>7, <3>1 DEF memory, ShapeOK, Gets, q
    <3>3. Covered(table, sets)
      BY <1>2, <3>1 DEF Covered
    <3>4. Lasting(t, table, sets)
      BY <2>1, <3>1 DEF Durable, Lasting, q
    <3> QED BY <2>2, <3>2, <3>3, <3>4 DEF Installing
  <2> QED BY <1>5, <2>6, <2>7 DEF SyncRegistry, q
\* a download that is filed for list j
<1>6. ASSUME NEW table, NEW sets, NEW j \in Id, j = job[t].id, Gets(t, table, sets),
             pc[t] \in {"write", "add_write"}, WriteCache(j, c),
             UNCHANGED <<db, nextId>>, table[j] # None, sets[j] = c,
             \A i \in Id \ {j} : table[i] = rows[q][i] /\ sets[i] = doms[q][i]
      PROVE  Installing(t) /\ LockedOut(t)
  <2>1. c # None /\ Backed(j)'
    BY <1>1, <1>6, FiledBacked DEF Known
  <2>4. Covered(table, sets)
    BY <1>2, <1>6, <2>1 DEF Covered
  <2>5. Lasting(t, table, sets)
    BY <1>6, <2>1 DEF Durable, Lasting, q
  <2>6. LockedOut(t)
    BY <1>3, <1>6 DEF Holding
  <2> QED BY <1>6, <2>4, <2>5, <2>6 DEF Installing
<1>7. CASE FinishRefresh(t)
  <2> PICK j : j = job[t].id
    OBVIOUS
  <2>0. PICK table, sets : /\ table = [rows[q] EXCEPT ![j].etag = TagOf(c)]
                           /\ sets = [doms[q] EXCEPT ![j] = c]
    OBVIOUS
  <2>1. /\ pc[t] = "write" /\ WriteCache(j, c) /\ UNCHANGED <<db, nextId>>
        /\ Gets(t, table, sets)
    BY <1>7, <2>0 DEF FinishRefresh, Install, q, Gets
  <2>2. j \in Id /\ rows[q][j] # None /\ TagOf(c) \in 0 .. MaxVersion
    BY <1>1, <2>1, TagTyped DEF LocalsSet, q
  <2>3. Same(rows[q], table)
    BY <1>1, <2>0, <2>2, EtagSame
  <2>4. /\ sets[j] = c
        /\ \A i \in Id \ {j} : table[i] = rows[q][i] /\ sets[i] = doms[q][i]
    BY <1>1, <2>0, <2>2 DEF Table, Sets
  <2>5. table[j] # None
    BY <2>2, <2>3 DEF Same
  <2> QED BY <2>1, <2>2, <2>4, <2>5, <1>6
<1>8. CASE FinishAdd(t)
  <2> PICK j : j = job[t].id
    OBVIOUS
  <2>0. PICK table, sets : /\ table = [rows[q] EXCEPT ![j] = job[t].snap[j]]
                           /\ sets = [doms[q] EXCEPT ![j] = c]
    OBVIOUS
  <2>1. /\ pc[t] = "add_write" /\ WriteCache(j, c) /\ UNCHANGED <<db, nextId>>
        /\ Gets(t, table, sets)
    BY <1>8, <2>0 DEF FinishAdd, Install, q, Gets
  <2>2. j \in Id /\ job[t].snap[j] # None
    BY <1>1, <2>1 DEF LocalsSet, HeldInv, HeldId
  <2>3. /\ table[j] # None /\ sets[j] = c
        /\ \A i \in Id \ {j} : table[i] = rows[q][i] /\ sets[i] = doms[q][i]
    BY <1>1, <2>0, <2>2 DEF Table, Sets
  <2> QED BY <2>1, <2>2, <2>3, <1>6
<1>9. CASE FinishRemove(t)
  <2> PICK j : j = job[t].id
    OBVIOUS
  <2> PICK table, sets : /\ table = [rows[q] EXCEPT ![j] = None]
                         /\ sets = [doms[q] EXCEPT ![j] = None]
    OBVIOUS
  <2>1. /\ pc[t] = "removing" /\ UNCHANGED db /\ db[j] = None /\ j \in Id
        /\ Gets(t, table, sets)
    BY <1>1, <1>9 DEF FinishRemove, Install, LocalsSet, HeldInv, HeldId, q, Gets
  <2>2. /\ sets[j] = None
        /\ \A i \in Id \ {j} : table[i] = rows[q][i] /\ sets[i] = doms[q][i]
    BY <1>1, <2>1 DEF Table, Sets
  <2>3. Covered(table, sets)
    BY <1>2, <2>1, <2>2 DEF Covered
  <2>4. Lasting(t, table, sets)
    BY <2>1, <2>2 DEF Durable, Lasting, q
  <2>5. LockedOut(t)
    BY <1>3, <2>1 DEF Holding
  <2> QED BY <2>1, <2>3, <2>4, <2>5 DEF Installing
<1>10. ASSUME NEW i \in Id, NEW e \in BOOLEAN, SetEnabled(t, i, e)
       PROVE  Installing(t) /\ LockedOut(t)
  <2> PICK table, sets : table = [rows[q] EXCEPT ![i].enabled = e] /\ sets = doms[q]
    OBVIOUS
  <2>1. /\ LockFree(t) /\ rows[q][i] # None
        /\ Gets(t, table, sets)
    BY <1>10 DEF SetEnabled, Install, q, Gets
  <2>2. table[i] # None /\ \A k \in Id \ {i} : table[k] = rows[q][k]
    BY <1>1, <2>1, FlagSet
  <2>3. \A k \in Id : db'[k] # None => db[k] # None
    <3>1. db \in Table
      BY <1>1 DEF ShapeOK
    <3> QED BY <1>10, <3>1 DEF SetEnabled, Table
  <2>4. Covered(table, sets)
    BY <1>2, <2>2 DEF Covered
  <2>5. Lasting(t, table, sets)
    BY <2>1, <2>2, <2>3 DEF Durable, Lasting, q
  <2>6. LockedOut(t)
    BY <1>3, <2>1
  <2> QED BY <2>1, <2>4, <2>5, <2>6 DEF Installing
<1> QED BY <1>5, <1>7, <1>8, <1>9, <1>10 DEF Installs

\* ReadCache reads one more file: with no disk fault, what is there.
LEMMA ReadsCache ==
    ASSUME TypeOK, DiskFaults = FALSE, NEW t \in Thread, ReadCache(t)
    PROVE  /\ UNCHANGED <<rows, doms, pc, cache, db, nextId>>
           /\ \A s \in Thread \ {t} : job'[s] = job[s]
           /\ \E i \in Id : /\ job'[t].seen = job[t].seen \cup {i}
                            /\ job'[t].read = [job[t].read EXCEPT ![i] = cache[i]]
<1> DEFINE S == Unknown(t) \ job[t].seen
<1>1. S \in SUBSET Id /\ S # {} /\ job \in [Thread -> Job]
  BY DEF ReadCache, Unknown, Listed, TypeOK, ShapeOK
<1>2. Least(S) \in Id
  BY <1>1, LeastIsMember
<1> PICK i \in Id : i = Least(S)
  BY <1>2
<1>3. job' = [job EXCEPT ![t].read[i] = cache[i], ![t].seen = @ \cup {i}]
  BY DEF ReadCache
<1>4. job[t] \in Job /\ job'[t] = [job[t] EXCEPT !.read = [job[t].read EXCEPT ![i] = cache[i]],
                                                 !.seen = job[t].seen \cup {i}]
  BY <1>1, <1>3
<1>5. /\ job'[t].seen = job[t].seen \cup {i}
      /\ job'[t].read = [job[t].read EXCEPT ![i] = cache[i]]
  BY <1>4 DEF Job
<1> QED BY <1>1, <1>3, <1>5 DEF ReadCache, memory, disk

\* Domains never get into memory, or on their way there, without a file behind.
LEMMA BackedStep == Known /\ [Next]_vars => BackedInv'
<1> SUFFICES ASSUME Known, [Next]_vars PROVE BackedInv'
  OBVIOUS
<1>1. /\ TypeOK /\ ShapeOK /\ HeldInv /\ OwnInv /\ BackedInv /\ DiskFaults = FALSE
      /\ StepKind
  BY StepKinds DEF Known, TypeOK
<1>2. \A i \in Id : Backed(i) => Backed(i)'
  BY <1>1, BackedStays
<1>3. ASSUME UNCHANGED <<rows, doms>>
      PROVE  \A p \in Process, i \in Id : doms'[p][i] # None
                                            => rows'[p][i] # None /\ Backed(i)'
  BY <1>1, <1>2, <1>3 DEF BackedInv
<1>4. ASSUME NEW t \in Thread, Quiet(t)
      PROVE  \A s \in Thread, i \in Id : job'[s].read[i] # None => Backed(i)'
  <2> SUFFICES ASSUME NEW s \in Thread, NEW i \in Id, job'[s].read[i] # None
               PROVE  Backed(i)'
    OBVIOUS
  <2>1. job'[s].read = job[s].read \/ job'[s].read = EmptyTable
    BY <1>4 DEF Quiet, OnlyMoves
  <2> QED BY <1>1, <1>2, <2>1 DEF BackedInv, EmptyTable
<1>5. CASE UNCHANGED <<rows, doms, pc, job>>
  BY <1>1, <1>2, <1>3, <1>5 DEF BackedInv
<1>6. ASSUME NEW t \in Thread, Quiet(t), UNCHANGED <<rows, doms>>
      PROVE  BackedInv'
  BY <1>3, <1>4, <1>6 DEF BackedInv
<1>7. ASSUME NEW t \in Thread, Quiet(t), Installs(t)
      PROVE  BackedInv'
  <2> PICK table, sets : Gets(t, table, sets) /\ Covered(table, sets)
    BY <1>7, InstallsCovered DEF Installing
  <2> SUFFICES ASSUME NEW p \in Process, NEW i \in Id, doms'[p][i] # None
               PROVE  rows'[p][i] # None /\ Backed(i)'
    BY <1>4, <1>7 DEF BackedInv
  <2>1. CASE p = Owner[t]
    <3>1. rows'[p] = table /\ doms'[p] = sets
      BY <1>1, <2>1 DEF Gets, ShapeOK
    <3> QED BY <3>1 DEF Covered
  <2>2. CASE p # Owner[t]
    <3>1. rows'[p] = rows[p] /\ doms'[p] = doms[p]
      BY <1>1, <2>2 DEF Gets, ShapeOK
    <3> QED BY <1>1, <1>2, <3>1 DEF BackedInv
  <2> QED BY <2>1, <2>2
<1>8. ASSUME NEW t \in Thread, ReadCache(t)
      PROVE  BackedInv'
  <2>1. /\ UNCHANGED <<rows, doms>> /\ \A s \in Thread \ {t} : job'[s] = job[s]
    BY <1>1, <1>8, ReadsCache
  <2>2. PICK i \in Id : job'[t].read = [job[t].read EXCEPT ![i] = cache[i]]
    BY <1>1, <1>8, ReadsCache
  <2>3. cache[i] # None => Backed(i)
    <3> SUFFICES ASSUME cache[i] # None PROVE Backed(i)
      OBVIOUS
    <3>1. cache[i].url = owner[i] /\ cache[i] \in Content
      BY <1>1 DEF OwnInv, OwnContent, Named, ShapeOK, Sets
    <3>2. owner[i] # None
      BY <3>1, NoneAssumption DEF Content
    <3> QED BY <1>1, <3>2, GivenOut DEF Backed
  <2>4. job[t].read \in Sets
    BY <1>1 DEF ShapeOK, Job
  <2>5. ASSUME NEW s \in Thread, NEW k \in Id, job'[s].read[k] # None
        PROVE  Backed(k)'
    <3>1. CASE s = t /\ k = i
      <4>1. job'[t].read[i] = cache[i]
        BY <2>2, <2>4 DEF Sets
      <4> QED BY <1>2, <2>3, <2>5, <3>1, <4>1
    <3>2. CASE s = t /\ k # i
      <4>1. job'[t].read[k] = job[t].read[k]
        BY <2>2, <2>4, <3>2 DEF Sets
      <4> QED BY <1>1, <1>2, <2>5, <3>2, <4>1 DEF BackedInv
    <3>3. CASE s # t
      BY <1>1, <1>2, <2>1, <2>5, <3>3 DEF BackedInv
    <3> QED BY <3>1, <3>2, <3>3
  <2> QED BY <1>3, <2>1, <2>5 DEF BackedInv
<1>9. ASSUME NEW q \in Process, Crash(q)
      PROVE  BackedInv'
  <2>1. \A p \in Process : \/ rows'[p] = rows[p] /\ doms'[p] = doms[p]
                           \/ doms'[p] = EmptyTable
    BY <1>1, <1>9 DEF Crash, ShapeOK
  <2>2. \A s \in Thread : job'[s] = job[s] \/ job'[s] = NoJob
    BY <1>9 DEF Crash
  <2>3. \A i \in Id : EmptyTable[i] = None /\ NoJob.read[i] = None
    BY DEF EmptyTable, NoJob
  <2> QED BY <1>1, <1>2, <2>1, <2>2, <2>3 DEF BackedInv
<1> QED BY <1>1, <1>5, <1>6, <1>7, <1>8, <1>9 DEF StepKind

\* What a process has served, no step puts at risk.
LEMMA DurableStep ==
    ASSUME Known, [Next]_vars, NEW p \in Process, NEW i \in Id, Durable(p, i)
    PROVE  Durable(p, i)'
<1>1. /\ TypeOK /\ ShapeOK /\ HeldInv /\ DiskFaults = FALSE /\ StepKind
  BY StepKinds DEF Known, TypeOK
<1>2. Backed(i)'
  BY <1>1, BackedStays DEF Durable
<1> SUFFICES ASSUME db'[i] # None
             PROVE  /\ rows'[p][i] # None => doms'[p][i] # None
                    /\ \A s \in Thread : Owner[s] = p => FindsDomains(s, i)'
  BY <1>2 DEF Durable
<1>3. db[i] # None /\ cache[i] # None
  BY <1>1, IdsGoUp DEF Durable, Backed
<1>4. /\ rows[p][i] # None => doms[p][i] # None
      /\ \A s \in Thread : Owner[s] = p => FindsDomains(s, i)
  BY <1>3 DEF Durable
<1>5. CASE UNCHANGED <<rows, doms, pc, job>>
  BY <1>4, <1>5 DEF FindsDomains
<1>6. ASSUME NEW t \in Thread, Quiet(t), UNCHANGED <<rows, doms>>
      PROVE  /\ rows'[p][i] # None => doms'[p][i] # None
             /\ \A s \in Thread : Owner[s] = p => FindsDomains(s, i)'
  <2>1. ASSUME NEW s \in Thread, Owner[s] = p PROVE FindsDomains(s, i)'
    <3>1. CASE s = t
      BY <1>6, <3>1 DEF Quiet, FindsDomains
    <3>2. CASE s # t
      BY <1>4, <1>6, <2>1, <3>2 DEF Quiet, OnlyMoves, FindsDomains
    <3> QED BY <3>1, <3>2
  <2> QED BY <1>4, <1>6, <2>1
<1>7. ASSUME NEW t \in Thread, Quiet(t), Installs(t)
      PROVE  /\ rows'[p][i] # None => doms'[p][i] # None
             /\ \A s \in Thread : Owner[s] = p => FindsDomains(s, i)'
  <2>1. PICK table, sets : Gets(t, table, sets) /\ Lasting(t, table, sets)
    BY <1>7, InstallsCovered DEF Installing
  <2>2. LockedOut(t)
    BY <1>7, InstallsCovered
  <2>3. CASE p = Owner[t]
    <3>1. rows'[p] = table /\ doms'[p] = sets
      BY <1>1, <2>1, <2>3 DEF Gets, ShapeOK
    <3>2. ASSUME NEW s \in Thread, Owner[s] = p PROVE FindsDomains(s, i)'
      <4>1. CASE s = t
        BY <1>7, <4>1 DEF Quiet, FindsDomains
      <4>2. CASE s # t
        BY <1>7, <2>2, <2>3, <3>2, <4>2 DEF Quiet, OnlyMoves, LockedOut, FindsDomains
      <4> QED BY <4>1, <4>2
    <3> QED BY <2>1, <2>3, <3>1, <3>2 DEF Lasting
  <2>4. CASE p # Owner[t]
    <3>1. rows'[p] = rows[p] /\ doms'[p] = doms[p]
      BY <1>1, <2>1, <2>4 DEF Gets, ShapeOK
    <3>2. ASSUME NEW s \in Thread, Owner[s] = p PROVE FindsDomains(s, i)'
      BY <1>4, <1>7, <2>4, <3>1, <3>2 DEF Quiet, OnlyMoves, FindsDomains
    <3> QED BY <1>4, <3>1, <3>2
  <2> QED BY <2>3, <2>4
<1>8. ASSUME NEW t \in Thread, ReadCache(t)
      PROVE  /\ rows'[p][i] # None => doms'[p][i] # None
             /\ \A s \in Thread : Owner[s] = p => FindsDomains(s, i)'
  <2>1. UNCHANGED <<rows, doms, pc>> /\ \A s \in Thread \ {t} : job'[s] = job[s]
    BY <1>1, <1>8, ReadsCache
  <2>2. PICK k \in Id : /\ job'[t].seen = job[t].seen \cup {k}
                        /\ job'[t].read = [job[t].read EXCEPT ![k] = cache[k]]
    BY <1>1, <1>8, ReadsCache
  <2>3. job[t].read \in Sets
    BY <1>1 DEF ShapeOK, Job
  <2>4. job'[t].read[i] = IF i = k THEN cache[i] ELSE job[t].read[i]
    BY <2>2, <2>3 DEF Sets
  <2>5. ASSUME NEW s \in Thread, Owner[s] = p PROVE FindsDomains(s, i)'
    <3>1. CASE s # t
      BY <1>4, <2>1, <2>5, <3>1 DEF FindsDomains
    <3>2. CASE s = t /\ i = k
      BY <1>3, <2>4, <3>2 DEF FindsDomains
    <3>3. CASE s = t /\ i # k
      BY <1>4, <2>1, <2>2, <2>4, <2>5, <3>3 DEF FindsDomains
    <3> QED BY <3>1, <3>2, <3>3
  <2> QED BY <1>4, <2>1, <2>5
<1>9. ASSUME NEW q \in Process, Crash(q)
      PROVE  /\ rows'[p][i] # None => doms'[p][i] # None
             /\ \A s \in Thread : Owner[s] = p => FindsDomains(s, i)'
  <2>1. CASE p = q
    <3>1. rows'[p] = EmptyTable
      BY <1>1, <1>9, <2>1 DEF Crash, ShapeOK
    <3>2. \A s \in Thread : Owner[s] = p => pc'[s] = "idle"
      BY <1>9, <2>1 DEF Crash
    <3> QED BY <3>1, <3>2 DEF EmptyTable, FindsDomains, Syncing
  <2>2. CASE p # q
    <3>1. rows'[p] = rows[p] /\ doms'[p] = doms[p]
      BY <1>1, <1>9, <2>2 DEF Crash, ShapeOK
    <3>2. \A s \in Thread : Owner[s] = p => pc'[s] = pc[s] /\ job'[s] = job[s]
      BY <1>9, <2>2 DEF Crash
    <3> QED BY <1>4, <3>1, <3>2 DEF FindsDomains
  <2> QED BY <2>1, <2>2
<1> QED BY <1>1, <1>5, <1>6, <1>7, <1>8, <1>9 DEF StepKind

\* Where no disk fault is possible, all of this holds throughout.
LEMMA KnownAlways ==
    ASSUME DiskFaults = FALSE
    PROVE  Spec => []Known
<1>1. Init => BackedInv /\ OwnInv
  <2> SUFFICES ASSUME Init PROVE BackedInv /\ OwnInv
    OBVIOUS
  <2>1. OwnInv
    BY EmptyNamed DEF Init, OwnInv, OwnContent, Fresh, OwnJob, Named, EmptyTable
  <2>2. /\ \A p \in Process : doms[p] = EmptyTable
        /\ \A t \in Thread : job[t].read = EmptyTable
    BY DEF Init, NoJob
  <2> QED BY <2>1, <2>2 DEF BackedInv, EmptyTable
<1>2. HoldsInv /\ OwnInv /\ [Next]_vars => OwnInv'
  BY OwnStep DEF HoldsInv
<1>3. HoldsInv /\ OwnInv /\ BackedInv => Known
  BY DEF HoldsInv, Known
<1>4. HoldsInv /\ OwnInv /\ BackedInv /\ [Next]_vars => BackedInv'
  BY <1>3, BackedStep
<1> QED BY <1>1, <1>2, <1>3, <1>4, HoldsAlways, PTL DEF Spec

\* One process and one list of the theorem below.
LEMMA ServedOnce ==
    ASSUME DiskFaults = FALSE, NEW p \in Process, NEW i \in Id
    PROVE  Spec => [](doms[p][i] # None =>
                        [](running[p] = "up" /\ rows[p][i] # None /\ db[i] # None
                             => doms[p][i] # None))
<1>1. Known /\ doms[p][i] # None => Durable(p, i)
  BY DEF Known, BackedInv, Durable, FindsDomains
<1>2. Known /\ Durable(p, i) /\ [Next]_vars => Durable(p, i)'
  BY DurableStep
<1>3. Durable(p, i) => (running[p] = "up" /\ rows[p][i] # None /\ db[i] # None
                          => doms[p][i] # None)
  BY DEF Durable
<1> QED BY <1>1, <1>2, <1>3, KnownAlways, PTL DEF Spec

\* Fail open extends to restarts: where no cache file operation fails, a list
\* that a process has served it serves whenever it is up and lists it, as long
\* as the list is registered, however often it is killed and restarted.
THEOREM ServedListsStayServed ==
    ASSUME DiskFaults = FALSE
    PROVE  Spec => StaysServed
BY ServedOnce DEF StaysServed
=============================================================================
