----------------------- MODULE BlocklistOwnershipProofs -----------------------
(***************************************************************************)
(* No list ever serves the domains of another URL: OwnContent of           *)
(* BlocklistRegistry is an invariant, for any processes, threads, URLs and *)
(* bounds.  It is not inductive by itself: what reaches a table, a cache   *)
(* file or a domain set passes through the local variables of a thread,    *)
(* and a new id must be one nothing refers to yet.                         *)
(***************************************************************************)
EXTENDS BlocklistRegistryProofs

\* what a thread holds belongs to the list it holds it for
OwnJob(t) ==
    /\ Named(job[t].snap) /\ Named(job[t].read)
    /\ pc[t] \in {"fetch", "touch", "got"} => job[t].url = owner[job[t].id]
    /\ pc[t] \in {"got", "write", "add_write"}
         => job[t].content.url = owner[job[t].id]
    /\ pc[t] = "add_insert" => job[t].content.url = job[t].url

\* ids sqlite has not given out yet belong to no URL
Fresh == \A i \in Id : i >= nextId => owner[i] = None

OwnInv == OwnContent /\ Fresh /\ \A t \in Thread : OwnJob(t)

LEMMA EmptyNamed == Named(EmptyTable) /\ Named(NoJob.snap) /\ Named(NoJob.read)
BY DEF Named, EmptyTable, NoJob

\* sync_registry combines what memory and the snapshot say of the same ids.
LEMMA SyncedNamed ==
    ASSUME ShapeOK, OwnInv, NEW t \in Thread
    PROVE  Named(Synced(t)) /\ Named(SyncedDomains(t))
<1>1. /\ Named(rows[Owner[t]]) /\ Named(doms[Owner[t]])
      /\ Named(job[t].snap) /\ Named(job[t].read)
  BY ThreadProcess DEF OwnInv, OwnContent, OwnJob
<1>2. rows[Owner[t]] \in Table
  BY ThreadProcess DEF ShapeOK
<1>3. ASSUME NEW i \in Id, Synced(t)[i] # None
      PROVE  Synced(t)[i].url = owner[i]
  <2>1. CASE job[t].snap[i] = None \/ rows[Owner[t]][i] = None
    BY <1>1, <1>3, <2>1 DEF Synced, Named
  <2>2. CASE job[t].snap[i] # None /\ rows[Owner[t]][i] # None
    <3>1. rows[Owner[t]][i].url = owner[i]
      BY <1>1, <2>2 DEF Named
    <3>2. rows[Owner[t]][i] \in Row
      BY <1>2, <2>2 DEF Table
    <3> QED BY <2>2, <3>1, <3>2 DEF Synced, Row
  <2> QED BY <2>1, <2>2
<1>4. Named(SyncedDomains(t))
  BY <1>1 DEF SyncedDomains, Named
<1> QED BY <1>3, <1>4 DEF Named

\* Installing what belongs to its lists keeps every manager that way.
LEMMA InstallNamed ==
    ASSUME ShapeOK, OwnContent, NEW t \in Thread, NEW table, NEW sets,
           Named(table), Named(sets), Install(t, table, sets), UNCHANGED owner
    PROVE  \A p \in Process : Named(rows[p])' /\ Named(doms[p])'
<1> SUFFICES ASSUME NEW p \in Process
             PROVE  Named(rows[p])' /\ Named(doms[p])'
  OBVIOUS
<1>1. CASE p = Owner[t]
  BY <1>1 DEF Install, ShapeOK, Named
<1>2. CASE p # Owner[t]
  BY <1>2 DEF Install, ShapeOK, OwnContent, Named
<1> QED BY <1>1, <1>2

\* A download is filed under the URL it was asked of.
LEMMA WriteNamed ==
    ASSUME ShapeOK, Named(cache), NEW i \in Id, NEW c \in Content \cup {None},
           c # None => c.url = owner[i], WriteCache(i, c), UNCHANGED owner
    PROVE  Named(cache)'
BY DEF WriteCache, ShapeOK, Sets, Named

\* refresh_list reads the URL of the list it is about to download.
LEMMA CaptureOwned ==
    ASSUME ShapeOK, OwnInv, NEW t \in Thread, NEW i \in Id,
           rows[Owner[t]][i] # None, NEW todo,
           job'[t] = CaptureOf(t, i, todo), pc'[t] = "fetch", UNCHANGED owner
    PROVE  OwnJob(t)'
<1>1. rows[Owner[t]][i].url = owner[i]
  BY ThreadProcess DEF OwnInv, OwnContent, Named
<1>2. /\ job'[t].snap = EmptyTable /\ job'[t].read = EmptyTable
      /\ job'[t].id = i /\ job'[t].url = rows[Owner[t]][i].url
  BY DEF CaptureOf, NoJob
<1> QED BY <1>1, <1>2, EmptyNamed DEF OwnJob, Named, NoJob

LEMMA OwnStep == TypeOK /\ OwnInv /\ [Next]_vars => OwnInv'
<1> SUFFICES ASSUME TypeOK, OwnInv, [Next]_vars PROVE OwnInv'
  OBVIOUS
<1> ShapeOK /\ LocalsSet /\ OwnContent /\ Fresh
  BY DEF TypeOK, OwnInv
<1> USE ThreadProcess
\* nothing but t's locals changed that OwnInv speaks of
<1>a. ASSUME NEW t \in Thread, UNCHANGED <<owner, nextId>>, OwnContent', OwnJob(t)',
             \A s \in Thread \ {t} : pc'[s] = pc[s] /\ job'[s] = job[s]
      PROVE  OwnInv'
  <2>1. ASSUME NEW s \in Thread, s # t PROVE OwnJob(s)'
    BY <1>a, <2>1 DEF OwnInv, OwnJob, Named
  <2>2. Fresh'
    BY <1>a DEF Fresh
  <2> QED BY <1>a, <2>1, <2>2 DEF OwnInv
<1>b. ASSUME UNCHANGED <<db, owner, cache, memory>> PROVE OwnContent'
  BY <1>b DEF OwnContent, Named, memory
<1>d. ASSUME UNCHANGED <<owner, memory>>, Named(db)', Named(cache)'
      PROVE  OwnContent'
  BY <1>d DEF OwnContent, Named, memory
<1>e. \A t \in Thread : OwnJob(t) /\ job[t] \in Job
  BY DEF OwnInv, ShapeOK
<1>1. ASSUME NEW t \in Loop, Start(t)
      PROVE  OwnInv'
  <2>1. t \in Thread /\ Select(t, "load")
    BY <1>1 DEF Start, Thread
  <2>2. OwnContent' /\ UNCHANGED <<owner, nextId>>
    BY <2>1, <1>b DEF Select, StatementRaises, disk
  <2>3. OwnJob(t)'
    BY <2>1, <2>2, EmptyNamed DEF Select, StatementRaises, Raise, Goto, Finish, disk, ShapeOK, OwnJob, Named, OwnContent, NoJob
  <2>4. \A s \in Thread \ {t} : pc'[s] = pc[s] /\ job'[s] = job[s]
    BY <2>1 DEF Select, StatementRaises, Raise, Goto, Finish, ShapeOK
  <2> QED BY <2>1, <2>2, <2>3, <2>4, <1>a
<1>2. ASSUME NEW t \in Loop, Tick(t)
      PROVE  OwnInv'
  <2>1. t \in Thread /\ Select(t, "tick")
    BY <1>2 DEF Tick, Thread
  <2>2. OwnContent' /\ UNCHANGED <<owner, nextId>>
    BY <2>1, <1>b DEF Select, StatementRaises, disk
  <2>3. OwnJob(t)'
    BY <2>1, <2>2, EmptyNamed DEF Select, StatementRaises, Raise, Goto, Finish, disk, ShapeOK, OwnJob, Named, OwnContent, NoJob
  <2>4. \A s \in Thread \ {t} : pc'[s] = pc[s] /\ job'[s] = job[s]
    BY <2>1 DEF Select, StatementRaises, Raise, Goto, Finish, ShapeOK
  <2> QED BY <2>1, <2>2, <2>3, <2>4, <1>a
<1>3. ASSUME NEW t \in Loop, RefreshDue(t)
      PROVE  OwnInv'
  <2>1. t \in Thread /\ Select(t, "resync")
    BY <1>3 DEF RefreshDue, Thread
  <2>2. OwnContent' /\ UNCHANGED <<owner, nextId>>
    BY <2>1, <1>b DEF Select, StatementRaises, disk
  <2>3. OwnJob(t)'
    BY <2>1, <2>2, EmptyNamed DEF Select, StatementRaises, Raise, Goto, Finish, disk, ShapeOK, OwnJob, Named, OwnContent, NoJob
  <2>4. \A s \in Thread \ {t} : pc'[s] = pc[s] /\ job'[s] = job[s]
    BY <2>1 DEF Select, StatementRaises, Raise, Goto, Finish, ShapeOK
  <2> QED BY <2>1, <2>2, <2>3, <2>4, <1>a
<1>4. ASSUME NEW t \in Loop, NotDue(t)
      PROVE  OwnInv'
  <2>1. t \in Thread /\ UNCHANGED <<owner, nextId>>
    BY <1>4 DEF NotDue, disk, Thread
  <2>2. OwnContent'
    BY <1>4, <1>b DEF NotDue, disk
  <2>3. OwnJob(t)'
    BY <1>4, <2>1, EmptyNamed DEF NotDue, Goto, Finish, ShapeOK, Job, LocalsSet, OwnInv, OwnJob, Named
  <2>4. \A s \in Thread \ {t} : pc'[s] = pc[s] /\ job'[s] = job[s]
    BY <1>4 DEF NotDue, Goto, Finish, ShapeOK
  <2> QED BY <2>1, <2>2, <2>3, <2>4, <1>a
<1>5. ASSUME NEW t \in Reloader, ForceReload(t)
      PROVE  OwnInv'
  <2>1. t \in Thread /\ Select(t, "resync")
    BY <1>5 DEF ForceReload, Thread
  <2>2. OwnContent' /\ UNCHANGED <<owner, nextId>>
    BY <2>1, <1>b DEF Select, StatementRaises, disk
  <2>3. OwnJob(t)'
    BY <2>1, <2>2, EmptyNamed DEF Select, StatementRaises, Raise, Goto, Finish, disk, ShapeOK, OwnJob, Named, OwnContent, NoJob
  <2>4. \A s \in Thread \ {t} : pc'[s] = pc[s] /\ job'[s] = job[s]
    BY <2>1 DEF Select, StatementRaises, Raise, Goto, Finish, ShapeOK
  <2> QED BY <2>1, <2>2, <2>3, <2>4, <1>a
<1>6. ASSUME NEW t \in Thread, ReadCache(t)
      PROVE  OwnInv'
  <2>1. t \in Thread /\ UNCHANGED <<owner, nextId>>
    BY <1>6 DEF ReadCache, disk, Thread
  <2>2. OwnContent'
    BY <1>6, <1>b DEF ReadCache, disk
  <2>3. OwnJob(t)'
    <3> DEFINE i == Least(Unknown(t) \ job[t].seen)
    <3>1. i \in Id
      BY <1>6, LeastIsMember DEF ReadCache, Unknown, Listed
    <3>2. PICK c \in {cache[i], None} :
            job' = [job EXCEPT ![t].read[i] = c, ![t].seen = @ \cup {i}]
      BY <1>6 DEF ReadCache
    <3>3. /\ job'[t].read = [job[t].read EXCEPT ![i] = c]
          /\ job'[t].snap = job[t].snap
          /\ job'[t].url = job[t].url /\ job'[t].id = job[t].id
          /\ job'[t].content = job[t].content
      BY <3>2, <1>e DEF ShapeOK, Job
    <3>4. Named(job[t].snap) /\ Named(job[t].read) /\ Named(cache)
      BY <1>e DEF OwnJob, OwnContent
    <3>5. Named(job[t].read)' /\ Named(job[t].snap)'
      <4>1. \A k \in Id : job'[t].read[k] = IF k = i THEN c ELSE job[t].read[k]
        BY <3>1, <3>3, <1>e DEF Job, Sets
      <4>2. c # None => c.url = owner[i]
        BY <3>1, <3>2, <3>4 DEF Named
      <4>3. ASSUME NEW k \in Id, job'[t].read[k] # None
            PROVE  job'[t].read[k].url = owner[k]
        BY <3>4, <4>1, <4>2, <4>3 DEF Named
      <4> QED BY <2>1, <3>3, <3>4, <4>3 DEF Named
    <3>6. pc'[t] = pc[t] /\ pc[t] \in Syncing
      BY <1>6 DEF ReadCache
    <3> QED BY <3>5, <3>6 DEF OwnJob, Syncing
  <2>4. \A s \in Thread \ {t} : pc'[s] = pc[s] /\ job'[s] = job[s]
    BY <1>6 DEF ReadCache, Goto, Finish, ShapeOK
  <2> QED BY <2>1, <2>2, <2>3, <2>4, <1>a
<1>7. ASSUME NEW t \in Thread, SyncRegistry(t)
      PROVE  OwnInv'
  <2>1. t \in Thread /\ UNCHANGED <<owner, nextId>>
    BY <1>7 DEF SyncRegistry, disk, Thread
  <2>2. OwnContent'
    <3>1. CASE UNCHANGED memory
      BY <1>7, <3>1, <1>b DEF SyncRegistry, disk
    <3>2. CASE Install(t, Synced(t), SyncedDomains(t))
      <4>1. \A p \in Process : Named(rows[p])' /\ Named(doms[p])'
        BY <2>1, <3>2, SyncedNamed, InstallNamed
      <4> QED BY <1>7, <4>1 DEF SyncRegistry, disk, OwnContent, Named
    <3> QED BY <1>7, <3>1, <3>2 DEF SyncRegistry
  <2>3. OwnJob(t)'
    <3>1. /\ job'[t].snap = EmptyTable /\ job'[t].read = EmptyTable
          /\ pc'[t] \in {"idle", "decide", "pick"}
      BY <1>7, <2>1 DEF SyncRegistry, Goto, Finish, ShapeOK, NoJob
    <3> QED BY <2>1, <3>1, EmptyNamed DEF OwnJob, Named, NoJob
  <2>4. \A s \in Thread \ {t} : pc'[s] = pc[s] /\ job'[s] = job[s]
    BY <1>7 DEF SyncRegistry, Goto, Finish, ShapeOK
  <2> QED BY <2>1, <2>2, <2>3, <2>4, <1>a
<1>8. ASSUME NEW t \in Thread, NextList(t)
      PROVE  OwnInv'
  <2>1. t \in Thread /\ UNCHANGED <<owner, nextId>>
    BY <1>8 DEF NextList, disk, Thread
  <2>2. OwnContent'
    BY <1>8, <1>b DEF NextList, disk
  <2>3. OwnJob(t)'
    <3> DEFINE i == Least(job[t].todo)
    <3>1. CASE pc'[t] # "fetch"
      <4>1. CASE job[t].todo = {}
        <5>1. job'[t] = NoJob /\ pc'[t] \in {"idle", "dead"}
          BY <1>8, <2>1, <4>1 DEF NextList, Goto, Finish, ShapeOK
        <5> QED BY <2>1, <5>1, EmptyNamed DEF OwnJob, Named
      <4>2. CASE job[t].todo # {}
        <5>1. /\ job'[t].snap = job[t].snap /\ job'[t].read = job[t].read
              /\ pc'[t] = "pick"
          BY <1>8, <2>1, <3>1, <4>2, <1>e DEF NextList, Capture, Goto, ShapeOK, Job
        <5> QED BY <2>1, <5>1, <1>e DEF OwnJob, Named
      <4> QED BY <4>1, <4>2
    <3>2. CASE pc'[t] = "fetch"
      <4>1. job[t].todo # {} /\ i \in Id /\ rows[Owner[t]][i] # None
        BY <1>8, <3>2, <1>e, LeastIsMember DEF NextList, Goto, ShapeOK, Job
      <4>2. job'[t] = CaptureOf(t, i, job[t].todo \ {i})
        BY <1>8, <4>1 DEF NextList, Capture, CaptureOf, ShapeOK
      <4> HIDE DEF i
      <4> QED BY <2>1, <3>2, <4>1, <4>2, CaptureOwned
    <3> QED BY <3>1, <3>2
  <2>4. \A s \in Thread \ {t} : pc'[s] = pc[s] /\ job'[s] = job[s]
    BY <1>8 DEF NextList, Capture, Goto, Finish, ShapeOK
  <2> QED BY <2>1, <2>2, <2>3, <2>4, <1>a
<1>9. ASSUME NEW t \in Thread, FetchFails(t)
      PROVE  OwnInv'
  <2>1. t \in Thread /\ UNCHANGED <<owner, nextId>>
    BY <1>9 DEF FetchFails, disk, Thread
  <2>2. OwnContent'
    BY <1>9, <1>b DEF FetchFails, disk
  <2>3. OwnJob(t)'
    BY <1>9, <2>1, EmptyNamed DEF FetchFails, Goto, Finish, ShapeOK, Job, LocalsSet, OwnInv, OwnJob, Named
  <2>4. \A s \in Thread \ {t} : pc'[s] = pc[s] /\ job'[s] = job[s]
    BY <1>9 DEF FetchFails, Goto, Finish, ShapeOK
  <2> QED BY <2>1, <2>2, <2>3, <2>4, <1>a
<1>10. ASSUME NEW t \in Thread, FetchSucceeds(t)
      PROVE  OwnInv'
  <2>1. t \in Thread /\ UNCHANGED <<owner, nextId>>
    BY <1>10 DEF FetchSucceeds, disk, Thread
  <2>2. OwnContent'
    BY <1>10, <1>b DEF FetchSucceeds, disk
  <2>3. OwnJob(t)'
    <3>1. /\ job'[t].snap = job[t].snap /\ job'[t].read = job[t].read
          /\ job'[t].url = job[t].url /\ job'[t].id = job[t].id
          /\ pc'[t] = "got" => job'[t].content.url = job[t].url
          /\ pc'[t] \in {"touch", "got"} /\ pc[t] = "fetch"
      BY <1>10, <1>e DEF FetchSucceeds, Goto, ShapeOK, Job, Current
    <3> QED BY <2>1, <3>1, <1>e DEF OwnJob, Named
  <2>4. \A s \in Thread \ {t} : pc'[s] = pc[s] /\ job'[s] = job[s]
    BY <1>10 DEF FetchSucceeds, Goto, Finish, ShapeOK
  <2> QED BY <2>1, <2>2, <2>3, <2>4, <1>a
<1>11. ASSUME NEW t \in Thread, NotModified(t)
      PROVE  OwnInv'
  <2>1. t \in Thread /\ UNCHANGED <<owner, nextId>>
    BY <1>11 DEF NotModified, disk, Thread
  <2>2. OwnContent'
    BY <1>11, <1>b DEF NotModified, disk
  <2>3. OwnJob(t)'
    BY <1>11, <2>1, EmptyNamed DEF NotModified, Raise, Goto, Finish, ShapeOK, Job, LocalsSet, OwnInv, OwnJob, Named
  <2>4. \A s \in Thread \ {t} : pc'[s] = pc[s] /\ job'[s] = job[s]
    BY <1>11 DEF NotModified, Raise, Goto, Finish, ShapeOK
  <2> QED BY <2>1, <2>2, <2>3, <2>4, <1>a
<1>12. ASSUME NEW t \in Thread, CommitRefresh(t)
      PROVE  OwnInv'
  <2>1. t \in Thread /\ UNCHANGED <<owner, nextId>>
    BY <1>12 DEF CommitRefresh, disk, Thread
  <2>2. OwnContent'
    <3>1. Named(db)'
      BY <1>12, <2>1 DEF CommitRefresh, OwnContent, Named, ShapeOK, Table, Row, LocalsSet
    <3> QED BY <1>12, <2>1, <3>1, <1>d DEF CommitRefresh, OwnContent, Named
  <2>3. OwnJob(t)'
    BY <1>12, <2>1, EmptyNamed DEF CommitRefresh, Raise, Goto, Finish, ShapeOK, Job, LocalsSet, OwnInv, OwnJob, Named
  <2>4. \A s \in Thread \ {t} : pc'[s] = pc[s] /\ job'[s] = job[s]
    BY <1>12 DEF CommitRefresh, Raise, Goto, Finish, ShapeOK
  <2> QED BY <2>1, <2>2, <2>3, <2>4, <1>a
<1>13. ASSUME NEW t \in Thread, FinishRefresh(t)
      PROVE  OwnInv'
  <2>1. t \in Thread /\ UNCHANGED <<owner, nextId>>
    BY <1>13 DEF FinishRefresh, disk, Thread
  <2>2. OwnContent'
    <3> DEFINE i == job[t].id
               c == job[t].content
               p == Owner[t]
               table == [rows[p] EXCEPT ![i].etag = TagOf(c)]
               sets  == [doms[p] EXCEPT ![i] = c]
    <3>1. i \in Id /\ p \in Process /\ c \in Content /\ c.url = owner[i]
      BY <1>13, <2>1 DEF FinishRefresh, LocalsSet, OwnInv, OwnJob
    <3>2. Named(rows[p]) /\ Named(doms[p]) /\ rows[p] \in Table /\ doms[p] \in Sets
      BY <3>1 DEF OwnContent, ShapeOK
    <3>3. Named(table) /\ Named(sets)
      <4>1. \A k \in Id : table[k] # None => rows[p][k] # None /\ table[k].url = rows[p][k].url
        BY <1>13, <2>1, <3>1, <3>2 DEF FinishRefresh, LocalsSet, Table, Row
      <4>2. Named(table)
        BY <3>2, <4>1 DEF Named
      <4>3. Named(sets)
        BY <3>1, <3>2 DEF Named, Sets
      <4> QED BY <4>2, <4>3
    <3>4. Install(t, table, sets)
      BY <1>13 DEF FinishRefresh
    <3>5. \A q \in Process : Named(rows[q])' /\ Named(doms[q])'
      BY <2>1, <3>3, <3>4, InstallNamed
    <3>6. Named(db)' /\ Named(cache)'
      BY <1>13, <2>1, <3>1, <1>e, WriteNamed DEF FinishRefresh, OwnContent, OwnJob, Named
    <3> QED BY <3>5, <3>6 DEF OwnContent
  <2>3. OwnJob(t)'
    BY <1>13, <2>1, EmptyNamed DEF FinishRefresh, Goto, Finish, ShapeOK, Job, LocalsSet, OwnInv, OwnJob, Named
  <2>4. \A s \in Thread \ {t} : pc'[s] = pc[s] /\ job'[s] = job[s]
    BY <1>13 DEF FinishRefresh, Goto, Finish, ShapeOK
  <2> QED BY <2>1, <2>2, <2>3, <2>4, <1>a
<1>14. ASSUME NEW t \in Handler, NEW u \in Url, AddList(t, u)
      PROVE  OwnInv'
  <2>1. t \in Thread /\ UNCHANGED <<owner, nextId>>
    BY <1>14 DEF AddList, disk, Thread
  <2>2. OwnContent'
    BY <1>14, <1>b DEF AddList, disk
  <2>3. OwnJob(t)'
    BY <1>14, <2>1, EmptyNamed DEF AddList, Goto, Finish, ShapeOK, Job, LocalsSet, OwnInv, OwnJob, Named
  <2>4. \A s \in Thread \ {t} : pc'[s] = pc[s] /\ job'[s] = job[s]
    BY <1>14 DEF AddList, Goto, Finish, ShapeOK
  <2> QED BY <2>1, <2>2, <2>3, <2>4, <1>a
<1>15. ASSUME NEW t \in Handler, AddFails(t)
      PROVE  OwnInv'
  <2>1. t \in Thread /\ UNCHANGED <<owner, nextId>>
    BY <1>15 DEF AddFails, disk, Thread
  <2>2. OwnContent'
    BY <1>15, <1>b DEF AddFails, disk
  <2>3. OwnJob(t)'
    BY <1>15, <2>1, EmptyNamed DEF AddFails, Goto, Finish, ShapeOK, Job, LocalsSet, OwnInv, OwnJob, Named
  <2>4. \A s \in Thread \ {t} : pc'[s] = pc[s] /\ job'[s] = job[s]
    BY <1>15 DEF AddFails, Goto, Finish, ShapeOK
  <2> QED BY <2>1, <2>2, <2>3, <2>4, <1>a
<1>16. ASSUME NEW t \in Handler, AddFetched(t)
      PROVE  OwnInv'
  <2>1. t \in Thread /\ UNCHANGED <<owner, nextId>>
    BY <1>16 DEF AddFetched, disk, Thread
  <2>2. OwnContent'
    BY <1>16, <1>b DEF AddFetched, disk
  <2>3. OwnJob(t)'
    <3>1. /\ job'[t].snap = job[t].snap /\ job'[t].read = job[t].read
          /\ job'[t].url = job[t].url /\ job'[t].content.url = job[t].url
          /\ pc'[t] = "add_insert"
      BY <1>16, <2>1, <1>e DEF AddFetched, Goto, ShapeOK, Job, Current
    <3> QED BY <2>1, <3>1, <1>e DEF OwnJob, Named
  <2>4. \A s \in Thread \ {t} : pc'[s] = pc[s] /\ job'[s] = job[s]
    BY <1>16 DEF AddFetched, Goto, Finish, ShapeOK
  <2> QED BY <2>1, <2>2, <2>3, <2>4, <1>a
<1>17. ASSUME NEW t \in Handler, InsertConflict(t)
      PROVE  OwnInv'
  <2>1. t \in Thread /\ UNCHANGED <<owner, nextId>>
    BY <1>17 DEF InsertConflict, disk, Thread
  <2>2. OwnContent'
    BY <1>17, <1>b DEF InsertConflict, disk
  <2>3. OwnJob(t)'
    BY <1>17, <2>1, EmptyNamed DEF InsertConflict, Goto, Finish, ShapeOK, Job, LocalsSet, OwnInv, OwnJob, Named
  <2>4. \A s \in Thread \ {t} : pc'[s] = pc[s] /\ job'[s] = job[s]
    BY <1>17 DEF InsertConflict, Goto, Finish, ShapeOK
  <2> QED BY <2>1, <2>2, <2>3, <2>4, <1>a
<1>18. ASSUME NEW t \in Handler, InsertRow(t)
      PROVE  OwnInv'
  <2> DEFINE n == nextId
             u == job[t].url
  <2>1. n \in Id /\ u \in Url /\ t \in Thread /\ owner[n] = None
    BY <1>18, BoundAssumption DEF InsertRow, LocalsSet, ShapeOK, Fresh, Thread, Id
  <2>2. owner' = [owner EXCEPT ![n] = u] /\ UNCHANGED <<memory, cache>>
    BY <1>18 DEF InsertRow
  <2>3. ASSUME NEW table \in Table \cup Sets, Named(table)
        PROVE  \A i \in Id : table[i] # None => table[i].url = owner'[i]
    <3>1. table[n] = None
      BY <2>1, <2>3, NoneAssumption DEF Named, Table, Sets, Row, Content
    <3> QED BY <2>1, <2>2, <2>3, <3>1 DEF Named, ShapeOK
  <2>4. PICK e \in BOOLEAN : db' = [db EXCEPT ![n] =
          [url |-> u, enabled |-> e, etag |-> TagOf(job[t].content)]]
    BY <1>18 DEF InsertRow
  <2>5. Named(db)'
    <3>1. \A i \in Id : db[i] # None => db[i].url = owner'[i]
      BY <2>3 DEF ShapeOK, OwnContent
    <3> QED BY <2>1, <2>2, <2>4, <3>1 DEF Named, ShapeOK, Table
  <2>6. Named(cache)' /\ \A p \in Process : Named(rows[p])' /\ Named(doms[p])'
    BY <2>2, <2>3 DEF memory, ShapeOK, OwnContent, Named
  <2>7. Fresh'
    BY <1>18, <2>1, <2>2 DEF InsertRow, Fresh, ShapeOK, Id
  <2>8. ASSUME NEW s \in Thread, s # t PROVE OwnJob(s)'
    <3>1. pc'[s] = pc[s] /\ job'[s] = job[s]
      BY <1>18, <2>8 DEF InsertRow, Goto, ShapeOK
    <3>2. Named(job[s].snap)' /\ Named(job[s].read)'
      BY <2>3, <3>1, <1>e DEF OwnJob, Named, Job
    <3>3. /\ pc[s] \in {"fetch", "touch", "got"} => job[s].id # n
          /\ pc[s] \in {"got", "write", "add_write"} => job[s].id # n
      BY <2>1, <1>e, NoneAssumption DEF OwnJob, LocalsSet, Content
    <3> QED BY <2>1, <2>2, <3>1, <3>2, <3>3, <1>e DEF OwnJob, LocalsSet, ShapeOK
  <2>9. OwnJob(t)'
    <3>1. /\ job'[t].id = n /\ job'[t].content = job[t].content
          /\ job'[t].read = job[t].read
          /\ job'[t].snap = [job[t].snap EXCEPT ![n] = db'[n]]
          /\ pc'[t] = "add_write"
      BY <1>18, <2>1, <1>e DEF InsertRow, Goto, ShapeOK, Job
    <3>2. Named(job[t].snap)'
      <4>1. \A i \in Id : job[t].snap[i] # None => job[t].snap[i].url = owner'[i]
        <5>1. job[t].snap \in Table /\ Named(job[t].snap)
          BY <2>1, <1>e DEF OwnJob, Job
        <5> QED BY <2>3, <5>1
      <4>2. \A i \in Id : job'[t].snap[i] = IF i = n THEN db'[n] ELSE job[t].snap[i]
        BY <2>1, <3>1, <1>e DEF Job, Table
      <4>3. \A i \in Id : db'[i] # None => db'[i].url = owner'[i]
        BY <2>5 DEF Named
      <4> QED BY <2>1, <4>1, <4>2, <4>3 DEF Named
    <3>3. Named(job[t].read)'
      <4>1. job[t].read \in Sets /\ Named(job[t].read)
        BY <2>1, <1>e DEF OwnJob, Job
      <4> QED BY <2>3, <3>1, <4>1 DEF Named
    <3>4. job'[t].content.url = owner'[n]
      BY <1>18, <2>1, <2>2, <3>1, <1>e DEF InsertRow, OwnJob, ShapeOK
    <3> QED BY <3>1, <3>2, <3>3, <3>4 DEF OwnJob
  <2> QED BY <2>5, <2>6, <2>7, <2>8, <2>9 DEF OwnInv, OwnContent
<1>19. ASSUME NEW t \in Handler, FinishAdd(t)
      PROVE  OwnInv'
  <2>1. t \in Thread /\ UNCHANGED <<owner, nextId>>
    BY <1>19 DEF FinishAdd, disk, Thread
  <2>2. OwnContent'
    <3> DEFINE i == job[t].id
               c == job[t].content
               p == Owner[t]
               table == [rows[p] EXCEPT ![i] = job[t].snap[i]]
               sets  == [doms[p] EXCEPT ![i] = c]
    <3>1. i \in Id /\ p \in Process /\ c \in Content /\ c.url = owner[i]
      BY <1>19, <2>1 DEF FinishAdd, LocalsSet, OwnInv, OwnJob
    <3>2. Named(rows[p]) /\ Named(doms[p]) /\ rows[p] \in Table /\ doms[p] \in Sets
      BY <3>1 DEF OwnContent, ShapeOK
    <3>3. Named(table) /\ Named(sets)
      BY <2>1, <3>1, <3>2, <1>e DEF OwnJob, Named, Table, Sets
    <3>4. Install(t, table, sets)
      BY <1>19 DEF FinishAdd
    <3>5. \A q \in Process : Named(rows[q])' /\ Named(doms[q])'
      BY <2>1, <3>3, <3>4, InstallNamed
    <3>6. Named(db)' /\ Named(cache)'
      BY <1>19, <2>1, <3>1, <1>e, WriteNamed DEF FinishAdd, OwnContent, OwnJob, Named
    <3> QED BY <3>5, <3>6 DEF OwnContent
  <2>3. OwnJob(t)'
    BY <1>19, <2>1, EmptyNamed DEF FinishAdd, Goto, Finish, ShapeOK, Job, LocalsSet, OwnInv, OwnJob, Named
  <2>4. \A s \in Thread \ {t} : pc'[s] = pc[s] /\ job'[s] = job[s]
    BY <1>19 DEF FinishAdd, Goto, Finish, ShapeOK
  <2> QED BY <2>1, <2>2, <2>3, <2>4, <1>a
<1>20. ASSUME NEW t \in Handler, NEW i \in Id, RemoveList(t, i)
      PROVE  OwnInv'
  <2>1. t \in Thread /\ UNCHANGED <<owner, nextId>>
    BY <1>20 DEF RemoveList, disk, Thread
  <2>2. OwnContent'
    <3>1. Named(db)'
      BY <1>20, <2>1 DEF RemoveList, OwnContent, Named, ShapeOK, Table
    <3> QED BY <1>20, <2>1, <3>1, <1>d DEF RemoveList, OwnContent, Named
  <2>3. OwnJob(t)'
    BY <1>20, <2>1, EmptyNamed DEF RemoveList, Goto, Finish, ShapeOK, Job, LocalsSet, OwnInv, OwnJob, Named
  <2>4. \A s \in Thread \ {t} : pc'[s] = pc[s] /\ job'[s] = job[s]
    BY <1>20 DEF RemoveList, Goto, Finish, ShapeOK
  <2> QED BY <2>1, <2>2, <2>3, <2>4, <1>a
<1>21. ASSUME NEW t \in Handler, FinishRemove(t)
      PROVE  OwnInv'
  <2>1. t \in Thread /\ UNCHANGED <<owner, nextId>>
    BY <1>21 DEF FinishRemove, disk, Thread
  <2>2. OwnContent'
    <3> DEFINE i == job[t].id
               p == Owner[t]
               table == [rows[p] EXCEPT ![i] = None]
               sets  == [doms[p] EXCEPT ![i] = None]
    <3>1. i \in Id /\ p \in Process
      BY <1>21, <2>1 DEF FinishRemove, LocalsSet
    <3>2. Named(rows[p]) /\ Named(doms[p]) /\ rows[p] \in Table /\ doms[p] \in Sets
      BY <3>1 DEF OwnContent, ShapeOK
    <3>3. Named(table) /\ Named(sets)
      BY <3>1, <3>2 DEF Named, Table, Sets
    <3>4. Install(t, table, sets)
      BY <1>21 DEF FinishRemove
    <3>5. \A q \in Process : Named(rows[q])' /\ Named(doms[q])'
      BY <2>1, <3>3, <3>4, InstallNamed
    <3>6. Named(db)' /\ Named(cache)'
      BY <1>21, <2>1, <3>1, <1>e, WriteNamed DEF FinishRemove, OwnContent, OwnJob, Named
    <3> QED BY <3>5, <3>6 DEF OwnContent
  <2>3. OwnJob(t)'
    BY <1>21, <2>1, EmptyNamed DEF FinishRemove, Goto, Finish, ShapeOK, Job, LocalsSet, OwnInv, OwnJob, Named
  <2>4. \A s \in Thread \ {t} : pc'[s] = pc[s] /\ job'[s] = job[s]
    BY <1>21 DEF FinishRemove, Goto, Finish, ShapeOK
  <2> QED BY <2>1, <2>2, <2>3, <2>4, <1>a
<1>22. ASSUME NEW t \in Handler, NEW i \in Id, NEW e \in BOOLEAN, SetEnabled(t, i, e)
      PROVE  OwnInv'
  <2>1. t \in Thread /\ UNCHANGED <<owner, nextId>>
    BY <1>22 DEF SetEnabled, disk, Thread
  <2>2. OwnContent'
    <3> DEFINE p == Owner[t]
               table == [rows[p] EXCEPT ![i].enabled = e]
               sets  == doms[p]
    <3>1. i \in Id /\ p \in Process
      BY <1>22, <2>1 DEF SetEnabled, LocalsSet
    <3>2. Named(rows[p]) /\ Named(doms[p]) /\ rows[p] \in Table /\ doms[p] \in Sets
      BY <3>1 DEF OwnContent, ShapeOK
    <3>3. Named(table) /\ Named(sets)
      BY <1>22, <3>1, <3>2 DEF SetEnabled, Named, Table, Row
    <3>4. Install(t, table, sets)
      BY <1>22 DEF SetEnabled
    <3>5. \A q \in Process : Named(rows[q])' /\ Named(doms[q])'
      BY <2>1, <3>3, <3>4, InstallNamed
    <3>6. Named(db)' /\ Named(cache)'
      BY <1>22, <2>1 DEF SetEnabled, OwnContent, Named, ShapeOK, Table, Row
    <3> QED BY <3>5, <3>6 DEF OwnContent
  <2>3. OwnJob(t)'
    BY <1>22, <2>1, EmptyNamed DEF SetEnabled, Goto, Finish, ShapeOK, Job, LocalsSet, OwnInv, OwnJob, Named
  <2>4. \A s \in Thread \ {t} : pc'[s] = pc[s] /\ job'[s] = job[s]
    BY <1>22 DEF SetEnabled, Goto, Finish, ShapeOK
  <2> QED BY <2>1, <2>2, <2>3, <2>4, <1>a
<1>23. ASSUME NEW t \in Handler, NEW i \in Id, RefreshOne(t, i)
      PROVE  OwnInv'
  <2>1. t \in Thread /\ UNCHANGED <<owner, nextId>>
    BY <1>23 DEF RefreshOne, disk, Thread
  <2>2. OwnContent'
    BY <1>23, <1>b DEF RefreshOne, disk
  <2>3. OwnJob(t)'
    <3>1. job'[t] = CaptureOf(t, i, {}) /\ rows[Owner[t]][i] # None /\ pc'[t] = "fetch"
      BY <1>23, <2>1 DEF RefreshOne, Capture, CaptureOf, Goto, ShapeOK
    <3> QED BY <2>1, <3>1, CaptureOwned
  <2>4. \A s \in Thread \ {t} : pc'[s] = pc[s] /\ job'[s] = job[s]
    BY <1>23 DEF RefreshOne, Capture, Goto, Finish, ShapeOK
  <2> QED BY <2>1, <2>2, <2>3, <2>4, <1>a
<1>24. ASSUME NEW t \in Handler, RefreshAll(t)
      PROVE  OwnInv'
  <2>1. t \in Thread /\ Select(t, "resync")
    BY <1>24 DEF RefreshAll, Thread
  <2>2. OwnContent' /\ UNCHANGED <<owner, nextId>>
    BY <2>1, <1>b DEF Select, StatementRaises, disk
  <2>3. OwnJob(t)'
    BY <2>1, <2>2, EmptyNamed DEF Select, StatementRaises, Raise, Goto, Finish, disk, ShapeOK, OwnJob, Named, OwnContent, NoJob
  <2>4. \A s \in Thread \ {t} : pc'[s] = pc[s] /\ job'[s] = job[s]
    BY <2>1 DEF Select, StatementRaises, Raise, Goto, Finish, ShapeOK
  <2> QED BY <2>1, <2>2, <2>3, <2>4, <1>a
<1>25. ASSUME NEW u \in Url, Publish(u)
      PROVE  OwnInv'
  BY <1>25 DEF Publish, disk, memory, OwnInv, OwnContent, Fresh, OwnJob, Named
<1>26. ASSUME NEW p \in Process, Crash(p)
      PROVE  OwnInv'
  <2>1. OwnContent'
    BY <1>26, EmptyNamed DEF Crash, disk, OwnContent, Named, ShapeOK
  <2>2. ASSUME NEW t \in Thread
        PROVE  OwnJob(t)'
    <3>1. CASE Owner[t] = p
      BY <1>26, <3>1, EmptyNamed DEF Crash, disk, OwnJob, Named
    <3>2. CASE Owner[t] # p
      BY <1>26, <3>2, <1>e DEF Crash, disk, OwnJob, Named
    <3> QED BY <3>1, <3>2
  <2>3. Fresh'
    BY <1>26 DEF Crash, disk, Fresh
  <2> QED BY <2>1, <2>2, <2>3 DEF OwnInv
<1>27. CASE UNCHANGED vars
  BY <1>27 DEF vars, disk, memory, OwnInv, OwnContent, Fresh, OwnJob, Named
<1>28. ASSUME NEW t \in Thread, CommitRaises(t)
      PROVE  OwnInv'
  <2>1. t \in Thread /\ UNCHANGED <<owner, nextId>>
    BY <1>28 DEF CommitRaises, StatementRaises, disk
  <2>2. OwnContent'
    BY <1>28, <1>b DEF CommitRaises, StatementRaises, disk
  <2>3. OwnJob(t)'
    BY <1>28, <2>1, EmptyNamed
       DEF CommitRaises, StatementRaises, Raise, Goto, Finish, ShapeOK, Job, LocalsSet,
           OwnInv, OwnJob, Named
  <2>4. \A s \in Thread \ {t} : pc'[s] = pc[s] /\ job'[s] = job[s]
    BY <1>28 DEF CommitRaises, StatementRaises, Raise, Goto, Finish, ShapeOK
  <2> QED BY <2>1, <2>2, <2>3, <2>4, <1>a
<1> QED
  BY <1>1, <1>2, <1>3, <1>4, <1>5, <1>6, <1>7, <1>8, <1>9, <1>10, <1>11, <1>12,
     <1>13, <1>14, <1>15, <1>16, <1>17, <1>18, <1>19, <1>20, <1>21, <1>22, <1>23,
     <1>24, <1>25, <1>26, <1>27, <1>28
     DEF Next, SyncStep, RefreshStep, AddStep, Request

\* No list ever serves, in any process, after any restart and from any cache
\* file, domains that were downloaded for another URL.
THEOREM ContentIsOwn == Spec => []OwnContent
<1>1. Init => OwnInv
  BY EmptyNamed DEF Init, OwnInv, OwnContent, Fresh, OwnJob, Named, EmptyTable
<1>2. OwnInv /\ TypeOK /\ [Next]_vars => OwnInv'
  BY OwnStep
<1>3. OwnInv => OwnContent
  BY DEF OwnInv
<1> QED BY <1>1, <1>2, <1>3, TypeCorrect, PTL DEF Spec
=============================================================================
