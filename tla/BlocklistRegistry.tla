-------------------------- MODULE BlocklistRegistry --------------------------
(***************************************************************************)
(* The multi-list blocklist registry of blocklist_manager.py, as the       *)
(* three transport processes run it.  Each process owns one                *)
(* BlocklistManager (rows, domain sets, merged index, lock); all share the *)
(* sqlite table `blocklists` (db) and the on-disk domain cache (cache).    *)
(* Only the dashboard process adds, removes and toggles lists; every       *)
(* process syncs and refreshes from its refresh loop (filtering.py).       *)
(*                                                                         *)
(* A domain set is abstracted to the version of the list file it was       *)
(* parsed from, [url, ver]; an ETag is that version.  name, format,        *)
(* entry_count and last_updated are left out: no branch reads them back.   *)
(* A step is what one thread does between two effects another process can  *)
(* see: a commit, a file replaced, unlinked or read, an HTTP exchange.     *)
(* What a thread does to its own manager under the lock between two such   *)
(* effects is one step, since match() and every other reader take the lock.*)
(***************************************************************************)
EXTENDS Naturals

CONSTANTS
    Process,     \* the transport processes (UDP, DoT, DoH)
    Dashboard,   \* the DoH process: the only one with add/remove/toggle routes
    Loop,        \* the refresh-loop threads, one per process
    Handler,     \* the Flask request threads of Dashboard
    Reloader,    \* the one-shot force_reload threads of dns_server.py
    Owner,       \* the process each thread runs in
    Url,         \* the list URLs users submit
    TaggedUrl,   \* those whose web server sends an ETag
    Commands,    \* the dashboard routes in use
    DiskFaults,  \* may a cache file operation raise OSError?
    DbFaults,    \* may a statement raise sqlite3.OperationalError?
    MaxId,       \* bound: lists ever registered (AUTOINCREMENT values)
    MaxVersion,  \* bound: versions a list file goes through
    MaxCommand,  \* bound: dashboard commands issued
    MaxCrash,    \* bound: process crashes
    None

Thread  == Loop \cup Handler \cup Reloader
Id      == 1 .. MaxId
Version == 1 .. MaxVersion
NoTag   == 0
Content == [url : Url, ver : Version]
Row     == [url : Url, enabled : BOOLEAN, etag : 0 .. MaxVersion]
Route   == {"add", "remove", "toggle", "refresh", "refresh_all"}

ASSUME BoundAssumption ==
    /\ {MaxId, MaxVersion, MaxCommand, MaxCrash} \subseteq Nat
    /\ MaxVersion > 0
ASSUME ProcessAssumption ==
    /\ Dashboard \in Process
    /\ Owner \in [Thread -> Process]
    /\ \A t \in Handler : Owner[t] = Dashboard
    /\ \A s, t \in Loop : Owner[s] = Owner[t] => s = t
    /\ Loop \cap Handler = {} /\ Loop \cap Reloader = {}
    /\ Handler \cap Reloader = {}
ASSUME InputAssumption ==
    /\ TaggedUrl \subseteq Url /\ Commands \subseteq Route
    /\ DiskFaults \in BOOLEAN /\ DbFaults \in BOOLEAN
ASSUME NoneAssumption == None \notin Row \cup Content \cup Thread \cup Url

VARIABLES
    db,       \* the committed rows of table blocklists: Id -> Row or None
    nextId,   \* sqlite_sequence: the id the next INSERT gets
    owner,    \* history: the URL each id was registered for
    cache,    \* blocklist_cache/<id>.txt: Id -> Content or None
    upstream, \* the version each URL serves now
    running,  \* "down", "loading" (in __init__) or "up", per process
    rows,     \* self._rows, per process
    doms,     \* self._list_domains; None is an absent or empty set
    index,    \* self._index, by list: the content whose domains carry its bit
    mask,     \* self._enabled_mask, as the set of its bits
    lock,     \* the thread that holds self.lock, or None
    pc,       \* where each thread is
    job,      \* the local variables of each thread
    commands, \* dashboard commands issued so far
    crashes   \* crashes so far

disk    == <<db, nextId, owner, cache>>
memory  == <<rows, doms, index, mask>>
bounds  == <<commands, crashes>>
vars    == <<disk, upstream, running, memory, lock, pc, job, bounds>>

EmptyTable == [i \in Id |-> None]
NoJob == [id |-> 0, url |-> None, etag |-> NoTag, content |-> None,
          todo |-> {}, snap |-> EmptyTable, read |-> EmptyTable, seen |-> {}]

Syncing  == {"load", "tick", "resync"}
Holding  == Syncing \cup {"write", "add_write", "removing"}
Stage    == Holding \cup {"idle", "decide", "pick", "fetch", "touch", "got",
                          "add_fetch", "add_insert", "dead"}

Listed(table) == {i \in Id : table[i] # None}
Least(S)      == CHOOSE i \in S : \A j \in S : i <= j

\* the ETag header of the response that carried content c
TagOf(c)      == IF c.url \in TaggedUrl THEN c.ver ELSE NoTag
Current(u)    == [url |-> u, ver |-> upstream[u]]
-----------------------------------------------------------------------------
(***************************************************************************)
(* Helpers: the lock, the index, the cache files.                          *)
(***************************************************************************)
LockFree(t)  == lock[Owner[t]] = None
Acquire(t)   == lock' = [lock EXCEPT ![Owner[t]] = t]
Release(t)   == lock' = [lock EXCEPT ![Owner[t]] = None]
Goto(t, l)   == pc' = [pc EXCEPT ![t] = l]
Finish(t)    == job' = [job EXCEPT ![t] = NoJob]
Up(t)        == running[Owner[t]] = "up"

\* _rebuild_index over the given rows and domain sets
IndexOf(table, sets) == [i \in Id |-> IF table[i] = None THEN None ELSE sets[i]]
MaskOf(table)        == {i \in Listed(table) : table[i].enabled}

\* the manager of t's process now holds table and sets, and its index is rebuilt
Install(t, table, sets) ==
    LET p == Owner[t] IN
    /\ rows'  = [rows EXCEPT ![p] = table]
    /\ doms'  = [doms EXCEPT ![p] = sets]
    /\ index' = [index EXCEPT ![p] = IndexOf(table, sets)]
    /\ mask'  = [mask EXCEPT ![p] = MaskOf(table)]

\* _write_cache: an OSError is logged and otherwise ignored
WriteCache(i, c) ==
    \/ cache' = [cache EXCEPT ![i] = c]
    \/ DiskFaults /\ UNCHANGED cache

\* An exception no caller catches ends a background thread; in a route it is
\* an HTTP 500.  `with self.lock` has released the lock.
Raise(t) == Goto(t, IF t \in Handler THEN "idle" ELSE "dead") /\ Finish(t)

\* sqlite3.OperationalError ("database is locked"): nothing is committed
StatementRaises(t) ==
    /\ DbFaults /\ LockFree(t) /\ Raise(t)
    /\ UNCHANGED <<disk, upstream, memory, lock, crashes>>
-----------------------------------------------------------------------------
Init ==
    /\ db = EmptyTable /\ nextId = 1 /\ owner = EmptyTable /\ cache = EmptyTable
    /\ upstream = [u \in Url |-> 1]
    /\ running = [p \in Process |-> "down"]
    /\ rows = [p \in Process |-> EmptyTable] /\ doms = rows /\ index = rows
    /\ mask = [p \in Process |-> {}]
    /\ lock = [p \in Process |-> None]
    /\ pc = [t \in Thread |-> "idle"] /\ job = [t \in Thread |-> NoJob]
    /\ commands = 0 /\ crashes = 0

(***************************************************************************)
(* sync_registry, alone (a loop tick) or as the head of refresh_all, and   *)
(* _load_from_db, which is the same walk over an empty manager.  SELECT    *)
(* gives a snapshot; each new row's cache file is read after it.  The      *)
(* SELECT may raise: in __init__ the process then does not come up, which  *)
(* leaves it down and is no step here.                                     *)
(***************************************************************************)
\* fault: the SELECT is made without the lock
UnlockedSelect(t, stage) ==
    /\ Goto(t, stage)
    /\ job' = [job EXCEPT ![t] = [NoJob EXCEPT !.snap = db]]
    /\ UNCHANGED <<lock, disk, upstream, memory, crashes>>

Select(t, stage) ==
    \/ /\ LockFree(t)
       /\ Acquire(t) /\ Goto(t, stage)
       /\ job' = [job EXCEPT ![t] = [NoJob EXCEPT !.snap = db]]
       /\ UNCHANGED <<disk, upstream, memory, crashes>>
    \/ stage # "load" /\ StatementRaises(t)

\* a process is started: its main thread, which becomes the refresh loop here,
\* runs BlocklistManager.__init__
Start(t) ==
    /\ running[Owner[t]] = "down"
    /\ running' = [running EXCEPT ![Owner[t]] = "loading"]
    /\ Select(t, "load") /\ UNCHANGED commands

\* fault: force_reload may come later than the first tick
EarlyTick(t) ==
    /\ Up(t) /\ pc[t] = "idle"
    /\ Select(t, "tick") /\ UNCHANGED <<running, commands>>

\* the force_reload thread (10 s after start) is ahead of the first tick (60 s)
Tick(t) ==
    /\ Up(t) /\ pc[t] = "idle"
    /\ \A r \in Reloader : Owner[r] = Owner[t] => pc[r] # "idle"
    /\ Select(t, "tick") /\ UNCHANGED <<running, commands>>

Unknown(t) == Listed(job[t].snap) \ Listed(rows[Owner[t]])

ReadCache(t) ==
    /\ pc[t] \in Syncing /\ Unknown(t) \ job[t].seen # {}
    /\ LET i == Least(Unknown(t) \ job[t].seen) IN
       \E c \in {cache[i]} \cup IF DiskFaults THEN {None} ELSE {} :
          job' = [job EXCEPT ![t].read[i] = c, ![t].seen = @ \cup {i}]
    /\ UNCHANGED <<disk, upstream, running, memory, lock, pc, bounds>>

\* fault: rows that left the table stay in memory
NeverDropped(t) ==
    LET table == rows[Owner[t]] snap == job[t].snap IN
    [i \in Id |-> IF snap[i] # None /\ table[i] # None
                  THEN [table[i] EXCEPT !.enabled = snap[i].enabled]
                  ELSE IF snap[i] # None THEN snap[i] ELSE table[i]]

\* fault: the enabled flag of a known row is not synced
FlagsIgnored(t) ==
    [i \in Id |-> IF job[t].snap[i] = None \/ rows[Owner[t]][i] = None
                  THEN job[t].snap[i] ELSE rows[Owner[t]][i]]

\* known rows keep all but the enabled flag; the others come or go
Synced(t) ==
    LET table == rows[Owner[t]] snap == job[t].snap IN
    [i \in Id |-> IF snap[i] = None \/ table[i] = None THEN snap[i]
                  ELSE [table[i] EXCEPT !.enabled = snap[i].enabled]]

SyncedDomains(t) ==
    [i \in Id |-> IF job[t].snap[i] = None THEN None
                  ELSE IF i \in Unknown(t) THEN job[t].read[i]
                  ELSE doms[Owner[t]][i]]

SyncRegistry(t) ==
    /\ pc[t] \in Syncing /\ Unknown(t) \subseteq job[t].seen
    /\ IF Synced(t) = rows[Owner[t]]
       THEN UNCHANGED memory
       ELSE Install(t, Synced(t), SyncedDomains(t))
    /\ Release(t)
    /\ running' = [running EXCEPT ![Owner[t]] = "up"]
    /\ \/ pc[t] = "load" /\ Goto(t, "idle") /\ Finish(t)
       \/ pc[t] = "tick" /\ Goto(t, "decide") /\ Finish(t)
       \/ /\ pc[t] = "resync" /\ Goto(t, "pick")
          /\ job' = [job EXCEPT ![t] = [NoJob EXCEPT !.todo = Listed(Synced(t))]]
    /\ UNCHANGED <<disk, upstream, bounds>>
-----------------------------------------------------------------------------
(***************************************************************************)
(* refresh_all and refresh_list.                                           *)
(***************************************************************************)
\* the loop finds reload.trigger or six hours gone since the last refresh ...
RefreshDue(t) ==
    /\ pc[t] = "decide"
    /\ Select(t, "resync") /\ UNCHANGED <<running, commands>>

\* ... or goes back to sleep
NotDue(t) ==
    /\ pc[t] = "decide" /\ Goto(t, "idle")
    /\ UNCHANGED <<disk, upstream, running, memory, lock, job, bounds>>

\* dns_server.py: trigger_reload -> engine.force_reload
ForceReload(t) ==
    /\ Up(t) /\ pc[t] = "idle"
    /\ Select(t, "resync") /\ UNCHANGED <<running, commands>>

\* refresh_list(i) begins: the row's url and etag are read under the lock
Capture(t, i, todo) ==
    LET row == rows[Owner[t]][i] IN
    /\ Goto(t, "fetch")
    /\ job' = [job EXCEPT ![t] = [NoJob EXCEPT !.id = i, !.url = row.url,
                                     !.etag = row.etag, !.todo = todo]]

NextList(t) ==
    /\ pc[t] = "pick"
    /\ IF job[t].todo = {}
       THEN Goto(t, IF t \in Reloader THEN "dead" ELSE "idle") /\ Finish(t)
       ELSE LET i == Least(job[t].todo) IN
            /\ LockFree(t)
            /\ IF rows[Owner[t]][i] = None  \* ValueError, caught by refresh_all
               THEN job' = [job EXCEPT ![t].todo = @ \ {i}] /\ UNCHANGED pc
               ELSE Capture(t, i, job[t].todo \ {i})
    /\ UNCHANGED <<disk, upstream, running, memory, lock, bounds>>

\* fault: a failed download empties the list
FetchClears(t) ==
    /\ pc[t] = "fetch" /\ LockFree(t) /\ Goto(t, "pick")
    /\ Install(t, rows[Owner[t]], [doms[Owner[t]] EXCEPT ![job[t].id] = None])
    /\ UNCHANGED <<disk, upstream, running, lock, job, bounds>>

\* download error, parse error or zero domains: everything is kept
FetchFails(t) ==
    /\ pc[t] = "fetch" /\ Goto(t, "pick")
    /\ UNCHANGED <<disk, upstream, running, memory, lock, job, bounds>>

FetchSucceeds(t) ==
    /\ pc[t] = "fetch"
    /\ IF job[t].etag = upstream[job[t].url]
       THEN Goto(t, "touch") /\ UNCHANGED job
       ELSE Goto(t, "got") /\ job' = [job EXCEPT ![t].content = Current(job[t].url)]
    /\ UNCHANGED <<disk, upstream, running, memory, lock, bounds>>

\* fault: after a 304 the captured row is written back, ETag included
TagWrittenBack(t) ==
    LET i == job[t].id p == Owner[t] IN
    /\ pc[t] = "touch" /\ LockFree(t)
    /\ IF rows[p][i] = None
       THEN Raise(t) /\ UNCHANGED rows
       ELSE /\ Goto(t, "pick") /\ UNCHANGED job
            /\ rows' = [rows EXCEPT ![p][i].etag = job[t].etag]
    /\ UNCHANGED <<disk, upstream, running, doms, index, mask, lock, bounds>>

\* 304: only last_updated changes, but self._rows[list_id] must still be there
\* and the UPDATE must not raise
NotModified(t) ==
    /\ pc[t] = "touch" /\ LockFree(t)
    /\ IF rows[Owner[t]][job[t].id] = None
       THEN Raise(t)
       ELSE \/ Goto(t, "pick") /\ UNCHANGED job
            \/ DbFaults /\ Raise(t)
    /\ UNCHANGED <<disk, upstream, running, memory, lock, bounds>>

\* fault: lock.acquire() in place of `with`, so a KeyError leaves it locked
LockLeaks(t) ==
    LET i == job[t].id IN
    /\ pc[t] = "got" /\ LockFree(t)
    /\ db' = IF db[i] = None THEN db
             ELSE [db EXCEPT ![i].etag = TagOf(job[t].content)]
    /\ Acquire(t)
    /\ IF rows[Owner[t]][i] = None
       THEN Raise(t) ELSE Goto(t, "write") /\ UNCHANGED job
    /\ UNCHANGED <<nextId, owner, cache, upstream, running, memory, bounds>>

\* fault: the row is not looked for again after the download
RowAssumed(t) ==
    LET i == job[t].id IN
    /\ pc[t] = "got" /\ LockFree(t)
    /\ db' = IF db[i] = None THEN db
             ELSE [db EXCEPT ![i].etag = TagOf(job[t].content)]
    /\ Goto(t, "write") /\ Acquire(t)
    /\ UNCHANGED <<job, nextId, owner, cache, upstream, running, memory, bounds>>

\* 200: UPDATE and commit, then self._rows[list_id] is indexed: a KeyError when
\* remove_list came in between
CommitRefresh(t) ==
    LET i == job[t].id IN
    /\ pc[t] = "got" /\ LockFree(t)
    /\ db' = IF db[i] = None THEN db
             ELSE [db EXCEPT ![i].etag = TagOf(job[t].content)]
    /\ IF rows[Owner[t]][i] = None
       THEN Raise(t) /\ UNCHANGED lock
       ELSE Goto(t, "write") /\ Acquire(t) /\ UNCHANGED job
    /\ UNCHANGED <<nextId, owner, cache, upstream, running, memory, bounds>>

\* ... or the UPDATE or its commit raises
CommitRaises(t) ==
    pc[t] = "got" /\ StatementRaises(t) /\ UNCHANGED <<running, commands>>

\* fault: rows and cache file take the download, the domain set does not
SetNotReplaced(t) ==
    LET i == job[t].id c == job[t].content p == Owner[t] IN
    /\ pc[t] = "write"
    /\ Install(t, [rows[p] EXCEPT ![i].etag = TagOf(c)], doms[p])
    /\ WriteCache(i, c)
    /\ Release(t) /\ Goto(t, "pick")
    /\ job' = [job EXCEPT ![t] = [NoJob EXCEPT !.todo = job[t].todo]]
    /\ UNCHANGED <<db, nextId, owner, upstream, running, bounds>>

\* memory, index and cache file take the download
FinishRefresh(t) ==
    LET i == job[t].id c == job[t].content p == Owner[t] IN
    /\ pc[t] = "write"
    /\ Install(t, [rows[p] EXCEPT ![i].etag = TagOf(c)], [doms[p] EXCEPT ![i] = c])
    /\ WriteCache(i, c)
    /\ Release(t) /\ Goto(t, "pick")
    /\ job' = [job EXCEPT ![t] = [NoJob EXCEPT !.todo = job[t].todo]]
    /\ UNCHANGED <<db, nextId, owner, upstream, running, bounds>>
-----------------------------------------------------------------------------
(***************************************************************************)
(* The mutating dashboard routes (phase5/backend/app.py), each one call of *)
(* the Dashboard's BlocklistManager in a Flask request thread.  One whose  *)
(* first statement raises answers 500 and has changed nothing.             *)
(***************************************************************************)
Command(t, route) ==
    /\ Up(t) /\ pc[t] = "idle"
    /\ route \in Commands /\ commands < MaxCommand
    /\ commands' = commands + 1

\* add_list up to the duplicate check
AddList(t, u) ==
    /\ Command(t, "add") /\ LockFree(t)
    /\ \A i \in Listed(db) : db[i].url # u
    /\ Goto(t, "add_fetch") /\ job' = [job EXCEPT ![t].url = u]
    /\ UNCHANGED <<disk, upstream, running, memory, lock, crashes>>

\* ValueError: the URL cannot be downloaded or parsed; or the INSERT raises
AddFails(t) ==
    /\ \/ pc[t] = "add_fetch"
       \/ pc[t] = "add_insert" /\ DbFaults /\ LockFree(t)
    /\ Goto(t, "idle") /\ Finish(t)
    /\ UNCHANGED <<disk, upstream, running, memory, lock, bounds>>

AddFetched(t) ==
    /\ pc[t] = "add_fetch" /\ Goto(t, "add_insert")
    /\ job' = [job EXCEPT ![t].content = Current(job[t].url)]
    /\ UNCHANGED <<disk, upstream, running, memory, lock, bounds>>

\* the url column is UNIQUE: IntegrityError becomes "already registered"
InsertConflict(t) ==
    /\ pc[t] = "add_insert" /\ LockFree(t)
    /\ \E i \in Listed(db) : db[i].url = job[t].url
    /\ Goto(t, "idle") /\ Finish(t)
    /\ UNCHANGED <<disk, upstream, running, memory, lock, bounds>>

\* fault: without AUTOINCREMENT the highest free id is used again
IdReused(t) ==
    LET i == Least(Id \ Listed(db)) IN
    /\ pc[t] = "add_insert" /\ LockFree(t) /\ nextId <= MaxId
    /\ \A j \in Listed(db) : db[j].url # job[t].url
    /\ db' = [db EXCEPT ![i] = [url |-> job[t].url, enabled |-> TRUE,
                                etag |-> TagOf(job[t].content)]]
    /\ owner' = [owner EXCEPT ![i] = job[t].url]
    /\ nextId' = nextId + 1
    /\ job' = [job EXCEPT ![t].id = i, ![t].snap[i] = db'[i]]
    /\ Acquire(t) /\ Goto(t, "add_write")
    /\ UNCHANGED <<cache, upstream, running, memory, bounds>>

\* fault: the url column is not UNIQUE
NotUnique(t) ==
    /\ pc[t] = "add_insert" /\ LockFree(t) /\ nextId <= MaxId
    /\ db' = [db EXCEPT ![nextId] = [url |-> job[t].url, enabled |-> TRUE,
                                     etag |-> TagOf(job[t].content)]]
    /\ owner' = [owner EXCEPT ![nextId] = job[t].url]
    /\ nextId' = nextId + 1
    /\ job' = [job EXCEPT ![t].id = nextId, ![t].snap[nextId] = db'[nextId]]
    /\ Acquire(t) /\ Goto(t, "add_write")
    /\ UNCHANGED <<cache, upstream, running, memory, bounds>>

\* AUTOINCREMENT: ids are never used twice
InsertRow(t) ==
    /\ pc[t] = "add_insert" /\ LockFree(t) /\ nextId <= MaxId
    /\ \A i \in Listed(db) : db[i].url # job[t].url
    /\ \E e \in BOOLEAN :
         db' = [db EXCEPT ![nextId] = [url |-> job[t].url, enabled |-> e,
                                       etag |-> TagOf(job[t].content)]]
    /\ owner' = [owner EXCEPT ![nextId] = job[t].url]
    /\ nextId' = nextId + 1
    /\ job' = [job EXCEPT ![t].id = nextId, ![t].snap[nextId] = db'[nextId]]
    /\ Acquire(t) /\ Goto(t, "add_write")
    /\ UNCHANGED <<cache, upstream, running, memory, bounds>>

\* fault: add_list leaves the cache file to the next refresh
AddNotCached(t) ==
    LET i == job[t].id c == job[t].content p == Owner[t] IN
    /\ pc[t] = "add_write"
    /\ Install(t, [rows[p] EXCEPT ![i] = job[t].snap[i]], [doms[p] EXCEPT ![i] = c])
    /\ Release(t) /\ Goto(t, "idle") /\ Finish(t)
    /\ UNCHANGED <<disk, upstream, running, bounds>>

FinishAdd(t) ==
    LET i == job[t].id c == job[t].content p == Owner[t] IN
    /\ pc[t] = "add_write"
    /\ Install(t, [rows[p] EXCEPT ![i] = job[t].snap[i]], [doms[p] EXCEPT ![i] = c])
    /\ WriteCache(i, c)
    /\ Release(t) /\ Goto(t, "idle") /\ Finish(t)
    /\ UNCHANGED <<db, nextId, owner, upstream, running, bounds>>

\* remove_list: DELETE and commit ...
RemoveList(t, i) ==
    /\ Command(t, "remove") /\ LockFree(t) /\ rows[Owner[t]][i] # None
    /\ db' = [db EXCEPT ![i] = None]
    /\ job' = [job EXCEPT ![t].id = i]
    /\ Acquire(t) /\ Goto(t, "removing")
    /\ UNCHANGED <<nextId, owner, cache, upstream, running, memory, crashes>>

\* ... then memory and the cache file (an OSError is ignored)
FinishRemove(t) ==
    LET i == job[t].id p == Owner[t] IN
    /\ pc[t] = "removing"
    /\ Install(t, [rows[p] EXCEPT ![i] = None], [doms[p] EXCEPT ![i] = None])
    /\ WriteCache(i, None)
    /\ Release(t) /\ Goto(t, "idle") /\ Finish(t)
    /\ UNCHANGED <<db, nextId, owner, upstream, running, bounds>>

\* fault: the index and mask are not rebuilt
MaskNotRebuilt(t, i, e) ==
    LET p == Owner[t] IN
    /\ Command(t, "toggle") /\ LockFree(t) /\ rows[p][i] # None
    /\ db' = IF db[i] = None THEN db ELSE [db EXCEPT ![i].enabled = e]
    /\ rows' = [rows EXCEPT ![p][i].enabled = e]
    /\ UNCHANGED <<nextId, owner, cache, upstream, running, doms, index, mask,
                   lock, pc, job, crashes>>

SetEnabled(t, i, e) ==
    LET p == Owner[t] IN
    /\ Command(t, "toggle") /\ LockFree(t) /\ rows[p][i] # None
    /\ db' = IF db[i] = None THEN db ELSE [db EXCEPT ![i].enabled = e]
    /\ Install(t, [rows[p] EXCEPT ![i].enabled = e], doms[p])
    /\ UNCHANGED <<nextId, owner, cache, upstream, running, lock, pc, job, crashes>>

RefreshOne(t, i) ==
    /\ Command(t, "refresh") /\ LockFree(t) /\ rows[Owner[t]][i] # None
    /\ Capture(t, i, {})
    /\ UNCHANGED <<disk, upstream, running, memory, lock, crashes>>

RefreshAll(t) ==
    /\ Command(t, "refresh_all")
    /\ Select(t, "resync") /\ UNCHANGED running
-----------------------------------------------------------------------------
(***************************************************************************)
(* The environment: list files change, processes die.                      *)
(***************************************************************************)
Publish(u) ==
    /\ upstream[u] < MaxVersion
    /\ upstream' = [upstream EXCEPT ![u] = @ + 1]
    /\ UNCHANGED <<disk, running, memory, lock, pc, job, bounds>>

Crash(p) ==
    /\ running[p] # "down" /\ crashes < MaxCrash
    /\ crashes' = crashes + 1
    /\ running' = [running EXCEPT ![p] = "down"]
    /\ rows'  = [rows EXCEPT ![p] = EmptyTable]
    /\ doms'  = [doms EXCEPT ![p] = EmptyTable]
    /\ index' = [index EXCEPT ![p] = EmptyTable]
    /\ mask'  = [mask EXCEPT ![p] = {}]
    /\ lock'  = [lock EXCEPT ![p] = None]
    /\ pc'    = [t \in Thread |-> IF Owner[t] = p THEN "idle" ELSE pc[t]]
    /\ job'   = [t \in Thread |-> IF Owner[t] = p THEN NoJob ELSE job[t]]
    /\ UNCHANGED <<disk, upstream, commands>>

SyncStep(t)    == ReadCache(t) \/ SyncRegistry(t)
RefreshStep(t) == \/ NextList(t) \/ FetchFails(t) \/ FetchSucceeds(t)
                  \/ NotModified(t) \/ CommitRefresh(t) \/ CommitRaises(t)
                  \/ FinishRefresh(t)
AddStep(t)     == \/ AddFails(t) \/ AddFetched(t) \/ InsertConflict(t)
                  \/ InsertRow(t) \/ FinishAdd(t)
Request(t)     == \/ \E u \in Url : AddList(t, u)
                  \/ \E i \in Id : RemoveList(t, i) \/ RefreshOne(t, i)
                  \/ \E i \in Id, e \in BOOLEAN : SetEnabled(t, i, e)
                  \/ RefreshAll(t)

Next ==
    \/ \E t \in Loop : Start(t) \/ Tick(t) \/ RefreshDue(t) \/ NotDue(t)
    \/ \E t \in Thread : SyncStep(t) \/ RefreshStep(t)
    \/ \E t \in Reloader : ForceReload(t)
    \/ \E t \in Handler : Request(t) \/ AddStep(t) \/ FinishRemove(t)
    \/ \E u \in Url : Publish(u)
    \/ \E p \in Process : Crash(p)

Spec == Init /\ [][Next]_vars

(***************************************************************************)
(* Threads keep running; no list's web server is out of reach forever; the *)
(* six-hour schedule comes due again and again.  Starting a process,       *)
(* issuing a command, publishing and crashing are never obliged to happen. *)
(***************************************************************************)
Fairness ==
    /\ \A t \in Loop : WF_vars(Tick(t)) /\ WF_vars(NotDue(t)) /\ SF_vars(RefreshDue(t))
    /\ \A t \in Reloader : WF_vars(ForceReload(t))
    /\ \A t \in Thread : WF_vars(SyncStep(t)) /\ WF_vars(RefreshStep(t))
    /\ \A t \in Thread, i \in Id : SF_vars(job[t].id = i /\ FetchSucceeds(t))
    /\ \A t \in Handler : WF_vars(AddStep(t)) /\ WF_vars(FinishRemove(t))

FairSpec == Spec /\ Fairness
-----------------------------------------------------------------------------
(***************************************************************************)
(* Properties.                                                             *)
(***************************************************************************)
Table == [Id -> Row \cup {None}]
Sets  == [Id -> Content \cup {None}]
Job   == [id : 0 .. MaxId, url : Url \cup {None}, etag : 0 .. MaxVersion,
          content : Content \cup {None}, todo : SUBSET Id,
          snap : Table, read : Sets, seen : SUBSET Id]

ShapeOK ==
    /\ db \in Table /\ nextId \in 1 .. MaxId + 1
    /\ owner \in [Id -> Url \cup {None}] /\ cache \in Sets
    /\ upstream \in [Url -> Version]
    /\ running \in [Process -> {"down", "loading", "up"}]
    /\ rows \in [Process -> Table]
    /\ doms \in [Process -> Sets] /\ index \in [Process -> Sets]
    /\ mask \in [Process -> SUBSET Id]
    /\ lock \in [Process -> Thread \cup {None}]
    /\ pc \in [Thread -> Stage] /\ job \in [Thread -> Job]
    /\ commands \in 0 .. MaxCommand /\ crashes \in 0 .. MaxCrash

LocalsSet ==
    \A t \in Thread :
      /\ pc[t] \in {"fetch", "touch", "got", "add_fetch", "add_insert"}
           => job[t].url \in Url
      /\ pc[t] \in {"fetch", "touch", "got", "write", "add_write", "removing"}
           => job[t].id \in Id
      /\ pc[t] \in {"got", "write", "add_insert", "add_write"}
           => job[t].content \in Content
      /\ pc[t] = "write" => rows[Owner[t]][job[t].id] # None

\* Every variable has the shape the code gives it, a thread's local variables
\* are set where it uses them, and the row a refresh is about to overwrite in
\* memory is still there: no thread takes it away after the KeyError test.
TypeOK == ShapeOK /\ LocalsSet

\* A thread holds its manager's lock exactly while it is inside a `with
\* self.lock` block, so two threads of a process are never inside one together
\* and none waits for a download with it held: a slow list server cannot
\* stop match(), which takes the same lock (blocklist_manager.py, add_list).
LockDiscipline ==
    \A t \in Thread : pc[t] \in Holding <=> lock[Owner[t]] = t

\* What match() walks is the index of the rows and domain sets now in memory:
\* no path that changes a row, a flag or a domain set leaves the old index.
IndexCurrent ==
    \A p \in Process : /\ index[p] = IndexOf(rows[p], doms[p])
                       /\ mask[p] = MaskOf(rows[p])

Named(table) == \A i \in Id : table[i] # None => table[i].url = owner[i]

\* No list ever serves, in any process or after any restart, domains that were
\* downloaded for another URL: ids are not reused, so a cache file written late
\* by a process that has not noticed a removal cannot reach a newer list.
OwnContent ==
    /\ Named(db) /\ Named(cache)
    /\ \A p \in Process : Named(rows[p]) /\ Named(doms[p])

\* A URL is registered at most once, in the table and in every process's
\* memory, however add requests race and however removals and additions of
\* the same URL are picked up by sync_registry.
OncePerUrl(table) ==
    \A i, j \in Listed(table) : table[i].url = table[j].url => i = j
UniqueUrls == OncePerUrl(db) /\ \A p \in Process : OncePerUrl(rows[p])

\* Outside its critical sections the dashboard process shows and enforces the
\* registry as committed: same lists, same enabled flags.  Its own loop, whose
\* sync works on an earlier SELECT, never resurrects or re-enables a list.
DashboardCoherent ==
    running[Dashboard] = "up" /\ lock[Dashboard] = None =>
      /\ Listed(rows[Dashboard]) = Listed(db)
      /\ MaskOf(rows[Dashboard]) = MaskOf(db)

\* Fail open (blocklist_manager.py:18): while a list stays registered nothing
\* empties its cache file, or its domains in the memory of a process that runs,
\* whatever fails (StaysServed is about restarts).
FailOpen ==
    [][\A i \in Id :
         /\ db[i] # None /\ db'[i] # None /\ cache[i] # None => cache'[i] # None
         /\ \A p \in Process :
              rows[p][i] # None /\ rows'[p][i] # None /\ doms[p][i] # None
                => doms'[p][i] # None]_vars

\* An ETag is honest when the domains in memory are the version it names; a
\* 304 for a dishonest one leaves the list stale for good.
Honest(p, i) ==
    rows[p][i].etag # NoTag =>
      doms[p][i] # None /\ doms[p][i].ver = rows[p][i].etag

\* A refresh, whatever else runs during its download, never turns an honest
\* ETag into a dishonest one: tag and domains change together, under the lock.
TagsStayHonest ==
    [][\A p \in Process, i \in Id :
         rows[p][i] # None /\ rows'[p][i] # None /\ Honest(p, i)
           => Honest(p, i)']_vars

\* "fail open extends to process restarts" (blocklist_manager.py:216): once a
\* process has served a list, it serves it whenever it is up and lists it, as
\* long as the list is registered, however often and wherever it is killed.
\* Only where cache files can be written and read: a write that fails is printed,
\* and the next start finds the list empty.
StaysServed ==
    \A p \in Process, i \in Id :
      [](doms[p][i] # None =>
           [](running[p] = "up" /\ rows[p][i] # None /\ db[i] # None
                => doms[p][i] # None))

\* The refresh loop of process p has not been ended by an exception.
LoopAlive(p) == \A t \in Loop : Owner[t] = p => pc[t] # "dead"

Agrees(p) == Listed(rows[p]) = Listed(db) /\ mask[p] = MaskOf(db)

\* "so a change made via the dashboard reaches the other two processes ...
\* without a restart" (blocklist_manager.py:32): once the dashboard is left
\* alone, every running process ends with the registered lists and their flags.
\* A statement that raises ends a loop, and with it this promise.
RegistryReachesAll == <>[](\A p \in Process : running[p] = "up" => Agrees(p))

\* The same of every process whose refresh loop is still there, whatever fails
\* and whichever processes are killed meanwhile.
RegistryReachesLoops ==
    <>[](\A p \in Process : running[p] = "up" /\ LoopAlive(p) => Agrees(p))

\* Once list files stop changing, every process whose refresh loop is still
\* there ends with the domains that each registered list now has.
ContentConverges ==
    <>[](\A p \in Process : running[p] = "up" /\ LoopAlive(p) =>
           \A i \in Listed(db) : doms[p][i] = Current(db[i].url))

\* "state is consistent across restarts even though the processes don't talk to
\* each other" (filtering.py:15): with no thread in a critical section, the ETag
\* in the table names the version in the cache file, so that a process that
\* starts now reads a row and domains that belong together.  Two processes that
\* refresh one list at once, a kill or a failed write break it.
SharedStateConsistent ==
    (\A p \in Process : lock[p] = None) =>
      \A i \in Listed(db) : db[i].etag # NoTag =>
        cache[i] # None /\ cache[i].ver = db[i].etag

\* No thread of a process without the dashboard finds the row gone that its
\* refresh read before the download: the KeyError of refresh_list cannot happen
\* there, although the loop and the reload thread both sync and refresh.
RowAwaited(t) ==
    pc[t] \in {"fetch", "touch", "got"} => rows[Owner[t]][job[t].id] # None
OthersFindRows == \A t \in Loop : Owner[t] # Dashboard => RowAwaited(t)

\* The refresh loop of a process never ends while the process runs
\* (blocklist_manager.py:30: sync_registry is called periodically).
LoopSurvives == \A t \in Loop : pc[t] # "dead"
=============================================================================
