# A TLA+ verification of HannibaalDNS

HannibaalDNS is a filtering DNS resolver. Three processes (UDP, DNS over TLS,
and DNS over HTTPS with the dashboard's API) answer queries through the same
code and share one SQLite file and one directory of blocklist files. Nothing
tells one process what another did: they meet in tables and files only. This
directory models that code in TLA+, checks it with TLC, and proves with TLAPS
every safety property, action property and refinement that the passing runs
check (one of them for a disk that works), for any number of processes,
threads, lists, messages and entries.

Paths are relative to `src/`.

## 1. The system

| component | state | operations | properties that make it correct |
|---|---|---|---|
| Blocklist registry, `blocklist_manager.py`, routes in `phase5/backend/app.py` | table `blocklists`; per process `_rows`, `_list_domains`, `_index`, `_enabled_mask`, `lock` | `__init__`, `sync_registry`, `add_list`, `remove_list`, `set_enabled`, `refresh_list`, `refresh_all` | memory, index and table agree; an id's domains are those of its URL; failures never empty a list; changes reach every process |
| Refresh scheduling, `filtering.py`, `dns_server.py` | last refresh time, `reload.trigger` | `_refresh_loop`, `force_reload`, `trigger_reload` | the loop goes on; everything is refreshed in the end |
| Cache files, `blocklist_manager.py` | `blocklist_cache/<id>.txt` and `.tmp` | `_read_cache`, `_write_cache`, `_delete_cache` | a file holds one list's domains, belonging with the row's ETag |
| List parsers, `blocklist_manager.py` | none | `parse_list`, `detect_format` | sequential string functions |
| Policy check, `filtering.py`, `blocklist_manager.py` | none of its own; reads profiles and index | `check`, `match` | precedence allow, deny, most specific list entry, at one moment of the query |
| Client profiles, `database.py`, `phase5/backend/app.py` | table `client_profiles` | `get_profile`, `set_profile`, the POST route | every answered edit is kept |
| Query log, `database.py` | `log_queue`, `query_log` | `log_query`, `_log_writer_loop`, `_retention_loop`, `purge_older_than`, `clear_all_logs` | order, no repetition, bounded memory, a clean shutdown |
| UDP and DoT servers, `dns_server.py`, `dot_server.py` | sockets; per connection `buf`, `length` | accept, frame, resolve, reply, flush, stop | messages taken whole and in order, one reply each; connections accepted, served and ended; shutdown ends |
| DoH endpoints and dashboard API, `phase5/backend/app.py` | none | the routes | each route does what its docstring says |
| Resolver, `dns_resolver.py` | none | `resolve_query` | one reply and one log entry on every path |
| Anomaly detector, `anomaly_detection.py` | `query_history`, `client_ip_map`, `entropy_cache`, `last_anomaly_logged`, a bounded queue | `record_query`, detection loop, writer | quiet domains are forgotten; one report per cooldown; an anomaly is missed only for a full queue |
| Dashboard front end, `phase5/frontend/src` | React state | polling and requests | what is shown is what was last known |
| Certificates, configuration, tests, tools | | | not part of the running program's logic |

How they interact. A query's thread calls `resolve_query`, which calls
`FilteringEngine.check` (a SELECT from `client_profiles`, then
`BlocklistManager.match` under the manager's lock) and `Database.log_query`
(`AnomalyDetector.record_query` under the detector's lock, then a `put_nowait`).
Each process runs a refresh loop (`sync_registry` each minute, `refresh_all`
after six hours or a trigger), a log writer, and the detector's two threads. The dashboard's
routes run in Flask request threads beside these. `sync_registry` is the only
way a change reaches the other two processes.

What is hard about it:

* *interleaving*: `refresh_list` and `add_list` download without the lock and
  afterwards use what they read before; two processes write one row and one
  file; a profile edit is a SELECT and a REPLACE in two steps;
* *order of commits and files*: the table is committed first and the cache file
  written afterwards, and a reader or a crash may come in between;
* *stale knowledge*: a process goes on with ids that another has deleted;
* *streams*: DoT messages come in arbitrary pieces, several at a time, from
  clients that leave in the middle of one;
* *failure*: downloads, parsers, cache files and SQL statements fail on their own,
  and an exception that nobody catches ends a background thread for good;
* *limits and shutdown*: a full queue, a stop marker behind the entries, a
  join that gives up after two seconds.

`PROJECT.json` lists each hazard at its line with the properties that cover it.

## 2. Modules

| module | models | state | actions |
|---|---|---|---|
| `BlocklistRegistry` | the registry in all processes | table, cache files, served versions; per process rows, domain sets, index, mask, lock; per thread stage and local variables | one per stretch of code between two effects another process can see |
| `PolicyCheck` | `check` and `match` | profiles, registry, lock, per thread question and label reached | `Ask`, `CheckProfile`, `BeginMatch`, `Walk` (one turn of the loop), `EditProfile`, `Install` |
| `ClientProfiles` | the profile routes | `client_profiles`, per thread request and row read | `Receive` (SELECT and edit), `SetProfile` (REPLACE) |
| `QueryLog` | queue, writer, purges, shutdown | queue, the writer's hand, rows, the main thread's stage | `LogQuery`, `Take`, `Store`, `StoreFails`, `PurgeOlderThan`, `ClearAllLogs`, `Interrupt`, `PutStop`, `Joined`, `JoinTimesOut`, `Killed` |
| `AnomalyDetector` | the anomaly detector | the three dictionaries, marks, queue, the detection thread's stage and local variables | `RecordQuery`, `Second`, `Wake`, `Prune`, `Score`, `Reasons`, `Iterate`, `Report`, `EndRound`, `Take`, `Write` |
| `Resolver` | `resolve_query` | per worker: stage of the call, messages asked, reply, messages logged | `Resolve`, `Blocked`, `Allowed`, `CheckRaises`, `UpstreamAnswers`, `UpstreamFails`, `Returned` |
| `Transports` | DoT connections with their accept loop, DoH requests, datagrams; extends `Resolver` | per worker: messages to send, bytes on the wire, `buf`, `length`, stage, replies sent | `Accept`, `StartThread`, `HandshakeFails`, `Peer`, `PeerGone`, `Receive`, `EndOfStream`, `Length`, `Body`, `SendReply`, `SendFails`, `Refuse`, `Request`, `Respond`, `Failed`; the clients' `Send` and `Leave` |
| `QueryService` | what a client of any transport may rely on | scripts, logged, replies, open | `Log`, `Answer`, `End` |
| `LossyLog` | what the query log promises | counter, pending, rows | `Log`, `Settle`, `Trim`, `Abandon` |
| `MC...` | instances for TLC: symmetric sets, thread owners, names | | |
| `BlocklistRegistryProofs`, `BlocklistOwnershipProofs`, `BlocklistCoherenceProofs` | theorems about the registry, each module building on the one before | | |
| `PolicyCheckProofs`, `ClientProfilesProofs`, `QueryLogProofs`, `AnomalyDetectorProofs`, `TransportsProofs` | theorems about the module of that name | | |

Definitions with a comment `fault:` are plausible bugs. They are used by no
specification; `PROJECT.json` "mutants" puts each in place of the definition
after it and names the property that then fails.

### From code to `BlocklistRegistry`

| code | model |
|---|---|
| `BlocklistManager.__init__`, `_load_from_db` | `Start`, `ReadCache`*, `SyncRegistry` from stage `load` |
| `sync_registry` (a tick of the loop, or the head of `refresh_all`) | `Tick` / `ForceReload` / `RefreshDue` / `RefreshAll`, `ReadCache`*, `SyncRegistry` |
| the loop's decision to refresh | `RefreshDue` or `NotDue` |
| `refresh_list` | `NextList` or `RefreshOne` (capture url and ETag), `FetchSucceeds` or `FetchFails`, then `NotModified` (304), or `CommitRefresh` and `FinishRefresh` (200), or `CommitRaises` |
| `add_list` | `AddList`, `AddFetched` or `AddFails`, `InsertRow` or `InsertConflict`, `FinishAdd` |
| `remove_list` | `RemoveList`, `FinishRemove` |
| `set_enabled` | `SetEnabled` |
| "database is locked" and other `sqlite3.OperationalError`s | the second disjuncts of `Select` and `NotModified`, `CommitRaises`, `AddFails` from `add_insert` |
| an exception nobody catches | `Raise`: HTTP 500 in a route, the end of a refresh loop or of the reload thread |
| a new file at a list's URL; the death of a process | `Publish`; `Crash` |

The merged bitmask index is kept list by list (`index[p][i]` is the content
whose domains carry bit `i`), and a domain set is `[url, ver]`, the URL it came
from and the version of the file then. An ETag is that version; only
`TaggedUrl` have one. Lists are walked in the order of their ids, which is the
order of insertion in the dictionary. A statement that raises in a route before anything
has changed answers 500 and is no step; one that raises in `__init__` keeps the
process down.

### From code to `AnomalyDetector`

A time is kept as its age, and all ages grow together (`Second`); an age at
which no comparison can change any more is capped. So time never ends, and what
must happen in time can be checked as liveness. Each section under `self.lock`
is one action; the clock and the deque that a frequency check reads are read in
one step.

| code | model |
|---|---|
| `record_query` | `RecordQuery(d, lag)`; `lag` is the wait for the lock after the clock was read |
| `sleep(1)`, reading `current_time` | `EndRound`, `Wake` |
| the pruning | `Prune` (`Live`, `Unexpired`) |
| `_calculate_anomaly_score` | `Score` |
| the reasons, with the list comprehension over the live deque | `Reasons`, `Iterate` |
| `_get_anomaly_check_key`, cooldown, `put_nowait` | `Report` (`Due`, `Put`, `Marked`) |
| `_anomaly_writer_loop` | `Take`, `Write` |

### From code to `Transports` and `Resolver`

A message is the sequence of its bytes, and `Frame` puts its length before it in
two digits of base `Base` (256 in the code). The client appends frames to
`wire`, `Receive` takes any number of bytes from it. `asked` and `logged` are
the calls of `resolve_query` and `log_query`; `out` the replies sent.

| code | model |
|---|---|
| `tls_sock.accept()`, which does the handshake | `Accept`, then `StartThread` or `HandshakeFails` |
| `getpeername()` | `Peer` or `PeerGone` |
| the two `recv` loops | `Receive`, `EndOfStream` (end of data, or an `OSError`) |
| `length`, `message` | `Length`, `Body` |
| `resolve_query` | `Resolve`, `Blocked` or `Allowed`, `UpstreamAnswers` or `UpstreamFails` |
| `sendall` | `SendReply` or `SendFails` |
| `DNSError` and every other exception | `Failed` |
| the DoH routes and `_doh_handle`; `SimpleResolver.resolve` | `Refuse`, or `Request` and `Respond` |

## 3. Runs

| run | question | instance |
|---|---|---|
| `registry_dashboard` | do lock, index, ETags, memory and table of the dashboard process stay consistent, URLs unique when two requests race, and served lists served after a restart? | 1 process, loop, 2 request threads, 2 URLs (one with ETags), 2 ids, 2 versions, 3 commands of all five kinds, 1 crash, failing statements, a working disk |
| `registry_two` | across processes: does an id keep its own content, a URL one registration, a list its domains, and a download its row in the process without the dashboard? | 2 processes, the reload thread, 1 request thread, 2 URLs, both with ETags, 2 ids, 3 add/remove commands, failing disk and statements; symmetry of the URLs |
| `registry_converges` | do lists, flags and domains reach every process whose refresh loop is there? | 2 processes, 1 URL without ETags, 2 versions, 2 commands, 1 crash, failing disk and statements, fairness |
| `registry_stuck_empty` | the same with ETags: *violated* | 2 processes, 1 URL, 1 version, 1 command |
| `registry_loop_dies` | does the dashboard's own loop survive a removal? *violated* | 1 process, 1 URL, 2 commands, nothing fails |
| `profiles` | do edits for different clients, or one after another, disturb each other? | 3 threads, 2 clients, 2 domains, 4 requests |
| `profiles_overlap` | and overlapping ones of one client? *violated* | 2 threads, 1 client |
| `policy` | is each answer one the precedence gives at some moment of the query? | 2 resolver threads, a client and a query without one, 2 lists, names of one to three labels, 2 changes |
| `querylog` | does the log keep order and uniqueness, implement `LossyLog`, settle every entry, and stop? | capacity 3, 6 queries |
| `anomaly` | does the detector forget quiet domains, report each set of failed checks once per cooldown, miss one only for a full queue? | 2 domains, one with a high entropy that can also be frequent; window 1 s, cooldown 2 s, queue of 1, 3 queries kept |
| `anomaly_kept` | does it forget quiet domains without a condition? *violated* | the same |
| `transports` | are messages taken whole and in order, logged once and answered once, are pipelined ones served, do connections end when their clients leave, and are waiting ones accepted while handshakes end? | 2 workers, each a DoT connection (2 messages, then 1) or a request; base 2 |

Why these bounds. Removing a list and adding its URL again needs two ids and
three commands (add, remove, add), so `registry_dashboard` and `registry_two`
have both. A race of two requests needs two of them, and `registry_dashboard`
has two handlers beside the loop. A stale ETag needs one change of the file:
two versions. A late write of a process that has missed a removal needs two
processes; a third does the same things as the second. `registry_converges`
needs an add and one more command, one published version and one restart. It
has one list: `refresh_all` walks over several, and a removal during the
download of one ends the walk over the others with the loop, which is
`registry_loop_dies` and for which the properties of this run oblige nothing.
That failures of one list leave the other as it is, is checked with two lists
in `registry_two` (`FailOpen`). One crash can hit any process at any step, and
a second one finds it in a state like the first. The policy's names are one of
three labels (`x.ads.com`), one of its parents (`com`) and `localhost`; lists
have the name, its parent, both or neither, so that the most specific entry, an
overridden one and the end of the walk all occur; two changes are the number
that can make an answer unlawful (see below).

The log's queue fills, refuses, drains and fills again within six queries. The
detector's ordinary domain is there to be tracked, pruned and looked at in the
same round; the one with the high entropy reaches both its keys, which are
enough to fill a queue of one, and its reports outlast window and cooldown.
With three times kept a query can come while two of them make the domain
frequent. In base 2 a message of two bytes has a length of two digits, so that
swapped or lost digits show; two pipelined messages suffice for a buffer to
hold a part of the next; connections meet only in the accept loop.

Some runs say `CHECK_DEADLOCK FALSE`: commands, requests and queries are
bounded and dashboards, writers and processes may end, so these instances do
stop. `policy` checks deadlock, because a resolver thread always can be asked
again and must never be stuck at the lock.

### Fairness

`FairSpec` of the registry obliges threads to take their next step (WF): they
are ordinary threads, never suspended. Two actions get strong fairness because
they are only now and then enabled or chosen: `FetchSucceeds`, for each list (no
web server is down forever; without it no refresh need ever end well) and
`RefreshDue` (six hours do pass, again and again). Fairness says nothing against
a statement that raises: `Select` and `RefreshStep` may take either way, and a
loop may be ended at its first tick. `RegistryReachesLoops` and
`ContentConverges` therefore speak of the processes whose loop is still there.
No process has to start, no command has to be given and no crash has to happen.

`FairSpec` of the query log obliges the writer and the joining main
thread (WF) and gives `PutStop` strong fairness:
`put(None)` waits on the queue's condition, and with queries competing for each
free place it gets one eventually. In the instance queries are finite in
number, so this is a convenience and the shutdown does not hang on it.
`FairSpec` of the detector lets time pass and obliges its two threads.

`FairSpec` of the transports obliges every thread to go on: the policy check
ends, the upstream exchange by its timeout, and a client that does not read its
reply is taken to leave in the end, which ends `sendall`. It gives each waiting
connection strong fairness at the accept loop, because the backlog is a queue.
A handshake has to end only when its client has left: `accept()` does it itself
and without a time limit (`dot_server.py:187`), so a client that connects and
says nothing keeps all others waiting for good. `AllAccepted` is stated on the
condition that no handshake lasts forever (`HandshakesEnd`), and `ExchangeEnds`
covers a client that has left only once its connection is out of the backlog.
`gone` is a leaving that the socket shows (FIN or RST). A peer that is lost
without a sign is a client that does nothing more: `recv()` has neither timeout
nor keepalive (126, 133), its thread waits for good, and no property says
otherwise. Nobody has to query, send, complete a handshake or leave.

## 4. What the checks found

* **A list added in the dashboard can stay empty in another process**
  (`registry_stuck_empty`). `add_list` commits the row, ETag included, before
  it writes the cache file. A process that syncs between the two takes the list
  as empty and from then on asks with the committed ETag and gets 304, until
  the file changes upstream or the process restarts.
* **The table's ETag and the cache file can belong to different versions**
  (`SharedStateConsistent`). Row and file are written one after the other, under a
  lock each process has for itself. A refresh in one process that comes between
  the two writes of another leaves the newer ETag beside the older domains,
  and a process started then serves the older ones and is answered 304.
  `filtering.py` says that "state is consistent across restarts". A crash or a
  failed cache write between the two writes does the same.
* **A restart can come up empty** (`StaysServed` where the disk fails). A cache
  write that fails is only printed; memory goes on with the list, and the next
  start reads a row without domains, although `_load_from_db` says that "fail open
  extends to process restarts". While the disk works, it does
  (`registry_dashboard`, and a theorem for any number of processes).
* **One "database is locked" stops a process from syncing**
  (`RegistryReachesAll`). `refresh_all` catches `ValueError` only and
  `_refresh_loop` nothing, so a statement that raises ends the loop's thread, and
  no later change of the dashboard reaches that process "without a restart", as
  the module's docstring has it. The change does reach the processes whose loop
  is still there (`RegistryReachesLoops`).
* **Removing a list can end the dashboard's refresh loop**
  (`registry_loop_dies`). If the loop is downloading that list,
  `self._rows[list_id]` raises `KeyError`, which nothing catches either, and the
  other lists are never refreshed again. `registry_two` shows the other
  processes are safe from this `KeyError`, since only their own `sync_registry`
  removes rows there, in the loop's own thread or in the reload thread before
  the first tick.
* **Overlapping edits of one client's lists lose one** (`profiles_overlap`),
  though both were answered `ok`.
* **A query at the wrong moment ends the anomaly detection** (`anomaly_kept`).
  For a frequent domain the loop counts the times on the deque itself, without
  the lock; a query for that domain meanwhile makes the iteration raise
  `RuntimeError`. Nothing catches it, so nothing is reported or pruned any more,
  although the README says that tracking "is pruned once a domain goes quiet".
* **One burst can give two rows** (`OneRowPerBurst`). A domain whose name fails a
  check is reported for that, and again, under another key, when it becomes
  frequent; and the frequency is evaluated three times in a round, so that key,
  reasons and score need not agree. What does hold is one report per cooldown
  for each set of failed checks (`CooldownKept`).
* **Shutdown may leave accepted log entries unwritten** (`FlushedOnExit`),
  because `join` gives up after two seconds.

Four of these have a run. The properties named with the others are in the modules,
and TLC finds each violated in a small instance:

| property | instance |
|---|---|
| `SharedStateConsistent` | `registry_stuck_empty.cfg` with `MaxVersion = 2` and specification `Spec` |
| `StaysServed` | `registry_dashboard.cfg` with `DiskFaults = TRUE` |
| `RegistryReachesAll` | `registry_stuck_empty.cfg` with `DbFaults = TRUE` |
| `OneRowPerBurst` | `anomaly.cfg` |
| `FlushedOnExit` | `querylog.cfg` |

What held although it looked doubtful: ids are `AUTOINCREMENT`, so a cache file
written late never reaches another list (`OwnContent`); the dashboard's own
loop, whose sync works on a SELECT made earlier, never undoes a removal or a
toggle, because it holds the lock from the SELECT on (`DashboardCoherent`);
`check` reads profile and registry at two moments, and only a query under which
*both* change can get an answer that was never the policy's (`AnswerIsLawful`);
the detector reads a `defaultdict` in every check and still never brings back a
domain it has pruned, because only its own thread prunes (`TrackingCoherent`);
a report dropped for a full queue leaves no mark and is offered again
(`MarksHonest`); and a `SERVFAIL` never carries the records copied before the
failure (`ImplementsService`).

## 5. Proofs

`tlapm` checks each theorem module; no step is assumed. The assumptions are the
named `ASSUME`s of the modules: bounds are natural numbers, capacities and bases
are positive, request threads belong to the dashboard process, no process has
two refresh loops, the three kinds of thread are different threads, and model
values are distinct from data. Each invariant below was checked with TLC before
it was proved.

### The registry

| theorem | statement | argument |
|---|---|---|
| `BlocklistRegistryProofs!TypeCorrect`, `LockDisciplined` | `[]TypeOK`, `[]LockDiscipline` | inductive together. `TypeOK` says that a refresh about to write still has its row (`LocalsSet`); that no other thread took it away follows from the lock, and where the lock is follows from the stages, which `TypeOK` bounds |
| `BlocklistRegistryProofs!IndexIsCurrent` | `[]IndexCurrent` | with `TypeOK`: every path that touches rows or domain sets goes through `Install` |
| `BlocklistOwnershipProofs!ContentIsOwn` | `[]OwnContent` | `Fresh` (no state mentions an id not yet given) and `OwnJob` (every local variable of every thread, snapshots and files read included, belongs to the URL of its id). Without `OwnJob` a download in flight could be anything; without `Fresh` an insertion could meet leftovers |
| `BlocklistCoherenceProofs!ListsFailOpen` | `FailOpen` | action property from `HoldsInv`: `HeldInv` says that the list `FinishRemove` empties has left the table, `AliveInv` that threads run in live processes only |
| `...!TagsAreHonest` | `TagsStayHonest` | the same invariant: the row `FinishAdd` installs carries the tag of the download it installs with it (`HeldInv`) |
| `...!OthersAlwaysFindRows` | `[]OthersFindRows` | `LoopInv`: the row a loop downloads for stays, because from its first tick on the reload thread of its process no longer syncs. It says that the `KeyError` is the dashboard's alone, not that the loop goes on: a statement that raises ends any loop |
| `...!DashboardIsCoherent` | `[]DashboardCoherent` | `DashInv`: in each critical section it says what must still be done to memory to make it the table (nothing in `write`, one row in `add_write` and `removing`, the snapshot in a sync). One thread at most is in one, so nothing else is owed |
| `...!UrlsAreUnique` | `[]UniqueUrls` | `UniqueInv` adds the snapshots. What `sync_registry` and `add_list` combine agrees on the URL of an id by `OwnInv`, so the result is a part of a table with one list per URL; for `add_list` that table is `db` itself, by `DashInv` |
| `...!OnlyRemovalLosesRow` | `"remove" \notin Commands => []` no thread loses the row of its download | `StayInv`: without removals the table only grows, and every manager has a part of every snapshot taken after it. So a removal is the only cause of the `KeyError` of `registry_loop_dies`, in any thread and with anything failing |
| `...!RemovalOrRefusalEndsLoop` | the same and `~DbFaults => []LoopSurvives` | `StayInv` also says that a loop that has ended had a statement that raised. So the `KeyError` of `registry_loop_dies` and a statement that raises are the only two ends of a loop |
| `...!ServedListsStayServed` | `~DiskFaults => StaysServed` | ids go up (`IdsGoUp`), so a list that left the table stays out of it. `BackedInv`: the domains in any memory are those of a list whose cache file is there, or which is no longer registered (`Backed`). From the moment a process has a list's domains, `Durable(p, i)` is kept by every step: its file is there while it is registered, and no thread of the process is about to install it without what it read. A kill keeps it too, which the row in memory alone would not. Section 4 says why the assumption is needed |

### The other components

| theorem | statement | argument |
|---|---|---|
| `ClientProfilesProofs!TypeCorrect`, `SerialUpdatesAreKept` | `[]TypeOK`, `[]SerialUpdatesKept` | `CopyIsCurrent`: the row a thread read is still the client's row unless that client had overlapping requests |
| `PolicyCheckProofs!TypeCorrect`, `AnswersAreLawful` | `[]TypeOK`, `[]AnswerIsLawful` | `WalkInv` (no label before the one reached is covered, and the registry has stood still since the walk began) and `LawfulInv` (the answer still to come is lawful unless both parts moved) |
| `QueryLogProofs!TypeCorrect`, `OrderIsKept`, `StopsClean` | `[]TypeOK`, `[]OrderKept`, `[]CleanStop` | `LogInv`: `Stop` is in the queue at most once and everything accepted before it is settled, in hand or ahead of it (`StopInv`); rows, hand and queue increase and each ends below the next, none above `made` (`OrderInv`). `OrderKept` alone says nothing of entries to come |
| `QueryLogProofs!LogIsImplemented` | `ImplementsLog` | step simulation of `LossyLog` from `LogInv`, with hand and queue, `Stop` left out, as what is pending: `Take` and the shutdown's steps stutter, `Store` and `StoreFails` settle, an exit abandons |
| `AnomalyDetectorProofs!TypeCorrect`, `TrackingIsCoherent` | `[]TypeOK`, `[]TrackingCoherent` | `RoundInv`: what the round still has to look at is tracked, so reading the `defaultdict` changes nothing. It holds because nothing but the thread's own pruning removes a domain |
| `AnomalyDetectorProofs!MarksAreHonest`, `CooldownIsKept` | `[]MarksHonest`, `CooldownKept` | `MarksHonest` is inductive with types: a mark is set with the put, and pruned only when it no longer suppresses. `CooldownKept` follows step by step |
| `TransportsProofs!TypeCorrect`, `StreamIsAligned` | `[]TypeOK`, `[]FramesAligned` | `TransportInv`: header, buffer and socket together are the frames of the messages sent and not yet asked (`Aligned`), the stage fits them (`Phase`), and log and replies are at most one behind (`Served`). From a concatenation of frames a header and a body can be cut in one way only |
| `TransportsProofs!ServiceIsImplemented` | `ImplementsService` | step simulation of `QueryService` from `TransportInv`: `log_query` is its `Log`, the reply its `Answer`, closing its `End`, everything else stutters |

Two recursions come up in these proofs, and neither by an induction theorem,
which the provers cannot instantiate. That a set of ids has a least member, and
that the stream of a sequence of messages exists, is unique and can be extended
at both ends, is shown by a least counterexample (`WFMin` on the naturals).

### Only model-checked

* Liveness, which needs fairness and `ENABLED` and is out of the prover's reach:
  `RegistryReachesLoops`, `ContentConverges`, `ShutdownEnds`, `EntriesSettle`,
  `QuietForgotten`, `AnomalyReported`, `QueueDrains`, `StreamServed`,
  `ExchangeEnds`, `AllAccepted`.
* What the violation runs show, which is false of the code.

## 6. Abstractions, and what is not modelled

* A cache write is one atomic replacement, or nothing when it raises. The
  `.tmp` file two processes share by name is not in the model, and neither is
  `reload.trigger`: a refresh may be due at any tick.
* A crash is the death of a process, not of the machine: what was committed or
  renamed stays.
* A statement that raises has committed nothing, and the sleep between two tries
  of SQLite's own (five seconds) is not seen. The SELECT of `add_list`'s duplicate
  check and the first statements of the other routes may raise too, which
  changes nothing and is no step.
* The reload thread's ten seconds come before the loop's first minute, so it is
  ahead of the first tick; it may overlap every later one.
* `name`, `format`, `entry_count`, `last_updated` and the order in which list
  names are reported do not influence any branch and are left out.
* Names in `PolicyCheck` are lower-case label sequences without the final dot.
* Profile rows are pairs of sets; a domain with a comma is refused by the route
  beforehand, and the comma-separated text is not modelled.
* The query log has one process's rows. Another process's purges delete from
  them like its own; its rows are unrelated. The clock does not run backwards.
* The detector's clock does not run backwards, and a frequency check reads clock
  and deque at once. The writer holds the detector's lock during its INSERT, so
  that queries wait for it; this is the `lag` of a query. The reasons' text, the
  score's size and the client's address are left out.
* `SERVFAIL`, `NXDOMAIN` or a truncated answer from upstream is forwarded as
  `NOERROR` with the records it has, as in the code; the records are a number.
* A client that leaves may lose any part of what it has sent; one that is lost
  silently is not noticed, in the model as in the code. A DoT reply longer
  than 65535 bytes, for which `to_bytes` would raise, does not occur.
* DoH and UDP differ only in how a refusal or an exception is told the client,
  which is left out; so is the identity a query is filtered and logged under.
* List parsers, statistics, CSV export, certificates, DNS message contents and the
  front end's rendering are not modelled; see "components" in `PROJECT.json`.

## 7. Plan

1. Proofs: the converse of the other findings, as `RemovalOrRefusalEndsLoop` is
   that of `registry_loop_dies`: the detection thread never
   ends while no query comes during an iteration; the exact content of every list
   of a process that synced outside an `add_list`. For the liveness properties,
   the invariants that say from where a fair step is possible.
2. `CacheFile`: `.tmp` and `os.replace` of two processes, file by file, and
   what `_read_cache` can then see; an abstract atomic file it should implement.
3. `ReloadTrigger`: one flag file and three loops that test and remove it.
4. An abstract registry (a set of lists that processes learn of later) which
   `BlocklistRegistry` implements.
5. `BlocklistPage`: the front end's polling beside its own requests.
