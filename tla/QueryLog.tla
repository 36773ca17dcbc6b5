------------------------------- MODULE QueryLog -------------------------------
(***************************************************************************)
(* The query log of one transport process: Database.log_query, its bounded *)
(* queue and writer thread (database.py), the deletions of query_log rows, *)
(* and the shutdown of the UDP and DoT servers (dns_server.py,             *)
(* dot_server.py).                                                         *)
(*                                                                         *)
(* An entry is its number in the order in which the queue took or refused  *)
(* them: queue.Queue serialises the put_nowait calls of the threads.  The  *)
(* rows of the other processes are left out, since nothing relates them to *)
(* these; their purges are not, as they delete rows of every process.      *)
(***************************************************************************)
EXTENDS Naturals, Sequences

CONSTANTS
    Capacity, \* the queue's maxsize (1000 in the code)
    Stop,     \* the None that ends the writer
    MaxEntry  \* bound: queries logged

ASSUME CapacityAssumption == Capacity \in Nat \ {0} /\ MaxEntry \in Nat
ASSUME StopAssumption     == Stop \notin Nat

Entry == 1 .. MaxEntry

VARIABLES
    made,    \* queries logged so far
    queue,   \* self.log_queue
    hand,    \* the entry the writer has taken, as a sequence of at most one
    writer,  \* "running" or "ended"
    rows,    \* query_log
    main,    \* "serving", "stopping", "joining" or "exited"
    settled, \* history: entries the writer has stored or failed to store
    sent     \* history: entries accepted before Stop was queued

vars == <<made, queue, hand, writer, rows, main, settled, sent>>

Running == main # "exited"
Full    == Len(queue) = Capacity
ElementsOf(s) == {s[k] : k \in 1 .. Len(s)}

\* what a queue holds besides Stop, which is put into it once
StopsIn(q) == {k \in 1 .. Len(q) : q[k] = Stop}
Others(q)  ==
    IF StopsIn(q) = {} THEN q
    ELSE LET n == CHOOSE n \in StopsIn(q) : TRUE
         IN [k \in 1 .. Len(q) - 1 |-> IF k < n THEN q[k] ELSE q[k + 1]]
Accepted == Others(queue)
-----------------------------------------------------------------------------
Init ==
    /\ made = 0 /\ queue = <<>> /\ hand = <<>> /\ writer = "running"
    /\ rows = <<>> /\ main = "serving" /\ settled = {} /\ sent = {}

\* fault: the queue is created without a maxsize
Unbounded ==
    /\ Running /\ made < MaxEntry
    /\ made' = made + 1 /\ queue' = Append(queue, made + 1)
    /\ UNCHANGED <<hand, writer, rows, main, settled, sent>>

\* put_nowait: a full queue drops the entry.  Requests in flight and open DoT
\* connections go on while the main thread shuts the server down.
LogQuery ==
    /\ Running /\ made < MaxEntry
    /\ made' = made + 1
    /\ queue' = IF Full THEN queue ELSE Append(queue, made + 1)
    /\ UNCHANGED <<hand, writer, rows, main, settled, sent>>

\* fault: a flag and not the None in its turn ends the writer
StopFlag ==
    /\ Running /\ writer = "running" /\ hand = <<>> /\ queue # <<>>
    /\ queue' = Tail(queue)
    /\ IF main = "joining" \/ Head(queue) = Stop
       THEN writer' = "ended" /\ UNCHANGED hand
       ELSE hand' = <<Head(queue)>> /\ UNCHANGED writer
    /\ UNCHANGED <<made, rows, main, settled, sent>>

Take ==
    /\ Running /\ writer = "running" /\ hand = <<>> /\ queue # <<>>
    /\ queue' = Tail(queue)
    /\ IF Head(queue) = Stop
       THEN writer' = "ended" /\ UNCHANGED hand
       ELSE hand' = <<Head(queue)>> /\ UNCHANGED writer
    /\ UNCHANGED <<made, rows, main, settled, sent>>

Settle == hand' = <<>> /\ settled' = settled \cup ElementsOf(hand)

Store ==
    /\ Running /\ hand # <<>>
    /\ rows' = rows \o hand /\ Settle
    /\ UNCHANGED <<made, queue, writer, main, sent>>

\* fault: an entry that could not be written is queued again
Requeued ==
    /\ Running /\ hand # <<>> /\ ~Full
    /\ queue' = queue \o hand /\ hand' = <<>>
    /\ UNCHANGED <<made, writer, rows, main, settled, sent>>

\* fault: the exception is not caught inside the writer's loop
WriterDies ==
    /\ Running /\ hand # <<>> /\ Settle /\ writer' = "ended"
    /\ UNCHANGED <<made, queue, rows, main, sent>>

\* the INSERT or the commit raises (another process has the database locked)
StoreFails ==
    /\ Running /\ hand # <<>> /\ Settle
    /\ UNCHANGED <<made, queue, writer, rows, main, sent>>

\* fault: the comparison with the cutoff is the wrong way round
NewestPurged(k) ==
    /\ rows' = SubSeq(rows, 1, k - 1)
    /\ UNCHANGED <<made, queue, hand, writer, main, settled, sent>>

\* timestamps are those of the INSERTs, so the rows too old are the first ones
PurgeOlderThan(k) ==
    /\ rows' = SubSeq(rows, k + 1, Len(rows))
    /\ UNCHANGED <<made, queue, hand, writer, main, settled, sent>>

ClearAllLogs ==
    /\ rows # <<>> /\ rows' = <<>>
    /\ UNCHANGED <<made, queue, hand, writer, main, settled, sent>>
-----------------------------------------------------------------------------
\* KeyboardInterrupt in the main thread
Interrupt ==
    /\ main = "serving" /\ main' = "stopping"
    /\ UNCHANGED <<made, queue, hand, writer, rows, settled, sent>>

\* log_queue.put(None): waits for room
PutStop ==
    /\ main = "stopping" /\ ~Full
    /\ queue' = Append(queue, Stop) /\ main' = "joining"
    /\ sent' = settled \cup ElementsOf(hand) \cup ElementsOf(queue)
    /\ UNCHANGED <<made, hand, writer, rows, settled>>

\* writer_thread.join(timeout=2) returns as the writer has ended ...
Joined ==
    /\ main = "joining" /\ writer = "ended" /\ main' = "exited"
    /\ UNCHANGED <<made, queue, hand, writer, rows, settled, sent>>

\* ... or as two seconds have passed
JoinTimesOut ==
    /\ main = "joining" /\ writer = "running" /\ main' = "exited"
    /\ UNCHANGED <<made, queue, hand, writer, rows, settled, sent>>

\* killed, or the DoH server, which has no such flush
Killed ==
    /\ main = "serving" /\ main' = "exited"
    /\ UNCHANGED <<made, queue, hand, writer, rows, settled, sent>>

Next ==
    \/ LogQuery \/ Take \/ Store \/ StoreFails
    \/ \E k \in 1 .. Len(rows) : PurgeOlderThan(k)
    \/ ClearAllLogs
    \/ Interrupt \/ PutStop \/ Joined \/ JoinTimesOut \/ Killed

Spec == Init /\ [][Next]_vars

(***************************************************************************)
(* The writer thread and the main thread's shutdown run on; with queries   *)
(* still coming, put(None) gets the free place if it is offered it again   *)
(* and again.  Nobody is obliged to query, delete, interrupt or kill.      *)
(***************************************************************************)
Fairness ==
    /\ WF_vars(Take) /\ WF_vars(Store \/ StoreFails)
    /\ SF_vars(PutStop) /\ WF_vars(Joined \/ JoinTimesOut)

FairSpec == Spec /\ Fairness
-----------------------------------------------------------------------------
\* The queue never outgrows its maxsize, whatever the threads and the shutdown
\* put into it, and the writer holds at most one entry.
TypeOK ==
    /\ made \in 0 .. MaxEntry
    /\ queue \in Seq(Entry \cup {Stop}) /\ Len(queue) <= Capacity
    /\ hand \in Seq(Entry) /\ Len(hand) <= 1
    /\ writer \in {"running", "ended"} /\ rows \in Seq(Entry)
    /\ main \in {"serving", "stopping", "joining", "exited"}
    /\ settled \subseteq Entry /\ sent \subseteq Entry

\* What is stored, in the writer's hand and queued is, in this order, in the
\* order of the queries and without repetition: neither a failed INSERT nor a
\* purge between two of them makes the log show a query twice or out of order.
Increasing(s) == \A j, k \in 1 .. Len(s) : j < k => s[j] < s[k]
OrderKept == Increasing(rows \o hand \o Accepted)

\* When join() finds the writer ended, every entry queued before the None has
\* been stored or has failed to be stored: none is overtaken by it.
CleanStop == writer = "ended" => sent \subseteq settled

\* The process keeps what LossyLog promises.
Log == INSTANCE LossyLog
         WITH pending <- IF Running THEN hand \o Accepted ELSE <<>>
ImplementsLog == Log!Spec

\* An interrupted server comes to its end, even with its log queue full and
\* queries still arriving.
ShutdownEnds == main = "stopping" ~> main = "exited"

\* Every accepted entry is stored or fails, unless the process ends first.
EntriesSettle ==
    \A e \in Entry : (e \in ElementsOf(queue)) ~> (e \in settled \/ ~Running)

\* A normal shutdown flushes the queue ("Flush any queued log entries before
\* exiting", dns_server.py:55): no entry accepted before the None is left over.
FlushedOnExit == main = "exited" => sent \subseteq settled
=============================================================================
