--------------------------- MODULE AnomalyDetector ---------------------------
(***************************************************************************)
(* The anomaly detector of one process (anomaly_detection.py): every query *)
(* is recorded by its resolver thread, a thread looks each second at the   *)
(* domains of the last minute, and another writes what it finds.           *)
(*                                                                         *)
(* The code keeps times and subtracts them from the current one.  The      *)
(* model keeps the differences: a time is its age in seconds, and all ages *)
(* grow as a second passes.  Ages at which every comparison has turned out *)
(* for good are capped, which keeps the model finite without ending time.  *)
(* Each section under self.lock is one action.                             *)
(***************************************************************************)
EXTENDS Naturals, Sequences

CONSTANTS
    Domain,
    Static,     \* the checks a domain's name alone fails: length, entropy
    Window,     \* window_size, in seconds (60 in the code)
    FreqLimit,  \* queries a window may hold (300: five each second)
    Cooldown,   \* anomaly_cooldown, in seconds (300)
    Capacity,   \* the queue's maxsize (1000)
    Lag,        \* bound: seconds a query may wait for the lock
    MaxRound,   \* bound: seconds a round of the detection loop may take
    MaxHistory, \* bound: times kept of each domain
    NoDomain    \* no domain is being looked at

StaticCheck == {"subdomain_length", "entropy"}
Check       == StaticCheck \cup {"query_frequency"}

ASSUME StaticAssumption == Static \in [Domain -> SUBSET StaticCheck]
ASSUME TimesAssumption ==
    /\ Window \in Nat /\ Cooldown \in Nat /\ Lag \in Nat
    /\ MaxRound \in Nat \ {0}
ASSUME SizesAssumption ==
    FreqLimit \in Nat /\ Capacity \in Nat \ {0}
    /\ MaxHistory \in [Domain -> Nat]
ASSUME NoDomainAssumption == NoDomain \notin Domain

VARIABLES
    history,   \* query_history: the ages of a domain's queries, oldest first
    clients,   \* the domains in client_ip_map
    entropies, \* the domains in entropy_cache
    logged,    \* last_anomaly_logged: the age of a key's mark
    queue,     \* anomaly_queue, the reports as their domains
    hand,      \* the report the writer has taken, as a sequence of at most one
    stage,     \* where the detection thread is
    elapsed,   \* seconds since it read current_time, or fell asleep
    items,     \* domains still to be looked at in this round
    at,        \* the domain being looked at
    mutated,   \* has the deque been changed since its iteration began?
    queued     \* history: the age of a key's last report

dicts    == <<history, clients, entropies>>
reports  == <<queue, hand>>
marks    == <<logged, queued>>
detector == <<stage, elapsed, items, at, mutated>>
vars     == <<dicts, reports, marks, detector>>

Key     == [domain : Domain, checks : SUBSET Check]
Tracked == DOMAIN history

\* fault: the queue is created without a maxsize
Unbounded == FALSE
Full == Len(queue) = Capacity

\* the ages at which all comparisons are settled
OldQuery == Window + (IF Lag > MaxRound THEN Lag ELSE MaxRound) + 1
OldMark  == Cooldown + MaxRound + 1
Older(age, cap) == IF age < cap THEN age + 1 ELSE cap

\* a defaultdict: reading or writing a domain makes an entry for it
Times(d) == IF d \in Tracked THEN history[d] ELSE <<>>
With(d, ages) ==
    [x \in Tracked \cup {d} |-> IF x = d THEN ages ELSE history[x]]

\* popleft() while the oldest time is older than limit
PopOlder(ages, limit) ==
    LET n == CHOOSE n \in 0 .. Len(ages) :
                /\ \A k \in 1 .. n : ages[k] > limit
                /\ n < Len(ages) => ages[n + 1] <= limit
    IN SubSeq(ages, n + 1, Len(ages))

\* the checks a domain fails now; the clock is read and the deque copied anew
\* at each call
Frequent(d) == Len(SelectSeq(Times(d), LAMBDA age : age < Window)) > FreqLimit
Fired(d) == Static[d] \cup (IF Frequent(d) THEN {"query_frequency"} ELSE {})
-----------------------------------------------------------------------------
Init ==
    /\ history = [d \in {} |-> <<>>] /\ clients = {} /\ entropies = {}
    /\ logged = [k \in {} |-> 0] /\ queued = [k \in Key |-> OldMark]
    /\ queue = <<>> /\ hand = <<>>
    /\ stage = "sleep" /\ elapsed = 0 /\ items = {}
    /\ at = NoDomain /\ mutated = FALSE

\* lag: the seconds between the thread's reading the clock and its getting the
\* lock, which other queries may overtake it in
RecordQuery(d, lag) ==
    LET ages == PopOlder(Append(Times(d), lag), Window + lag) IN
    /\ Len(ages) <= MaxHistory[d]
    /\ history' = With(d, ages) /\ clients' = clients \cup {d}
    /\ mutated' = (mutated \/ (stage = "iterate" /\ at = d))
    /\ UNCHANGED <<entropies, reports, marks, stage, elapsed, items, at>>

\* a second passes; a round takes at most MaxRound of them
Second ==
    /\ stage \in {"sleep", "dead"} \/ elapsed < MaxRound
    /\ elapsed' = Older(elapsed, MaxRound)
    /\ history' = [d \in Tracked |->
           [k \in DOMAIN history[d] |-> Older(history[d][k], OldQuery)]]
    /\ logged' = [k \in DOMAIN logged |-> Older(logged[k], OldMark)]
    /\ queued' = [k \in Key |-> Older(queued[k], OldMark)]
    /\ UNCHANGED <<clients, entropies, reports, stage, items, at, mutated>>
-----------------------------------------------------------------------------
\* sleep(1) is over, and the round's current_time is read
Wake ==
    /\ stage = "sleep" /\ elapsed > 0
    /\ stage' = "prune" /\ elapsed' = 0
    /\ UNCHANGED <<dicts, reports, marks, items, at, mutated>>

Left == [d \in Tracked |-> PopOlder(history[d], Window + elapsed)]

\* fault: the times are popped, and the empty deques stay
IdleKept == Tracked
Live     == {d \in Tracked : Left[d] # <<>>}

\* fault: the marks are pruned with the window of the queries
MarksWithWindow == {k \in DOMAIN logged : logged[k] <= Window + elapsed}
Unexpired       == {k \in DOMAIN logged : logged[k] <= Cooldown + elapsed}

\* fault: the client's address stays behind
ClientsKept ==
    /\ stage = "prune" /\ stage' = "score" /\ items' = Live
    /\ history' = [d \in Live |-> Left[d]]
    /\ entropies' = entropies \cap Live
    /\ logged' = [k \in Unexpired |-> logged[k]]
    /\ UNCHANGED <<clients, reports, elapsed, at, mutated, queued>>

Prune ==
    /\ stage = "prune" /\ stage' = "score" /\ items' = Live
    /\ history' = [d \in Live |-> Left[d]]
    /\ clients' = clients \ (Tracked \ Live)
    /\ entropies' = entropies \ (Tracked \ Live)
    /\ logged' = [k \in Unexpired |-> logged[k]]
    /\ UNCHANGED <<reports, elapsed, at, mutated, queued>>

\* fault: a name alone is not enough
FrequentOnly(d) == Frequent(d)
Suspicious(d)   == Fired(d) # {}

\* the score, in whatever order the dictionary has the domains
Score(d) ==
    /\ stage = "score" /\ d \in items /\ items' = items \ {d}
    /\ history' = With(d, Times(d)) /\ entropies' = entropies \cup {d}
    /\ IF Suspicious(d) THEN stage' = "reasons" /\ at' = d
                        ELSE UNCHANGED <<stage, at>>
    /\ UNCHANGED <<clients, reports, marks, elapsed, mutated>>

\* the reasons; a frequent domain's times are counted on the deque itself,
\* without the lock
Reasons ==
    /\ stage = "reasons" /\ mutated' = FALSE
    /\ history' = With(at, Times(at))
    /\ stage' = IF Frequent(at) THEN "iterate" ELSE "report"
    /\ UNCHANGED <<clients, entropies, reports, marks, elapsed, items, at>>

\* "deque mutated during iteration" is caught nowhere
Iterate ==
    /\ stage = "iterate" /\ mutated' = FALSE
    /\ \/ ~mutated /\ stage' = "report"
       \/ mutated /\ stage' = "dead"
    /\ UNCHANGED <<dicts, reports, marks, elapsed, items, at>>

Due(key) == key \in DOMAIN logged => logged[key] > Cooldown + elapsed
Put(key) == Due(key) /\ ~Full

\* fault: the key is marked although the queue had no room
MarkedAnyway(key) == Due(key)
Marked(key)       == Put(key)

\* the key, from a third evaluation; a report that finds the queue full is
\* dropped and leaves no mark
Report ==
    LET key == [domain |-> at, checks |-> Fired(at)] IN
    /\ stage = "report" /\ stage' = "score" /\ at' = NoDomain
    /\ history' = With(at, Times(at))
    /\ queue' = IF Put(key) THEN Append(queue, at) ELSE queue
    /\ queued' = IF Put(key) THEN [queued EXCEPT ![key] = elapsed] ELSE queued
    /\ logged' = IF Marked(key)
                 THEN [k \in DOMAIN logged \cup {key} |->
                          IF k = key THEN elapsed ELSE logged[k]]
                 ELSE logged
    /\ UNCHANGED <<clients, entropies, hand, elapsed, items, mutated>>

EndRound ==
    /\ stage = "score" /\ items = {}
    /\ stage' = "sleep" /\ elapsed' = 0
    /\ UNCHANGED <<dicts, reports, marks, items, at, mutated>>
-----------------------------------------------------------------------------
\* the writer thread
Take ==
    /\ hand = <<>> /\ queue # <<>>
    /\ hand' = <<Head(queue)>> /\ queue' = Tail(queue)
    /\ UNCHANGED <<dicts, marks, detector>>

\* fault: a failed INSERT ends the thread, with the report in its hand
WriterDies == hand # <<>> /\ UNCHANGED vars

\* the row is inserted, or the INSERT raises and the report is lost
Write ==
    /\ hand # <<>> /\ hand' = <<>>
    /\ UNCHANGED <<queue, dicts, marks, detector>>

Next ==
    \/ \E d \in Domain, lag \in 0 .. Lag : RecordQuery(d, lag)
    \/ Second \/ Wake \/ Prune \/ (\E d \in Domain : Score(d))
    \/ Reasons \/ Iterate \/ Report \/ EndRound
    \/ Take \/ Write

Spec == Init /\ [][Next]_vars

\* Time passes and the two threads run on.  Nobody has to query anything.
Fairness ==
    /\ WF_vars(Second) /\ WF_vars(Wake) /\ WF_vars(Prune)
    /\ WF_vars(\E d \in Domain : Score(d))
    /\ WF_vars(Reasons) /\ WF_vars(Iterate) /\ WF_vars(Report)
    /\ WF_vars(EndRound) /\ WF_vars(Take) /\ WF_vars(Write)

FairSpec == Spec /\ Fairness
-----------------------------------------------------------------------------
\* Every variable keeps its shape; the queue never outgrows its maxsize and no
\* comparison is made with an age beyond its cap.
TypeOK ==
    /\ Tracked \subseteq Domain
    /\ \A d \in Tracked : /\ history[d] \in Seq(0 .. OldQuery)
                          /\ Len(history[d]) <= MaxHistory[d]
    /\ clients \subseteq Domain /\ entropies \subseteq Domain
    /\ DOMAIN logged \subseteq Key
    /\ \A k \in DOMAIN logged : logged[k] \in 0 .. OldMark
    /\ queue \in Seq(Domain) /\ Len(queue) <= Capacity
    /\ hand \in Seq(Domain) /\ Len(hand) <= 1
    /\ stage \in {"sleep", "prune", "score", "reasons", "iterate", "report",
                  "dead"}
    /\ elapsed \in 0 .. MaxRound /\ items \subseteq Domain /\ at \in Domain \cup {NoDomain}
    /\ mutated \in BOOLEAN /\ queued \in [Key -> 0 .. OldMark]

\* "Prune every dict keyed by domain" (anomaly_detection.py:124): the three
\* dictionaries know the same domains, the entropies of a part of them; and the
\* detection thread, which reads a defaultdict in each of its checks, never
\* brings back a domain it has just pruned.
TrackingCoherent ==
    /\ clients = Tracked /\ entropies \subseteq Tracked
    /\ \A d \in Tracked : history[d] # <<>>
    /\ stage \in {"score", "reasons", "iterate", "report"} => items \subseteq Tracked

\* What suppresses a report is a report queued within the cooldown and nothing
\* else: a dropped one leaves no mark, and a mark that is pruned would not have
\* suppressed any more.
MarksHonest ==
    \A k \in Key :
        IF k \in DOMAIN logged THEN logged[k] = queued[k]
                               ELSE queued[k] > Cooldown + elapsed

\* One report in each cooldown for a domain that fails the same checks (the
\* README's "dedup and cooldown"), though the marks are pruned meanwhile.
CooldownKept ==
    [][\A k \in Key : queued'[k] < queued[k] => queued[k] > Cooldown + elapsed]_vars

\* "Per-domain tracking is pruned once a domain goes quiet" (README.md:41), as
\* long as the detection thread lives.
Quiet(d) ==
    d \in Tracked /\ \A k \in DOMAIN history[d] : history[d][k] = OldQuery
QuietForgotten == \A d \in Domain : Quiet(d) ~> ~Quiet(d) \/ stage = "dead"

\* A domain whose name fails a check, queried again and again, is reported once
\* its cooldown is over, unless the queue is full as that is tried or the
\* detection thread has died.
Unreported(d) ==
    d \in Tracked /\ \A k \in Key : k.domain = d => queued[k] = OldMark
AnomalyReported ==
    \A d \in {x \in Domain : Static[x] # {}} :
        Unreported(d) ~> ~Unreported(d) \/ Full \/ stage = "dead"

\* A full queue gets room again, whatever becomes of the INSERTs.
QueueDrains == Full ~> ~Full

\* The README says so without a condition: "Per-domain tracking is pruned once a
\* domain goes quiet, so memory stays bounded by active traffic".
TrackingPruned == \A d \in Domain : Quiet(d) ~> ~Quiet(d)

\* "A burst of queries for one domain produces one anomaly_log row instead of a
\* flood" (README.md:40): no two reports of a domain within a cooldown.
OneRowPerBurst ==
    [][\A k \in Key : queued'[k] < queued[k] =>
          \A j \in Key : j.domain = k.domain => queued[j] > Cooldown + elapsed]_vars
=============================================================================
