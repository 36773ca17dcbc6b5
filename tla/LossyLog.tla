------------------------------- MODULE LossyLog -------------------------------
(***************************************************************************)
(* What a process promises of its query log, leaving out queue, threads    *)
(* and shutdown: queries, numbered as they are logged, may be lost on the  *)
(* way, but those stored are stored once and in order, and only the oldest *)
(* rows are ever deleted.                                                  *)
(***************************************************************************)
EXTENDS Naturals, Sequences

VARIABLES
    made,    \* queries logged so far
    pending, \* the queries accepted and not yet settled, oldest first
    rows     \* this process's rows in query_log, oldest first

vars == <<made, pending, rows>>

Init == made = 0 /\ pending = <<>> /\ rows = <<>>

\* a query is accepted, or dropped at once
Log ==
    /\ made' = made + 1
    /\ pending' \in {pending, Append(pending, made + 1)}
    /\ UNCHANGED rows

\* the oldest pending query is stored, or lost
Settle ==
    /\ pending # <<>> /\ pending' = Tail(pending)
    /\ rows' \in {rows, Append(rows, Head(pending))}
    /\ UNCHANGED made

Trim == \E k \in 1 .. Len(rows) :
    /\ rows' = SubSeq(rows, k + 1, Len(rows))
    /\ UNCHANGED <<made, pending>>

\* the process stops
Abandon == pending' = <<>> /\ UNCHANGED <<made, rows>>

Next == Log \/ Settle \/ Trim \/ Abandon

Spec == Init /\ [][Next]_vars
=============================================================================
