----------------------------- MODULE QueryService -----------------------------
(***************************************************************************)
(* What a client of any transport may rely on: its messages are taken in   *)
(* the order it sends them, none is skipped, repeated or merged with       *)
(* another, each is logged once and then answered once with its own reply, *)
(* until the server ends the exchange.                                     *)
(***************************************************************************)
EXTENDS Naturals, Sequences

CONSTANTS Client, Reply

VARIABLES
    script, \* the messages each client sends
    logged, \* those logged
    out,    \* the replies sent
    open    \* is the exchange going on?

vars == <<script, logged, out, open>>

Init ==
    /\ logged = [c \in Client |-> <<>>] /\ out = [c \in Client |-> <<>>]
    /\ open = [c \in Client |-> TRUE]

Log(c) ==
    /\ open[c] /\ Len(logged[c]) = Len(out[c])
    /\ Len(logged[c]) < Len(script[c])
    /\ logged' = [logged EXCEPT ![c] = Append(@, script[c][Len(@) + 1])]
    /\ UNCHANGED <<script, out, open>>

\* the last answer may end the exchange
Answer(c) == \E r \in Reply, last \in BOOLEAN :
    /\ open[c] /\ Len(out[c]) < Len(logged[c])
    /\ r.query = logged[c][Len(logged[c])]
    /\ out' = [out EXCEPT ![c] = Append(@, r)]
    /\ open' = [open EXCEPT ![c] = ~last]
    /\ UNCHANGED <<script, logged>>

End(c) ==
    /\ open[c] /\ open' = [open EXCEPT ![c] = FALSE]
    /\ UNCHANGED <<script, logged, out>>

Next == \E c \in Client : Log(c) \/ Answer(c) \/ End(c)

Spec == Init /\ [][Next]_vars
=============================================================================
