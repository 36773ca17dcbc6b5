------------------------- MODULE MCBlocklistRegistry -------------------------
(***************************************************************************)
(* Instances of BlocklistRegistry for TLC.                                 *)
(***************************************************************************)
EXTENDS BlocklistRegistry, FiniteSets, TLC

CONSTANTS doh, udp, loop1, loop2, h1, h2, reload, u1, u2

OneProcess  == {doh}
TwoProcess  == {doh, udp}
MCOwner == [t \in Thread |-> IF t \in {loop2, reload} THEN udp ELSE doh]

Interchangeable == Permutations({u1, u2})
=============================================================================
