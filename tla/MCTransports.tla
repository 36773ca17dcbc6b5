----------------------------- MODULE MCTransports -----------------------------
(***************************************************************************)
(* Instances of Transports: bytes are bits, so that a message of two has   *)
(* a length of two digits.                                                 *)
(***************************************************************************)
EXTENDS Transports, TLC

CONSTANTS w1, w2

MCMessage   == {<<>>, <<0>>, <<1>>, <<1, 0>>}
MCMalformed == {<<>>, <<0>>}

\* of the first client two messages, one with a length of two digits, or one
\* with an empty frame behind it; of the second a single message
MCDotScript == w1 :> {<<<<1, 0>>, <<1>>>>, <<<<1>>, <<>>>>} @@ w2 :> {<<<<1>>>>}
===============================================================================
