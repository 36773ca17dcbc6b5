--------------------------- MODULE MCClientProfiles ---------------------------
(***************************************************************************)
(* Instances of ClientProfiles for TLC.                                    *)
(***************************************************************************)
EXTENDS ClientProfiles, TLC

CONSTANTS h1, h2, h3, c1, c2, d1, d2

Interchangeable ==
    Permutations({h1, h2, h3}) \cup Permutations({c1, c2}) \cup Permutations({d1, d2})
=============================================================================
