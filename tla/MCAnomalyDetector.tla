-------------------------- MODULE MCAnomalyDetector --------------------------
(***************************************************************************)
(* Instances of AnomalyDetector: a domain whose name has a high entropy    *)
(* and that bursts now and then, and an ordinary one.                      *)
(***************************************************************************)
EXTENDS AnomalyDetector

CONSTANTS plain, random

MCDomain == {plain, random}
MCStatic == [d \in MCDomain |-> IF d = random THEN {"entropy"} ELSE {}]
MCMaxHistory == [d \in MCDomain |-> IF d = random THEN 3 ELSE 1]
=============================================================================
