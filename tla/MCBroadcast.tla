----------------------------- MODULE MCBroadcast ----------------------------
(* Instances of Broadcast for TLC. *)
EXTENDS Broadcast

CONSTANTS t1, t2, t3

\* t3 spends outputs of t1 and t2.
MCParents == [t \in {t1, t2, t3} |-> IF t = t3 THEN {t1, t2} ELSE {}]
=============================================================================
