------------------------------- MODULE MCNotify ------------------------------
(* Instances of Notify for TLC. *)
EXTENDS Notify

CONSTANTS k1, k2

\* 1 and 2 are in one block, 1 pays k2, which may be added, 2 pays the listen key k1.
Two == {1, 2}
MCTable == [k \in {k1, k2} |-> IF k = k1 THEN "listen" ELSE "none"]
MCPays == [t \in Two |-> IF t = 1 THEN {k2} ELSE {k1}]
MCBlock == [t \in Two |-> 1]
MCFaults == [k \in FaultKinds |-> 1]
=============================================================================
