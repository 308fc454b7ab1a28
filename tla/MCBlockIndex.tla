---------------------------- MODULE MCBlockIndex ----------------------------
(* Instances of BlockIndex for TLC: how often each fault happens. *)
EXTENDS BlockIndex

MCNumTx == <<2, 1>>
MCNumTx3 == <<3, 1>>

NoFaults == [k \in FaultKinds |-> 0]
MCFaults == [NoFaults EXCEPT !["crash"] = 1, !["early"] = 1, !["rpc"] = 1, !["stmt"] = 1]
MCLive == [NoFaults EXCEPT !["crash"] = 1, !["save"] = 1, !["decode"] = 1, !["rpc"] = 1, !["stmt"] = 1,
                           !["bad"] = 1]
MCLost == [NoFaults EXCEPT !["save"] = 1, !["crash"] = 1]
=============================================================================
