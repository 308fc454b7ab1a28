---------------------------- MODULE MCChainSync -----------------------------
(***************************************************************************)
(* Small block trees for ChainSync.  ForkTree is                           *)
(*                                                                         *)
(*    1 - 2 - 3 - 4 - 5 - 6                                                *)
(*                 \                                                       *)
(*                  7 - 8 - 9                                              *)
(*                       \                                                 *)
(*                        10 - 11                                          *)
(*                                                                         *)
(* with heights 6, 7 and 8 at its leaves, so the node can leave its chain  *)
(* twice (4 - 5, 9, 11) or come back to a branch it left (7, 6, 9).  Line  *)
(* is 1 - 2 - 3.                                                           *)
(***************************************************************************)
EXTENDS ChainSync

ForkTree == [h \in 1..11 |-> CASE h = 7 -> 4 [] h = 10 -> 8 [] OTHER -> h - 1]

Line == [h \in 1..3 |-> h - 1]
=============================================================================
