------------------------------ MODULE MCQueries -----------------------------
(* Instances of Queries for TLC. *)
EXTENDS Queries, TLC

\* 3 and 4 are rivals; 2 has a hash that begins with the height of 4.
MCHeight == 1 :> 0 @@ 2 :> 1 @@ 3 :> 2 @@ 4 :> 2
MCDigits == 1 :> 0 @@ 2 :> 2 @@ 3 :> 4 @@ 4 :> 4
=============================================================================
