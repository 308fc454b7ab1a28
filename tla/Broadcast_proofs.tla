-------------------------- MODULE Broadcast_proofs --------------------------
(***************************************************************************)
(* Proof that no round pushes anything, for every set of transactions,     *)
(* whatever they spend, and every number of failing calls: what the run    *)
(* BroadcastLost shows of three transactions and one failure.              *)
(***************************************************************************)
EXTENDS Broadcast, TLAPS

\* "Pushed transactions are recorded in a file": the file never names one, so a
\* round takes the whole mempool for new, and no step of runOnce changes what the
\* official node knows.  What gets there gets there without help.
NothingIsPushed ==
    /\ [](file = {} /\ record = {})
    /\ [][official' # official => UNCHANGED <<file, round, pc>>]_vars

\* The array is empty while the loop goes through it.
EmptyInv ==
    /\ file = {} /\ record = {}
    /\ pc = "post" => queue = <<>> /\ next = 1

LEMMA EmptyInit == Init => EmptyInv
BY DEF Init, EmptyInv

LEMMA NoPost == EmptyInv => ~Post /\ ~PostFails
BY DEF EmptyInv, Post, PostFails

\* Only the nodes write what the nodes know.
LEMMA EmptyStep ==
    ASSUME EmptyInv, [Next]_vars
    PROVE  EmptyInv' /\ (official' # official => UNCHANGED <<file, round, pc>>)
<1>1. CASE UNCHANGED vars
  BY <1>1 DEF EmptyInv, vars, node, round
<1>2. ASSUME NEW t \in Tx, Arrive(t) \/ Mined(t) \/ Relay(t)
      PROVE  EmptyInv' /\ UNCHANGED <<file, round, pc>>
  BY <1>2 DEF EmptyInv, Arrive, Mined, Relay, round
<1>3. ASSUME List \/ Graph PROVE EmptyInv' /\ official' = official
  BY <1>3 DEF EmptyInv, List, Graph, EndRound, node
<1>4. CASE Layer
  BY <1>4 DEF EmptyInv, Layer, EndRound, node
<1>5. CASE LayerEnd \/ Die
  BY <1>5 DEF EmptyInv, LayerEnd, Die, EndRound, node, round
<1>6. ASSUME NEW t \in Tx, Fetch(t) PROVE EmptyInv' /\ official' = official
  BY <1>6 DEF EmptyInv, Fetch, node
<1> QED
  BY <1>1, <1>2, <1>3, <1>4, <1>5, <1>6, NoPost DEF Next, RunOnce

\* No round of the broadcaster pushes a transaction (runOnce, lines 242-245).
THEOREM NothingPushed == Spec => NothingIsPushed
<1>1. Init => EmptyInv
  BY EmptyInit
<1>2. EmptyInv /\ [Next]_vars => EmptyInv'
  BY EmptyStep
<1>3. EmptyInv => file = {} /\ record = {}
  BY DEF EmptyInv
<1>4. EmptyInv /\ [Next]_vars => [official' # official => UNCHANGED <<file, round, pc>>]_vars
  BY EmptyStep
<1> QED
  BY <1>1, <1>2, <1>3, <1>4, PTL DEF Spec, NothingIsPushed
=============================================================================
