----------------------------- MODULE MainChain ------------------------------
(***************************************************************************)
(* What daemonForwardBlock promises to everything that reads the block     *)
(* table, without rounds, slices, failures and the node: the rows that     *)
(* count are one unbroken piece of a chain below one tip, the piece grows  *)
(* downwards to genesis, its tip only changes for a strictly higher block, *)
(* and what is given up is given up for good.  ChainSync implements it.    *)
(*                                                                         *)
(* The promise holds as long as nobody else writes the table and the node  *)
(* does not come back to a branch it left (calm).                          *)
(***************************************************************************)
EXTENDS Integers

CONSTANTS
    Hash,       \* blocks
    Anc,        \* of each block, the block and everything below it
    Height(_)   \* of each block

VARIABLES
    rows,      \* rows that are not is_reorg
    orphaned,  \* rows that are is_reorg
    tip,       \* the row with is_chaintips, if there is one
    calm       \* history: nothing has voided the promise

vars == <<rows, orphaned, tip, calm>>

\* The piece of a chain from one block up to another.
Path(low, high) == {b \in Anc[high] : low \in Anc[b]}

Init == rows = {} /\ orphaned = {} /\ tip = {} /\ calm = TRUE

\* The first row of an empty table.
First(b) ==
    /\ tip = {} /\ tip' = {b} /\ rows' = {b}
    /\ UNCHANGED orphaned

\* The piece reaches down to an older block.
Deepen(b) ==
    /\ \E m \in tip : b \in Anc[m] /\ rows' = Path(b, m)
    /\ rows \subseteq rows'
    /\ UNCHANGED <<tip, orphaned>>

\* The chain of a higher block takes over: all of it above the lowest row that
\* both have.  The other rows are orphans, and no orphan comes back.
Follow(b) ==
    /\ \A m \in tip : Height(m) < Height(b)
    /\ tip' = {b}
    /\ rows \cap Anc[b] # {}
    /\ rows' = UNION {Path(low, b) : low \in rows \cap Anc[b]}
    /\ orphaned' = orphaned \cup (rows \ Anc[b])
    /\ rows' \cap orphaned' = {}

Next ==
    \/ /\ calm /\ UNCHANGED calm
       /\ \E b \in Hash : First(b) \/ Deepen(b) \/ Follow(b)
    \/ calm' = FALSE

Spec == Init /\ [][Next]_vars
=============================================================================
