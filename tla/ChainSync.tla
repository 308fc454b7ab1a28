----------------------------- MODULE ChainSync ------------------------------
(***************************************************************************)
(* daemonForwardBlock (F): how the `block` table follows the node's chain. *)
(*                                                                         *)
(* F first walks from the node's best block back to the genesis block,     *)
(* saving headers from the top down (doForward; the lowest saved row is    *)
(* is_tail), then in every round asks for the best block and either adds   *)
(* the new blocks above its tip, corrects a flag, or marks a branch as     *)
(* orphaned.  A round that throws anywhere is abandoned and the next one   *)
(* starts from the tables again, exactly as after a crash: F keeps nothing *)
(* between rounds.                                                         *)
(*                                                                         *)
(* Blocks are numbers, a parent is smaller than its child, 1 is genesis.   *)
(* The node moves to higher blocks at any time.  What the rest of the      *)
(* indexer does to the tables is the action Index, what the script         *)
(* fetchBlockHeaders.ts does is the action Script.                         *)
(***************************************************************************)
EXTENDS Integers, FiniteSets, FiniteSetsExt

CONSTANTS
    NBlocks,      \* blocks the node may ever show
    Parent,       \* previousblockhash, 0 for the genesis block
    Start,        \* the node's best block at the beginning
    BackStep,     \* 101: headers doForward saves at a time
    TipStep,      \* 10: `step` in forwardBlock
    SyncFrom,     \* SYNC_FROM_HEIGHT of fetchBlockHeaders.ts, from 1 for genesis
    Indexed,      \* bound: the blocks the other daemons get to
    MaxInitFault, \* bound: failures of the first walk before it saved an is_tail row
    MaxFault,     \* bound: of the next two and of other failures: an RPC or a
                  \* statement that throws, a crash
    MaxScript,    \* bound: runs of fetchBlockHeaders.ts
    MaxStale      \* bound: whole rows saved by P

Hash == 1..NBlocks

ASSUME ChainSyncAssumption ==
    /\ NBlocks \in Nat \ {0}
    /\ Parent \in [Hash -> 0..NBlocks]
    /\ Parent[1] = 0 /\ \A h \in Hash \ {1} : Parent[h] \in 1..(h - 1)
    /\ Start \in Hash
    /\ BackStep \in Nat \ {0} /\ TipStep \in Nat \ {0}
    /\ Indexed \subseteq Hash
    /\ {SyncFrom, MaxInitFault, MaxFault, MaxScript, MaxStale} \subseteq Nat

\* A block and everything below it: what every set has that has the block and, with
\* a block, its parent.
Anc[h \in Hash] ==
    {a \in 1..h : \A S \in SUBSET (1..h) :
        h \in S /\ (\A x \in S \ {1} : Parent[x] \in S) => a \in S}
Height(h) == Cardinality(Anc[h])

VARIABLES
    \* the node
    best,      \* getbestblockhash
    forks,     \* history: blocks where the node left its chain
    tangled,   \* history: it left it at or below an older fork
    \* the block table
    stored,    \* rows
    tips,      \* is_chaintips
    tails,     \* is_tail
    reorged,   \* is_reorg
    \* the tx and tx_out tables, by block
    live,      \* blocks with tx rows that are not is_deleted
    coinTx,    \* blocks whose coinbase has a tx row
    coinOut,   \* blocks whose coinbase has tx_out rows
    late,      \* history: blocks indexed while orphaned
    \* P
    held,      \* the row it is working on, as it was read
    \* F
    pc,        \* the statement it awaits next
    cursor,    \* doForward: prevHash, 0 for undefined
    link,      \* forwardBlock: the new blocks, blockLinked
    base,      \* forwardBlock: dbRecord
    done,      \* forwardBlock: i of the loop that saves new blocks
    orphans,   \* forwardBlock: reorgList
    coins,     \* forwardBlock: blocks in reorgCoinBaseTx
    faults     \* history: [init, later, script, stale]

block == <<stored, tips, tails, reorged>>
txs == <<live, coinTx, coinOut, late>>
node == <<best, forks, tangled>>
locals == <<cursor, link, base, done, orphans, coins>>
vars == <<best, forks, tangled, stored, tips, tails, reorged, live, coinTx, coinOut, late,
          held, pc, cursor, link, base, done, orphans, coins, faults>>

\* The flags of a row, as find returns them.
Row(b) == [hash |-> b, tip |-> b \in tips, tail |-> b \in tails, reorg |-> b \in reorged]
NoRow == [hash |-> 0, tip |-> FALSE, tail |-> FALSE, reorg |-> FALSE]

Init ==
    /\ best = Start /\ forks = {} /\ tangled = FALSE
    /\ stored = {} /\ tips = {} /\ tails = {} /\ reorged = {}
    /\ live = {} /\ coinTx = {} /\ coinOut = {} /\ late = {}
    /\ held = NoRow
    /\ pc = "load" /\ cursor = 0 /\ link = {} /\ base = 0 /\ done = 0
    /\ orphans = {} /\ coins = {}
    /\ faults = [init |-> 0, later |-> 0, script |-> 0, stale |-> 0]

\* The end of a round: the next one starts with nothing.
NextRound ==
    /\ pc' = "load" /\ cursor' = 0 /\ link' = {} /\ base' = 0 /\ done' = 0
    /\ orphans' = {} /\ coins' = {}

-----------------------------------------------------------------------------
(* The start of a round and the walk back to genesis: doForward *)

\* findOne of `is_tail = true OR previousblockhash IS NULL`.
TailRows == tails \cup (stored \cap {1})

\* Mutant of Load: a walk that was interrupted is not resumed.
LoadNoResume ==
    /\ pc = "load"
    /\ IF tips = {} /\ TailRows = {} THEN pc' = "init" ELSE pc' = "best"
    /\ UNCHANGED <<node, block, txs, locals, faults>>

Load ==
    /\ pc = "load"
    /\ \/ /\ tips = {} /\ TailRows = {}
          /\ pc' = "init" /\ UNCHANGED cursor
       \/ /\ tips # {}
          /\ \E t \in TailRows : pc' = "back" /\ cursor' = Parent[t]
       \/ /\ (tips = {}) # (TailRows = {})
          /\ pc' = "best" /\ UNCHANGED cursor
    /\ UNCHANGED <<node, block, txs, link, base, done, orphans, coins, faults>>

\* An empty table: the node's best block is saved as the tip.
SaveFirstTip ==
    /\ pc = "init"
    /\ stored' = stored \cup {best} /\ tips' = tips \cup {best}
    /\ cursor' = Parent[best] /\ pc' = "back"
    /\ UNCHANGED <<node, tails, reorged, txs, link, base, done, orphans, coins, faults>>

\* The headers forwardGetBlockInfo returns for a block.
Page(h) == {a \in Anc[h] : Height(h) - Height(a) < BackStep}

\* Mutant of Backfill: the old tail keeps its flag until the walk is over.
BackfillKeepTail ==
    /\ pc = "back" /\ cursor # 0
    /\ LET tail == Min(Page(cursor)) IN
         /\ stored' = stored \cup Page(cursor)
         /\ tails' = IF tails = {} \/ Parent[tail] = 0 THEN {tail} ELSE tails
         /\ cursor' = Parent[tail]
    /\ UNCHANGED <<node, tips, reorged, txs, pc, link, base, done, orphans, coins, faults>>

\* Mutant of Backfill: is_tail is given to the hash that is asked for next.
BackfillTailNext ==
    /\ pc = "back" /\ cursor # 0
    /\ LET tail == Min(Page(cursor)) IN
         /\ stored' = stored \cup Page(cursor)
         /\ tails' = {Parent[tail]}
         /\ cursor' = Parent[tail]
    /\ UNCHANGED <<node, tips, reorged, txs, pc, link, base, done, orphans, coins, faults>>

\* updateTail and save, in one transaction: the flag moves to the last header.
Backfill ==
    /\ pc = "back" /\ cursor # 0
    /\ LET tail == Min(Page(cursor)) IN
         /\ stored' = stored \cup Page(cursor)
         /\ tails' = {tail}
         /\ cursor' = Parent[tail]
    /\ UNCHANGED <<node, tips, reorged, txs, pc, link, base, done, orphans, coins, faults>>

BackfillDone ==
    /\ pc = "back" /\ cursor = 0
    /\ pc' = "best"
    /\ UNCHANGED <<node, block, txs, locals, faults>>

-----------------------------------------------------------------------------
(* Following the node's best block: forwardBlock *)

\* forwardBlockLinked walks from the best block to the first stored one.
Linked ==
    /\ pc = "best"
    /\ Anc[best] \cap stored # {}
    /\ LET db == Max(Anc[best] \cap stored) IN
         /\ base' = db
         /\ link' = Anc[best] \ Anc[db]
         /\ IF db \in tips THEN pc' = "extend"
            ELSE IF db = best THEN pc' = "flag" ELSE pc' = "reorg"
    /\ UNCHANGED <<node, block, txs, cursor, done, orphans, coins, faults>>

Rank(h) == Cardinality({a \in link : a < h}) + (IF h = base THEN 0 ELSE 1)

\* Mutant of Slice: the slices do not overlap, the old tip keeps its flag.
SliceDisjoint ==
    {h \in link \cup {base} : done <= Rank(h) /\ Rank(h) < done + TipStep}

\* reverseBlockLinked.slice(start, end): it starts one row early, at the tip.
Slice ==
    {h \in link \cup {base} : done - 1 <= Rank(h) /\ Rank(h) < done + TipStep}

\* updateChainTips and save of the next slice.
Extend ==
    /\ pc = "extend" /\ link # {}
    /\ stored' = stored \cup Slice
    /\ tips' = (tips \ Slice) \cup {Max(Slice)}
    /\ reorged' = reorged \ Slice
    /\ IF done + TipStep > Cardinality(link)
       THEN NextRound
       ELSE done' = done + TipStep /\ UNCHANGED <<pc, cursor, link, base, orphans, coins>>
    /\ UNCHANGED <<node, tails, txs, faults>>

NothingNew ==
    /\ pc = "extend" /\ link = {}
    /\ NextRound
    /\ UNCHANGED <<node, block, txs, faults>>

\* Mutant of CorrectFlag: without new blocks there is nothing to do.
CorrectFlagNothing ==
    /\ pc = "flag"
    /\ NextRound
    /\ UNCHANGED <<node, block, txs, faults>>

\* The best block is stored and not a tip: only its flag is set.
CorrectFlag ==
    /\ pc = "flag"
    /\ tips' = tips \cup {base}
    /\ NextRound
    /\ UNCHANGED <<node, stored, tails, reorged, txs, faults>>

-----------------------------------------------------------------------------
(* A reorganisation: the rest of forwardBlock *)

Childless == {h \in stored : \A c \in stored : Parent[c] # h}

\* Mutant of ReorgList: the list begins with dbRecord itself.
ReorgListFork ==
    /\ pc = "reorg"
    /\ \E leaf \in Childless :
         /\ base \in Anc[leaf] /\ Anc[leaf] \ Anc[base] \subseteq stored
         /\ orphans' = {base} \cup (Anc[leaf] \ Anc[base])
    /\ pc' = "coins"
    /\ UNCHANGED <<node, block, txs, cursor, link, base, done, coins, faults>>

\* forwardReorg follows some stored child of each block until there is none.
ReorgList ==
    /\ pc = "reorg"
    /\ \E leaf \in Childless :
         /\ base \in Anc[leaf] /\ Anc[leaf] \ Anc[base] \subseteq stored
         /\ orphans' = Anc[leaf] \ Anc[base]
    /\ pc' = "coins"
    /\ UNCHANGED <<node, block, txs, cursor, link, base, done, coins, faults>>

FindCoinbase ==
    /\ pc = "coins"
    /\ coins' = orphans \cap coinTx
    /\ pc' = "deltx"
    /\ UNCHANGED <<node, block, txs, cursor, link, base, done, orphans, faults>>

DeleteCoinTx ==
    /\ pc = "deltx"
    /\ coinTx' = coinTx \ coins
    /\ pc' = "delout"
    /\ UNCHANGED <<node, block, live, coinOut, late, locals, faults>>

DeleteCoinOut ==
    /\ pc = "delout"
    /\ coinOut' = coinOut \ coins
    /\ pc' = "mark"
    /\ UNCHANGED <<node, block, live, coinTx, late, locals, faults>>

\* Mutant of MarkDeleted: the update is for the new branch.
MarkDeletedNew ==
    /\ pc = "mark"
    /\ live' = live \ link
    /\ pc' = "save"
    /\ UNCHANGED <<node, block, coinTx, coinOut, late, locals, faults>>

\* is_deleted becomes true for the orphans' transactions.  The UPDATE that sets
\* it to false for the new branch finds no row: the new blocks are not stored
\* before SaveReorg, so nothing was indexed for them.
MarkDeleted ==
    /\ pc = "mark"
    /\ live' = live \ orphans
    /\ pc' = "save"
    /\ UNCHANGED <<node, block, coinTx, coinOut, late, locals, faults>>

\* Mutant of SaveReorg: the orphans are not part of the list that is saved.
SaveReorgNew ==
    /\ pc = "save"
    /\ stored' = stored \cup link
    /\ tips' = (tips \ link) \cup {Max(link)}
    /\ reorged' = reorged \ link
    /\ NextRound
    /\ UNCHANGED <<node, tails, txs, faults>>

\* Mutant of SaveReorg: the flag goes to the other end of the new blocks.
SaveReorgLow ==
    /\ pc = "save"
    /\ stored' = stored \cup link
    /\ tips' = (tips \ (link \cup orphans)) \cup {Min(link)}
    /\ tails' = tails \ orphans
    /\ reorged' = (reorged \ link) \cup orphans
    /\ NextRound
    /\ UNCHANGED <<node, txs, faults>>

\* updateReorg, updateReorgChainTips and one save of both lists.
SaveReorg ==
    /\ pc = "save"
    /\ stored' = stored \cup link
    /\ tips' = (tips \ (link \cup orphans)) \cup {Max(link)}
    /\ tails' = tails \ orphans
    /\ reorged' = (reorged \ link) \cup orphans
    /\ NextRound
    /\ UNCHANGED <<node, txs, faults>>

-----------------------------------------------------------------------------
(* Failures and the rest of the system *)

More == faults.later + faults.script + faults.stale < MaxFault

\* An RPC or a statement throws, or the process dies: the round is over.  Walking
\* below the lowest stored block is one such RPC: it asks for an undefined hash.
Fail ==
    /\ pc # "load"
    /\ IF pc \in {"init", "back"} /\ tails = {}
       THEN faults.init < MaxInitFault /\ faults' = [faults EXCEPT !.init = @ + 1]
       ELSE More /\ faults' = [faults EXCEPT !.later = @ + 1]
    /\ NextRound
    /\ UNCHANGED <<node, block, txs>>

NoAncestor ==
    /\ pc = "best" /\ Anc[best] \cap stored = {}
    /\ NextRound
    /\ UNCHANGED <<node, block, txs, faults>>

\* The node accepts a higher chain.
ForkPoint(h) == Max(Anc[best] \cap Anc[h])

NodeMoves(h) ==
    /\ Height(h) > Height(best)
    /\ best' = h
    /\ IF best \in Anc[h] THEN UNCHANGED <<forks, tangled>>
       ELSE /\ forks' = forks \cup {ForkPoint(h)}
            /\ tangled' = (tangled \/ \E f \in forks : ForkPoint(h) \in Anc[f])
    /\ UNCHANGED <<block, txs, pc, locals, faults>>

\* BlockIndex stores the transactions of a row.  It does not look at is_reorg.
Index(b) ==
    /\ b \in stored \cap Indexed
    /\ live' = live \cup {b} /\ coinTx' = coinTx \cup {b} /\ coinOut' = coinOut \cup {b}
    /\ late' = IF b \in reorged \cup orphans THEN late \cup {b} ELSE late
    /\ UNCHANGED <<node, block, pc, locals, faults>>

\* fetchBlockHeaders.ts inserts the headers from SYNC_FROM_HEIGHT to the best
\* block, without flags.
Script ==
    /\ More /\ faults.script < MaxScript
    /\ faults' = [faults EXCEPT !.script = @ + 1]
    /\ stored' = stored \cup {a \in Anc[best] : Height(a) >= SyncFrom}
    /\ UNCHANGED <<node, tips, tails, reorged, txs, pc, locals>>

\* P reads a row that is downloaded ...
Hold(b) ==
    /\ More /\ faults.stale < MaxStale /\ held = NoRow
    /\ b \in stored \cap Indexed
    /\ held' = Row(b)
    /\ faults' = [faults EXCEPT !.stale = @ + 1]
    /\ UNCHANGED <<node, block, txs, pc, locals>>

\* ... and saves it, several awaits later: save compares it with the table and writes
\* every column that differs.
SaveHeld ==
    /\ held # NoRow /\ held' = NoRow
    /\ LET Write(flag, S) == IF flag THEN S \cup {held.hash} ELSE S \ {held.hash} IN
        /\ tips' = Write(held.tip, tips)
        /\ tails' = Write(held.tail, tails)
        /\ reorged' = Write(held.reorg, reorged)
    /\ UNCHANGED <<node, stored, txs, pc, locals, faults>>

FStep ==
    \/ Load \/ SaveFirstTip \/ Backfill \/ BackfillDone
    \/ Linked \/ NoAncestor \/ Extend \/ NothingNew \/ CorrectFlag
    \/ ReorgList \/ FindCoinbase \/ DeleteCoinTx \/ DeleteCoinOut \/ MarkDeleted
    \/ SaveReorg

Next ==
    \/ FStep /\ UNCHANGED held
    \/ Fail /\ UNCHANGED held
    \/ Script /\ UNCHANGED held
    \/ \E h \in Hash : (NodeMoves(h) \/ Index(h)) /\ UNCHANGED held
    \/ SaveHeld
    \/ \E h \in Hash : Hold(h)

\* F loops for ever; nothing is assumed of the node and the other daemons.
Spec == Init /\ [][Next]_vars /\ WF_vars(FStep /\ UNCHANGED held)

-----------------------------------------------------------------------------
(* Properties *)

\* Every variable stays in its type; dbRecord is a stored row while it is used.
TypeOK ==
    /\ best \in Hash /\ forks \subseteq Hash
    /\ {stored, tips, tails, reorged} \subseteq SUBSET Hash
    /\ tips \cup tails \cup reorged \subseteq stored
    /\ {live, coinTx, coinOut, late} \subseteq SUBSET stored
    /\ held \in [hash : Hash \cup {0}, tip : BOOLEAN, tail : BOOLEAN, reorg : BOOLEAN]
    /\ held.hash \in stored \cup {0}
    /\ pc \in {"load", "init", "back", "best", "extend", "flag", "reorg", "coins",
               "deltx", "delout", "mark", "save"}
    /\ cursor \in 0..NBlocks
    /\ {link, orphans, coins} \subseteq SUBSET Hash
    /\ base \in stored \cup {0} /\ done \in Nat
    /\ faults \in [{"init", "later", "script", "stale"} -> Nat]

\* Nobody but F writes flags and rows, and the node left its chain only above all
\* blocks where it left it before.
Undisturbed == ~tangled /\ faults.script = 0 /\ faults.stale = 0

\* The flag is_chaintips is on one row at a time, also between the slices of a
\* long extension and after a failure there: the slices overlap (forwardBlock).
TipUnique ==
    Undisturbed => Cardinality(tips) <= 1

\* The rows that are not is_reorg form one chain, at every moment of a
\* reorganisation: both branches are switched by the one save at its end.
MainIsChain ==
    Undisturbed =>
        \A a, b \in stored \ reorged : a \in Anc[b] \/ b \in Anc[a]

\* The height of the tip never falls: not between the slices of a long extension, not
\* in a reorganisation (forwardBlock has no height of its own to compare; it relies
\* on the node's), and not in the round after one that failed.
TipNeverFalls ==
    [][Undisturbed' =>
          \A m \in tips, n \in tips' : Height(m) <= Height(n)]_vars

\* To a reader of the table, the rows of one branch at a time count, below one tip: a
\* page only adds to their lower end, a slice or the save of a reorganisation moves
\* the tip to a strictly higher block in one step, and a row that was orphaned never
\* counts again (daemonForwardBlock).
Chain == INSTANCE MainChain WITH
    rows <- stored \ reorged, orphaned <- reorged, tip <- tips, calm <- Undisturbed

ImplementsMainChain == Chain!Spec

\* While genesis is not reached, the only row without its parent is the is_tail
\* row, so the next process can go on from it.
GapIsTail ==
    faults.init = 0 /\ faults.script = 0 /\ faults.stale = 0 /\ TailRows # {} =>
        \A h \in stored : Parent[h] \notin stored \cup {0} => h \in tails

\* Once a branch is marked is_reorg, its transactions are deleted and so is its
\* coinbase, unless BlockIndex (which never looks at is_reorg) stored a block
\* of it after the reorganisation began.  The outputs of the coinbase are gone
\* if no round failed: a round that dies after deleting the tx row no longer
\* finds them.
OrphansDeleted ==
    Undisturbed =>
        \A b \in reorged \ late :
            /\ b \notin live /\ b \notin coinTx
            /\ faults.later = 0 => b \notin coinOut

\* When the node stops moving, the table settles on its chain: the tip, the
\* whole way back to genesis, and exactly the rest marked is_reorg.
Followed ==
    /\ tips = {best}
    /\ Anc[best] \subseteq stored
    /\ reorged = stored \ Anc[best]

ChainIsFollowed == <>[](Undisturbed /\ faults.init = 0 => Followed)

\* Whenever the script runs, F does not get stuck on rows it did not save: in the
\* end the node's best block has the flag, and all blocks below it are stored.
\* The latter needs that no round failed: findOne may return the genesis row the
\* script inserted instead of the is_tail row, and then the walk is not resumed.
BestIsReached ==
    <>[]( faults.init = 0 =>
          /\ best \in tips
          /\ faults.later = 0 /\ faults.stale = 0 => Anc[best] \subseteq stored )

\* "restart process ... forward until previousblockhash is null"
\* (block.service.ts:609, 612): in the end the genesis block is stored.
BackfillReachesGenesis == <>(1 \in stored)
=============================================================================
