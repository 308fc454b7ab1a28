-------------------------- MODULE MainChain_proofs --------------------------
(***************************************************************************)
(* Proof that ChainSync implements MainChain, for every tree of blocks,    *)
(* every length of the pages and slices and every number of failures.      *)
(***************************************************************************)
EXTENDS ChainSync_proofs

-----------------------------------------------------------------------------
(* Where the walk to genesis goes on.                                      *)

\* The is_tail row is the lowest one, and F asks for headers below all rows.
LowInv ==
    Undisturbed =>
        /\ \A t \in tails, b \in Main : t \in Anc[b]
        /\ pc = "back" /\ cursor # 0 => \A b \in Main : cursor \in Anc[b] /\ cursor # b

LEMMA LowFrame ==
    ASSUME LowInv, UNCHANGED <<stored, reorged, tails>>, Undisturbed' => Undisturbed,
           pc' # "back" \/ UNCHANGED <<pc, cursor>>
    PROVE  LowInv'
BY DEF LowInv, Main

\* A parent is below all that its child is below.
LEMMA ParentUnder ==
    ASSUME NEW t \in Hash, t # 1, NEW b \in Hash, t \in Anc[b]
    PROVE  Parent[t] \in Anc[b] /\ Parent[t] # b
<1>1. Parent[t] \in Hash /\ Parent[t] < t
  BY HashFacts
<1>2. Parent[t] \in Anc[b] /\ t <= b
  BY AncIn, AncTrans
<1>3. Parent[t] # b
  BY <1>1, <1>2, HashOrder
<1> QED
  BY <1>2, <1>3

LEMMA ExtendFacts ==
    ASSUME TypeInv, ChainInv, Extend, Undisturbed
    PROVE  \E m \in tips, n \in Slice :
              /\ m \in Slice /\ n \in Hash /\ base \in Main
              /\ tips = {m} /\ tips' = {n} /\ m \in Anc[n]
              /\ Slice \subseteq Anc[n] /\ Slice \subseteq Anc[Top]
              /\ \A x \in Slice : base \in Anc[x]
              /\ stored' = stored \cup Slice /\ reorged' = reorged \ Slice
              /\ Main' = Main \cup Slice
              /\ UNCHANGED <<best, forks, tails>>
<1>1. pc = "extend" /\ pc \in LinkPcs /\ tips # {} /\ Top \in Hash
  BY DEF Extend, LinkPcs, ChainInv, TypeInv, LinkInv
<1>2. PICK m \in tips : ExtendInv(m)
  BY <1>1 DEF ChainInv
<1>3. tips = {m} /\ base \in Main /\ m \in Slice
  BY <1>2, TheTip DEF ExtendInv, Slice
<1>4. PICK n \in Slice : n = Max(Slice)
  BY <1>1, SliceFacts DEF TypeInv
<1>5. Slice \subseteq link \cup {base} /\ \A y \in Slice : y <= n
  BY <1>1, <1>4, SliceFacts DEF TypeInv
<1>6. /\ stored' = stored \cup Slice /\ tips' = {n} /\ reorged' = reorged \ Slice
      /\ UNCHANGED <<best, forks, tails>>
  BY <1>3, <1>4 DEF Extend, node
<1>7. /\ base \in Hash /\ base \in Anc[Top] /\ link = Anc[Top] \ Anc[base]
      /\ \A x \in link \cup {base} : base \in Anc[x]
  <2>1. base \in Anc[base]
    BY <1>1, RankFacts, AncIn DEF TypeInv
  <2> QED
    BY <1>1, <2>1, RankFacts DEF TypeInv, LinkInv
<1>8. n \in Hash /\ n \in Anc[Top] /\ Slice \subseteq Anc[Top]
  BY <1>1, <1>5, <1>7, AncIn
<1>9. Slice \subseteq Anc[n]
  BY <1>1, <1>5, <1>8, AncLinear
<1>10. Main' = Main \cup Slice
  BY <1>6 DEF Main, TypeInv, TypeOK
<1> QED
  BY <1>3, <1>4, <1>5, <1>6, <1>7, <1>8, <1>9, <1>10

LEMMA ReorgFacts ==
    ASSUME TypeInv, ChainInv, SaveReorg, Undisturbed
    PROVE  \E m \in tips, n \in link :
              /\ ReorgInv(m) /\ tips = {m} /\ tips' = {n} /\ n = Top /\ n \in Hash
              /\ base \in Hash /\ base \in Anc[n] /\ link = Anc[n] \ Anc[base]
              /\ orphans = Anc[m] \ Anc[base] /\ link \cap orphans = {}
              /\ stored' = stored \cup link /\ reorged' = (reorged \ link) \cup orphans
              /\ tails' = tails \ orphans /\ Main' = (Main \ orphans) \cup link
              /\ UNCHANGED <<best, forks>>
<1>1. /\ pc = "save" /\ pc \in LinkPcs /\ tips # {} /\ Top \in Hash /\ base \in Anc[Top]
      /\ link = Anc[Top] \ Anc[base] /\ link # {} /\ Top = Max(link)
  BY DEF SaveReorg, LinkPcs, ChainInv, TypeInv, LinkInv, Top
<1>2. PICK m \in tips : ReorgInv(m)
  BY <1>1 DEF ChainInv, ReorgPcs
<1>3. tips = {m} /\ m \in Hash /\ best \in Hash
  BY TheTip
<1>4. orphans = Anc[m] \ Anc[base] /\ Anc[m] \cap Anc[Top] \subseteq Anc[base]
      /\ m \notin Anc[best] /\ Meet(best, m) = base
  BY <1>1, <1>2 DEF ReorgInv, ReorgPcs
<1>5. base \in Hash /\ Anc[base] \subseteq Anc[best]
  BY <1>3, <1>4, MeetFacts, AncTrans
<1>6. Top \in link
  <2>1. link \in SUBSET Hash
    BY <1>1, RankFacts DEF TypeInv
  <2> QED
    BY <1>1, <2>1, MaxExists
<1>7. m \in orphans /\ link \cap orphans = {}
  BY <1>1, <1>3, <1>4, <1>5, AncIn
<1>8. /\ stored' = stored \cup link /\ tips' = {Top} /\ tails' = tails \ orphans
      /\ reorged' = (reorged \ link) \cup orphans /\ UNCHANGED <<best, forks>>
  BY <1>1, <1>3, <1>7 DEF SaveReorg, node
<1>9. Main' = (Main \ orphans) \cup link
  BY <1>7, <1>8 DEF Main, TypeInv, TypeOK
<1>10. PICK n \in link : n = Top
  BY <1>6
<1> QED
  BY <1>1, <1>2, <1>3, <1>4, <1>5, <1>7, <1>8, <1>9, <1>10

\* One page goes below all rows of the chain.
LEMMA PageBelow ==
    ASSUME TypeInv, ChainInv, LowInv, Backfill, Undisturbed
    PROVE  \E m \in tips, p \in Page(cursor) :
              /\ tips = {m} /\ m \in Hash /\ cursor \in Hash /\ p \in Hash /\ p = Min(Page(cursor))
              /\ p \in Anc[cursor] /\ p \in Anc[m]
              /\ Page(cursor) \subseteq Anc[m] /\ Page(cursor) \cap reorged = {}
              /\ Main' = Main \cup Page(cursor)
              /\ \A b \in Main' : p \in Anc[b]
<1>1. /\ pc = "back" /\ cursor # 0 /\ tips # {} /\ \E t \in Main : Parent[t] = cursor
  BY DEF Backfill, ChainInv, WalkInv
<1>2. PICK m \in tips, t \in Main : Parent[t] = cursor
  BY <1>1
<1>3. tips = {m} /\ m \in Hash /\ TipInv(m) /\ m \in Main /\ Main \subseteq Anc[m]
  BY TheTip
<1>4. t \in Anc[m] /\ t \in Hash /\ t # 1 /\ cursor \in Hash /\ cursor \in Anc[m]
  BY <1>1, <1>2, <1>3, AncIn, HashFacts
<1>5. PICK p \in Page(cursor) : p = Min(Page(cursor))
  BY <1>4, PageFacts
<1>6. Page(cursor) \subseteq Anc[cursor] /\ Page(cursor) \subseteq Anc[m]
      /\ p \in Hash /\ Page(cursor) \subseteq Hash
  BY <1>3, <1>4, PageFacts, AncTrans, AncIn
<1>7. Page(cursor) \cap reorged = {}
  BY <1>3, <1>6, TipClean DEF ChainInv
<1>8. Main' = Main \cup Page(cursor)
  BY <1>7 DEF Main, Backfill
<1>9. ASSUME NEW b \in Main' PROVE p \in Anc[b]
  <2>1. CASE b \in Main
    <3>1. cursor \in Anc[b] /\ b \in Hash
      BY <1>1, <1>3, <2>1, AncIn DEF LowInv
    <3> QED
      BY <1>6, <3>1, AncTrans
  <2>2. CASE b \in Page(cursor)
    <3>1. p <= b
      <4>1. \A y \in Page(cursor) : p <= y
        BY <1>5, <1>6, MinExists, HashFacts
      <4> QED
        BY <2>2, <4>1
    <3> QED
      BY <1>4, <1>6, <2>2, <3>1, AncLinear
  <2> QED
    BY <1>8, <1>9, <2>1, <2>2
<1> QED
  BY <1>3, <1>4, <1>5, <1>6, <1>7, <1>8, <1>9

\* What the script and P do is a disturbance.
LEMMA NoDisturbance ==
    ASSUME TypeInv, Undisturbed'
    PROVE  ~ Script /\ \A h \in Hash : ~ Hold(h)
<1>1. ASSUME Script \/ \E h \in Hash : Hold(h) PROVE FALSE
  <2>1. /\ faults.script \in Nat /\ faults.stale \in Nat
        /\ \/ faults' = [faults EXCEPT !.script = @ + 1]
           \/ faults' = [faults EXCEPT !.stale = @ + 1]
    BY <1>1 DEF Script, Hold, TypeInv, TypeOK
  <2>2. faults'.script # 0 \/ faults'.stale # 0
    BY <2>1 DEF TypeInv, TypeOK
  <2> QED
    BY <2>2 DEF Undisturbed
<1> QED
  BY <1>1

LEMMA LowStep ==
    ASSUME TypeInv, GapInv, ChainInv, LowInv, [Next]_vars
    PROVE  LowInv'
<1> USE DEF node, block, txs, locals
<1> SUFFICES ASSUME Undisturbed, Undisturbed' PROVE LowInv'
  BY CalmBefore DEF LowInv
<1>0. Main \subseteq Hash /\ best \in Hash
  BY DEF Main, TypeInv, TypeOK
<1>1. CASE \/ BackfillDone \/ Linked \/ NoAncestor \/ NothingNew \/ UNCHANGED vars
           \/ Fail \/ \E h \in Hash : NodeMoves(h) \/ Index(h)
  BY <1>1, LowFrame DEF BackfillDone, Linked, NoAncestor, NothingNew, NextRound, Fail, NodeMoves,
     Index, vars
<1>2. CASE ReorgList \/ FindCoinbase \/ DeleteCoinTx \/ DeleteCoinOut \/ MarkDeleted
  BY <1>2, LowFrame DEF ReorgList, FindCoinbase, DeleteCoinTx, DeleteCoinOut, MarkDeleted
<1>3. CASE Load
  <2>1. Main' = Main /\ tails' = tails
    BY <1>3 DEF Load, Main
  <2>2. ASSUME pc' = "back", cursor' # 0, NEW b \in Main
        PROVE  cursor' \in Anc[b] /\ cursor' # b
    <3>1. PICK t \in TailRows : cursor' = Parent[t]
      BY <1>3, <2>2 DEF Load
    <3>2. t # 1 /\ t \in tails /\ t \in Hash
      BY <2>2, <3>1, HashFacts DEF TailRows, TypeInv, TypeOK
    <3> QED
      BY <1>0, <2>2, <3>1, <3>2, ParentUnder DEF LowInv
  <2> QED
    BY <2>1, <2>2 DEF LowInv
<1>4. CASE SaveFirstTip
  <2>1. stored = {} /\ tails = {} /\ reorged = {}
    BY <1>4 DEF SaveFirstTip, ChainInv, WalkInv, TypeInv, TypeOK
  <2>2. tails' = {} /\ Main' = {best} /\ cursor' = Parent[best]
    BY <1>4, <2>1 DEF SaveFirstTip, Main
  <2>3. cursor' # 0 => cursor' \in Anc[best] /\ cursor' # best
    BY <1>0, <2>2, HashFacts, AncIn, ParentUnder
  <2> QED
    BY <2>2, <2>3 DEF LowInv
<1>5. CASE Backfill
  <2>1. PICK p \in Page(cursor) :
           /\ p \in Hash /\ p = Min(Page(cursor)) /\ \A b \in Main' : p \in Anc[b]
           /\ Main' = Main \cup Page(cursor) /\ Page(cursor) \subseteq Hash
    <3>1. \A m \in Hash : Anc[m] \subseteq Hash
      BY AncIn
    <3> QED
      BY <1>5, <3>1, PageBelow
  <2>2. tails' = {p} /\ cursor' = Parent[p]
    BY <1>5, <2>1 DEF Backfill
  <2>3. ASSUME cursor' # 0, NEW b \in Main' PROVE cursor' \in Anc[b] /\ cursor' # b
    <3>1. p # 1 /\ b \in Hash
      BY <1>0, <2>1, <2>2, <2>3, HashFacts
    <3> QED
      BY <2>1, <2>2, <2>3, <3>1, ParentUnder
  <2> QED
    BY <2>1, <2>2, <2>3 DEF LowInv
<1>6. CASE Extend
  <2>1. PICK m \in tips, n \in Slice :
           /\ base \in Main /\ (\A x \in Slice : base \in Anc[x]) /\ Slice \subseteq Anc[n]
           /\ n \in Hash /\ Main' = Main \cup Slice /\ UNCHANGED tails
    BY <1>6, ExtendFacts
  <2>2. ASSUME NEW t \in tails, NEW b \in Slice PROVE t \in Anc[b]
    <3>1. t \in Anc[base] /\ base \in Anc[b] /\ b \in Hash
      BY <2>1, <2>2, AncIn DEF LowInv
    <3> QED
      BY <3>1, AncTrans
  <2>3. pc' # "back"
    BY <1>6 DEF Extend, NextRound
  <2> QED
    BY <2>1, <2>2, <2>3 DEF LowInv
<1>7. CASE SaveReorg
  <2>1. PICK m \in tips, n \in link :
           /\ ReorgInv(m) /\ n \in Hash /\ base \in Anc[n] /\ base \in Hash
           /\ link = Anc[n] \ Anc[base] /\ Main' = (Main \ orphans) \cup link
           /\ tails' = tails \ orphans
    BY <1>7, ReorgFacts
  <2>2. ASSUME NEW t \in tails, NEW b \in link PROVE t \in Anc[b]
    <3>1. t \in Anc[base] /\ b \in Hash /\ base \in Anc[b]
      BY <2>1, <2>2, AncIn, AncLinear DEF LowInv, ReorgInv
    <3> QED
      BY <3>1, AncTrans
  <2>3. pc' # "back"
    BY <1>7 DEF SaveReorg, NextRound
  <2> QED
    BY <2>1, <2>2, <2>3 DEF LowInv
<1>8. ~ CorrectFlag
  BY DEF CorrectFlag, ChainInv
<1>9. ~ Script /\ \A h \in Hash : ~ Hold(h)
  BY NoDisturbance
<1>10. ~ SaveHeld
  BY DEF SaveHeld, GapInv, Undisturbed
<1> QED
  BY <1>1, <1>2, <1>3, <1>4, <1>5, <1>6, <1>7, <1>8, <1>9, <1>10 DEF Next, FStep

-----------------------------------------------------------------------------
(* Which blocks are strictly higher.                                       *)

LEMMA HeightBelow ==
    ASSUME NEW b \in Hash, NEW a \in Anc[b], a # b
    PROVE  Height(a) < Height(b)
<1>1. a \in Hash /\ Anc[a] \subseteq Anc[b] /\ b \in Anc[b] /\ IsFiniteSet(Anc[b])
  BY AncTrans, AncIn, HeightType
<1>2. b \notin Anc[a]
  BY <1>1, AncSame
<1>3. IsFiniteSet(Anc[b] \ {b}) /\ Cardinality(Anc[b] \ {b}) = Cardinality(Anc[b]) - 1
  BY <1>1, FS_RemoveElement
<1>4. Cardinality(Anc[a]) <= Cardinality(Anc[b] \ {b})
  BY <1>1, <1>2, <1>3, FS_Subset
<1>5. Height(a) \in Nat /\ Height(b) \in Nat
  BY <1>1, HeightType
<1> QED
  BY <1>3, <1>4, <1>5 DEF Height

\* On the node's chain, or lower than it.
Sharp(x) == x \in Anc[best] \/ Height(x) < Height(best)

\* What F has read stays on the node's chain or becomes lower; a branch it is about
\* to give up is lower than the new one.
SharpInv ==
    Undisturbed =>
        /\ \A m \in tips : Sharp(m)
        /\ pc \in LinkPcs => Sharp(Top)
        /\ pc \in ReorgPcs \cup {"reorg"} => \A m \in tips : Height(m) < Height(Top)

LEMMA SharpFrame ==
    ASSUME SharpInv, UNCHANGED <<best, tips>>, Undisturbed' => Undisturbed,
           \/ pc' \notin LinkPcs
           \/ UNCHANGED <<link, base, pc>>
           \/ UNCHANGED <<link, base>> /\ {pc, pc'} \subseteq ReorgPcs \cup {"reorg"}
    PROVE  SharpInv'
<1>1. link' = link /\ base' = base => Top' = Top
  BY DEF Top
<1> QED
  BY <1>1 DEF SharpInv, Sharp, LinkPcs, ReorgPcs

\* Below a sharp block all are sharp.
LEMMA SharpDown ==
    ASSUME NEW x \in Hash, best \in Hash, Sharp(x), NEW y \in Anc[x]
    PROVE  Sharp(y)
<1>1. Height(x) \in Nat /\ Height(best) \in Nat /\ Height(y) \in Nat /\ Height(y) <= Height(x)
  BY HeightType
<1>2. x \in Anc[best] => y \in Anc[best]
  BY AncTrans
<1> QED
  BY <1>1, <1>2 DEF Sharp

LEMMA SharpStep ==
    ASSUME TypeInv, GapInv, NodeInv, ChainInv, SharpInv, [Next]_vars
    PROVE  SharpInv'
<1> USE DEF node, block, txs, locals
<1> SUFFICES ASSUME Undisturbed, Undisturbed' PROVE SharpInv'
  BY CalmBefore DEF SharpInv
<1>0. /\ best \in Hash /\ tips \subseteq Hash /\ best \in Anc[best]
      /\ \A x \in Hash : Height(x) \in Nat
  BY AncIn, HeightType DEF TypeInv, TypeOK
<1>1. CASE \/ Load \/ Backfill \/ BackfillDone \/ NoAncestor \/ NothingNew \/ UNCHANGED vars
           \/ Fail \/ \E h \in Hash : Index(h)
  BY <1>1, SharpFrame DEF Load, Backfill, BackfillDone, NoAncestor, NothingNew, NextRound, Fail,
     Index, vars, LinkPcs
<1>2. CASE ReorgList \/ FindCoinbase \/ DeleteCoinTx \/ DeleteCoinOut \/ MarkDeleted
  BY <1>2, SharpFrame DEF ReorgList, FindCoinbase, DeleteCoinTx, DeleteCoinOut, MarkDeleted,
     ReorgPcs
<1>3. CASE SaveFirstTip
  <2>1. tips' = {best} /\ best' = best /\ pc' = "back"
    BY <1>3 DEF SaveFirstTip, ChainInv, WalkInv
  <2> QED
    BY <1>0, <2>1 DEF SharpInv, Sharp, LinkPcs, ReorgPcs
<1>4. CASE Linked
  <2>1. /\ Top' = best /\ best' = best /\ tips' = tips
        /\ pc' = IF base' \in tips THEN "extend" ELSE IF base' = best THEN "flag" ELSE "reorg"
    BY <1>4, LinkedFacts DEF Linked
  <2>2. ASSUME pc' = "reorg", NEW m \in tips PROVE Height(m) < Height(best)
    <3>1. ChainInv'
      BY <1>4, ChainLinked
    <3>2. m \notin Anc[best]
      BY <2>1, <2>2, <3>1 DEF ChainInv, ReorgInv
    <3> QED
      BY <2>2, <3>2 DEF SharpInv, Sharp
  <2> QED
    BY <1>0, <2>1, <2>2 DEF SharpInv, Sharp, ReorgPcs
<1>5. CASE Extend
  <2>1. PICK m \in tips, n \in Slice : tips' = {n} /\ n \in Anc[Top] /\ best' = best
    BY <1>5, ExtendFacts
  <2>2. Top \in Hash /\ Sharp(Top)
    BY <1>5 DEF Extend, TypeInv, LinkInv, LinkPcs, SharpInv
  <2>3. Sharp(n)
    BY <1>0, <2>1, <2>2, SharpDown
  <2>4. pc' \in LinkPcs => pc' = "extend" /\ Top' = Top
    BY <1>5 DEF Extend, NextRound, LinkPcs, Top
  <2>5. pc' \notin ReorgPcs \cup {"reorg"}
    BY <1>5 DEF Extend, NextRound, ReorgPcs
  <2> QED
    BY <2>1, <2>2, <2>3, <2>4, <2>5 DEF SharpInv, Sharp
<1>6. CASE SaveReorg
  <2>1. PICK m \in tips, n \in link : tips' = {n} /\ n = Top /\ best' = best
    BY <1>6, ReorgFacts
  <2>2. Sharp(Top) /\ pc' = "load"
    BY <1>6 DEF SaveReorg, NextRound, LinkPcs, SharpInv
  <2> QED
    BY <2>1, <2>2 DEF SharpInv, Sharp, LinkPcs, ReorgPcs
<1>7. ASSUME NEW h \in Hash, NodeMoves(h) PROVE SharpInv'
  <2>1. best' = h /\ Height(h) > Height(best) /\ UNCHANGED <<tips, pc, link, base>> /\ Top' = Top
    BY <1>7 DEF NodeMoves, Top
  <2>2. ASSUME NEW x \in Hash, Sharp(x) PROVE Sharp(x)'
    <3>1. Height(x) <= Height(best)
      BY <1>0, <2>2, HeightType DEF Sharp
    <3> QED
      BY <1>0, <2>1, <3>1 DEF Sharp
  <2>3. pc \in LinkPcs => Top \in Hash
    BY DEF TypeInv, LinkInv
  <2>4. pc \in LinkPcs => Sharp(Top)'
    <3> SUFFICES ASSUME pc \in LinkPcs PROVE Sharp(Top)'
      OBVIOUS
    <3>1. PICK n \in Hash : n = Top
      BY <2>3
    <3>2. Sharp(n)'
      BY <2>2, <3>1 DEF SharpInv
    <3> QED
      BY <2>1, <3>1, <3>2 DEF Sharp
  <2> QED
    BY <1>0, <2>1, <2>2, <2>4 DEF SharpInv
<1>8. ~ CorrectFlag /\ ~ SaveHeld
  BY DEF CorrectFlag, ChainInv, SaveHeld, GapInv, Undisturbed
<1>9. ~ Script /\ \A h \in Hash : ~ Hold(h)
  BY NoDisturbance
<1> QED
  BY <1>1, <1>2, <1>3, <1>4, <1>5, <1>6, <1>7, <1>8, <1>9 DEF Next, FStep

-----------------------------------------------------------------------------
(* The steps of MainChain.                                                 *)

\* New blocks on the branch of the tip: none of them was orphaned.
LEMMA ExtendMap ==
    ASSUME TypeInv, ChainInv, ChainInv', Extend, Undisturbed, Undisturbed'
    PROVE  UNCHANGED <<Main, reorged, tips>> \/ \E n \in Hash : Chain!Follow(n)
<1>1. PICK m \in tips, n \in Slice :
         /\ m \in Slice /\ n \in Hash /\ base \in Main
         /\ tips = {m} /\ tips' = {n} /\ m \in Anc[n]
         /\ Slice \subseteq Anc[n] /\ Slice \subseteq Anc[Top]
         /\ \A x \in Slice : base \in Anc[x]
         /\ reorged' = reorged \ Slice /\ Main' = Main \cup Slice
  BY ExtendFacts
<1>2. /\ m \in Hash /\ best \in Hash /\ TipInv(m) /\ Main \subseteq Anc[m]
      /\ reorged \subseteq Hash
  BY TheTip DEF TypeInv, TypeOK
<1>3. Top \in Hash /\ Good(Top)
  BY DEF Extend, LinkPcs, TypeInv, LinkInv, ChainInv
<1>4. Slice \cap reorged = {}
  <2> SUFFICES ASSUME NEW r \in reorged, r \in Slice PROVE FALSE
    OBVIOUS
  <2>1. r \notin Anc[best] /\ Under(Meet(best, r), m)
    BY <1>2 DEF ChainInv, TipInv
  <2>2. Meet(best, r) = Meet(best, Top)
    BY <1>1, <1>3, <2>1, GoodDown
  <2>3. Under(Meet(best, r), Top)
    BY <1>1, <1>2, <1>3, <2>1, UnderUp
  <2> QED
    BY <2>2, <2>3 DEF Under
<1>5. CASE n = m
  <2>1. Slice \subseteq Main
    BY <1>1, <1>2, <1>5 DEF TipInv
  <2> QED
    BY <1>1, <1>4, <1>5, <2>1
<1>6. CASE n # m
  <2>1. Height(m) < Height(n)
    BY <1>1, <1>6, HeightBelow
  <2>2. TipInv(n)'
    BY <1>1 DEF ChainInv
  <2>3. Main \subseteq Anc[n]
    BY <1>1, <1>2, AncTrans
  <2>4. ASSUME NEW b \in Main' PROVE b \in Anc[n] /\ \E low \in Main : low \in Anc[b]
    <3>1. CASE b \in Main
      BY <1>2, <2>3, <3>1, AncIn
    <3>2. CASE b \in Slice
      BY <1>1, <3>2
    <3> QED
      BY <1>1, <2>4, <3>1, <3>2
  <2>5. ASSUME NEW low \in Main, NEW b \in Anc[n], low \in Anc[b] PROVE b \in Main'
    BY <1>1, <2>2, <2>5 DEF TipInv
  <2>6. Main' = UNION {{b \in Anc[n] : low \in Anc[b]} : low \in Main \cap Anc[n]}
    BY <2>3, <2>4, <2>5
  <2>7. Main \cap Anc[n] # {} /\ Main \ Anc[n] = {} /\ reorged' = reorged
    BY <1>1, <1>4, <2>3
  <2>8. Main' \cap reorged' = {}
    BY DEF Main
  <2>9. \A x \in tips : Height(x) < Height(n)
    BY <1>1, <2>1
  <2>10. (stored \ reorged)' = UNION {Chain!Path(low, n) : low \in (stored \ reorged) \cap Anc[n]}
    BY <2>6 DEF Chain!Path, Main
  <2>11. reorged' = reorged \cup ((stored \ reorged) \ Anc[n])
    BY <2>7 DEF Main
  <2>12. (stored \ reorged) \cap Anc[n] # {} /\ (stored \ reorged)' \cap reorged' = {}
    BY <2>7, <2>8 DEF Main
  <2>13. Chain!Follow(n)
    BY <1>1, <2>9, <2>10, <2>11, <2>12 DEF Chain!Follow
  <2> QED
    BY <1>1, <2>13
<1> QED
  BY <1>5, <1>6

\* One save moves the tip to the other branch.
LEMMA ReorgMap ==
    ASSUME TypeInv, ChainInv, ChainInv', SharpInv, SaveReorg, Undisturbed, Undisturbed'
    PROVE  \E n \in Hash : Chain!Follow(n)
<1>1. PICK m \in tips, n \in link :
         /\ ReorgInv(m) /\ tips = {m} /\ tips' = {n} /\ n = Top /\ n \in Hash
         /\ base \in Hash /\ base \in Anc[n] /\ link = Anc[n] \ Anc[base]
         /\ orphans = Anc[m] \ Anc[base] /\ link \cap orphans = {}
         /\ reorged' = (reorged \ link) \cup orphans
         /\ Main' = (Main \ orphans) \cup link
  BY ReorgFacts
<1>2. /\ m \in Hash /\ best \in Hash /\ TipInv(m) /\ Main \subseteq Anc[m]
      /\ reorged \subseteq Hash
  BY TheTip DEF TypeInv, TypeOK
<1>3. /\ base \in Main /\ Meet(best, m) = base /\ Anc[m] \cap Anc[n] \subseteq Anc[base]
      /\ Under(base, n) /\ Good(n) /\ Height(m) < Height(n)
  BY <1>1 DEF SaveReorg, ReorgInv, ReorgPcs, LinkPcs, ChainInv, SharpInv
<1>4. link \cap reorged = {}
  <2> SUFFICES ASSUME NEW r \in reorged, r \in link PROVE FALSE
    OBVIOUS
  <2>1. r \notin Anc[best] /\ Under(Meet(best, r), m) /\ r \in Hash
    BY <1>2 DEF ChainInv, TipInv
  <2>2. Meet(best, r) = Meet(best, n) /\ Meet(best, r) \in Hash
    BY <1>1, <1>2, <1>3, <2>1, GoodDown, MeetFacts
  <2>3. Meet(best, r) \in Anc[base] /\ base \in Anc[Meet(best, r)] /\ Meet(best, r) # base
    BY <1>3, <2>1, <2>2 DEF Under
  <2> QED
    BY <1>1, <2>2, <2>3, AncSame
<1>5. Main \ Anc[n] = orphans
  <2>1. ASSUME NEW x \in orphans PROVE x \in Main /\ x \notin Anc[n]
    <3>1. x \in Anc[m] /\ base \in Anc[m] /\ x \notin Anc[base] /\ x \in Hash
      BY <1>1, <1>2, <1>3, <2>1, AncIn
    <3>2. base \in Anc[x]
      BY <1>2, <3>1, AncLinear
    <3> QED
      BY <1>2, <1>3, <3>1, <3>2 DEF TipInv
  <2>2. ASSUME NEW x \in Main, x \notin Anc[n] PROVE x \in orphans
    BY <1>1, <1>2, <2>2, AncTrans
  <2> QED
    BY <2>1, <2>2
<1>6. TipInv(n)'
  BY <1>1 DEF ChainInv
<1>7. ASSUME NEW b \in Main' PROVE b \in Anc[n] /\ \E low \in Main \cap Anc[n] : low \in Anc[b]
  <2>1. CASE b \in Main \ orphans
    BY <1>2, <1>5, <2>1, AncIn
  <2>2. CASE b \in link
    <3>1. b \in Anc[n] /\ base \in Anc[b]
      BY <1>1, <2>2, AncLinear
    <3> QED
      BY <1>1, <1>3, <3>1
  <2> QED
    BY <1>1, <1>7, <2>1, <2>2
<1>8. ASSUME NEW low \in Main \cap Anc[n], NEW b \in Anc[n], low \in Anc[b] PROVE b \in Main'
  <2>1. low \in Main'
    BY <1>1, <1>5
  <2> QED
    BY <1>6, <1>8, <2>1 DEF TipInv
<1>9. Main' = UNION {{b \in Anc[n] : low \in Anc[b]} : low \in Main \cap Anc[n]}
  BY <1>7, <1>8
<1>10. Main \cap Anc[n] # {} /\ reorged' = reorged \cup (Main \ Anc[n])
  BY <1>1, <1>3, <1>4, <1>5
<1>11. Main' \cap reorged' = {}
  BY DEF Main
<1>12. \A x \in tips : Height(x) < Height(n)
  BY <1>1, <1>3
<1>13. (stored \ reorged)' = UNION {Chain!Path(low, n) : low \in (stored \ reorged) \cap Anc[n]}
  BY <1>9 DEF Chain!Path, Main
<1>14. /\ (stored \ reorged) \cap Anc[n] # {} /\ (stored \ reorged)' \cap reorged' = {}
       /\ reorged' = reorged \cup ((stored \ reorged) \ Anc[n])
  BY <1>10, <1>11 DEF Main
<1>15. Chain!Follow(n)
  BY <1>1, <1>12, <1>13, <1>14 DEF Chain!Follow
<1> QED
  BY <1>1, <1>15

\* A page of headers.
LEMMA PageMap ==
    ASSUME TypeInv, ChainInv, ChainInv', LowInv, Backfill, Undisturbed, Undisturbed'
    PROVE  \E p \in Hash : Chain!Deepen(p)
<1>1. PICK m \in tips, p \in Page(cursor) :
         /\ tips = {m} /\ m \in Hash /\ p \in Hash /\ p \in Anc[m]
         /\ Main' = Main \cup Page(cursor) /\ \A b \in Main' : p \in Anc[b]
  BY PageBelow
<1>2. UNCHANGED <<tips, reorged>>
  BY DEF Backfill
<1>3. TipInv(m)'
  BY <1>1, <1>2 DEF ChainInv
<1>4. Main' = {b \in Anc[m] : p \in Anc[b]}
  <2>1. p \in Main' /\ Main' \subseteq Anc[m]
    BY <1>1, <1>3 DEF TipInv
  <2>2. ASSUME NEW b \in Anc[m], p \in Anc[b] PROVE b \in Main'
    BY <1>3, <2>1, <2>2 DEF TipInv
  <2> QED
    BY <1>1, <2>1, <2>2
<1>5. Chain!Deepen(p)
  BY <1>1, <1>2, <1>4 DEF Chain!Deepen, Chain!Path, Main
<1> QED
  BY <1>1, <1>5

LEMMA MapStep ==
    ASSUME TypeInv, GapInv, ChainInv, ChainInv', LowInv, SharpInv, [Next]_vars
    PROVE  [Chain!Next]_(Chain!vars)
<1> USE DEF node, block, txs, locals
<1>1. CASE ~ Undisturbed'
  BY <1>1 DEF Chain!Next
<1>2. CASE Undisturbed'
  <2>1. Undisturbed
    BY <1>2, CalmBefore
  <2>2. ASSUME \E b \in Hash : Chain!First(b) \/ Chain!Deepen(b) \/ Chain!Follow(b)
        PROVE  Chain!Next
    BY <1>2, <2>1, <2>2 DEF Chain!Next
  <2>3. ASSUME UNCHANGED <<stored, reorged, tips>>
        PROVE  UNCHANGED Chain!vars
    BY <1>2, <2>1, <2>3 DEF Chain!vars
  <2>4. CASE \/ Load \/ BackfillDone \/ Linked \/ NoAncestor \/ NothingNew \/ UNCHANGED vars
             \/ Fail \/ \E h \in Hash : NodeMoves(h) \/ Index(h)
    BY <2>3, <2>4 DEF Load, BackfillDone, Linked, NoAncestor, NothingNew, NextRound, Fail,
       NodeMoves, Index, vars
  <2>5. CASE ReorgList \/ FindCoinbase \/ DeleteCoinTx \/ DeleteCoinOut \/ MarkDeleted
    BY <2>3, <2>5 DEF ReorgList, FindCoinbase, DeleteCoinTx, DeleteCoinOut, MarkDeleted
  <2>6. CASE SaveFirstTip
    <3>1. best \in Hash /\ stored = {} /\ tips = {} /\ reorged = {}
      BY <2>1, <2>6 DEF SaveFirstTip, ChainInv, WalkInv, TypeInv, TypeOK
    <3>2. Chain!First(best)
      BY <2>6, <3>1 DEF SaveFirstTip, Chain!First
    <3> QED
      BY <2>2, <3>1, <3>2
  <2>7. CASE Backfill
    BY <1>2, <2>1, <2>2, <2>7, PageMap
  <2>8. CASE Extend
    <3>1. CASE UNCHANGED <<Main, reorged, tips>>
      BY <1>2, <2>1, <3>1 DEF Chain!vars, Main
    <3> QED
      BY <1>2, <2>1, <2>2, <2>8, <3>1, ExtendMap
  <2>9. CASE SaveReorg
    BY <1>2, <2>1, <2>2, <2>9, ReorgMap
  <2>10. ~ CorrectFlag /\ ~ SaveHeld
    BY <2>1, <1>2 DEF CorrectFlag, ChainInv, SaveHeld, GapInv, Undisturbed
  <2>11. ~ Script /\ \A h \in Hash : ~ Hold(h)
    BY <1>2, NoDisturbance
  <2> QED
    BY <2>4, <2>5, <2>6, <2>7, <2>8, <2>9, <2>10, <2>11 DEF Next, FStep
<1> QED
  BY <1>1, <1>2

LEMMA MapInit == Init => LowInv /\ SharpInv /\ Chain!Init
<1> SUFFICES ASSUME Init PROVE LowInv /\ SharpInv /\ Chain!Init
  OBVIOUS
<1>1. Undisturbed
  BY DEF Init, Undisturbed
<1> QED
  BY <1>1 DEF Init, LowInv, SharpInv, Main, LinkPcs, ReorgPcs, Chain!Init

\* The block table of daemonForwardBlock behaves like one chain with one tip: pages,
\* slices and the save of a reorganisation are single steps of it, and rounds that
\* fail anywhere are none.
THEOREM FollowsOneChain == Spec => ImplementsMainChain
<1>1. Init => GapInv /\ NodeInv /\ ChainInv /\ LowInv /\ SharpInv /\ Chain!Init
  BY ChainInit, MapInit DEF Init, GapInv, TailRows
<1>2. TypeInv /\ OrphInv /\ GapInv /\ NodeInv /\ ChainInv /\ LowInv /\ SharpInv /\ [Next]_vars
      => /\ TypeInv' /\ OrphInv' /\ GapInv' /\ NodeInv' /\ ChainInv' /\ LowInv' /\ SharpInv'
         /\ [Chain!Next]_(Chain!vars)
  BY TypeStep, OrphStep, GapStep, ChainStep, LowStep, SharpStep, MapStep
<1> QED
  BY <1>1, <1>2, TypeInit, OrphInit, PTL DEF Spec, ImplementsMainChain, Chain!Spec
=============================================================================
