-------------------------- MODULE ChainSync_proofs --------------------------
(***************************************************************************)
(* Proofs about ChainSync, for every tree of blocks, every length of the   *)
(* pages and slices, and every number of failures.                         *)
(***************************************************************************)
EXTENDS ChainSync, FiniteSetTheorems, WellFoundedInduction, TLAPS

-----------------------------------------------------------------------------
(* The lowest and the highest of some numbers.                             *)

LEMMA MinExists ==
    ASSUME NEW S \in SUBSET Nat, S # {}
    PROVE  Min(S) \in S /\ \A y \in S : Min(S) <= y
<1> DEFINE Less == {p \in Nat \X Nat : p[1] < p[2]}
<1>1. OpToRel(<, Nat) = Less
  BY DEF OpToRel
<1>2. IsWellFoundedOn(Less, Nat)
  BY <1>1, NatLessThanWellFounded
<1>3. \E x \in S : \A y \in S : ~ (<<y, x>> \in Less)
  <2> HIDE DEF Less
  <2> QED BY <1>2, WFMin
<1>4. \E x \in S : \A y \in S : x <= y
  <2>1. \A x, y \in Nat : <<y, x>> \in Less <=> y < x
    OBVIOUS
  <2>2. PICK x \in S : \A y \in S : ~ (<<y, x>> \in Less)
    BY <1>3
  <2> HIDE DEF Less
  <2>3. \A y \in S : ~ (y < x)
    BY <2>1, <2>2
  <2>4. \A y \in S : x <= y
    BY <2>3
  <2> QED BY <2>4
<1> QED BY <1>4 DEF Min

LEMMA MaxExists ==
    ASSUME NEW S \in SUBSET Hash, S # {}
    PROVE  Max(S) \in S /\ \A y \in S : y <= Max(S)
<1> DEFINE D == {NBlocks - x : x \in S}
<1>1. D \in SUBSET Nat /\ D # {}
  <2>1. \A x \in S : NBlocks - x \in Nat
    BY ChainSyncAssumption DEF Hash
  <2>2. PICK x : x \in S
    OBVIOUS
  <2> QED BY <2>1, <2>2
<1>2. Min(D) \in D /\ \A y \in D : Min(D) <= y
  BY <1>1, MinExists
<1>3. PICK x \in S : Min(D) = NBlocks - x
  BY <1>2
<1>4. \A y \in S : NBlocks - y \in D
  OBVIOUS
<1> HIDE DEF D
<1>5. \A y \in S : x >= y
  BY <1>2, <1>3, <1>4, ChainSyncAssumption DEF Hash
<1>6. \E m \in S : \A y \in S : m >= y
  BY <1>5
<1>7. Max(S) \in S /\ \A y \in S : Max(S) >= y
  BY <1>6 DEF Max
<1> QED
  BY <1>7, ChainSyncAssumption DEF Hash

-----------------------------------------------------------------------------
(* The tree of blocks.                                                     *)

LEMMA HashFacts ==
    /\ NBlocks \in Nat \ {0} /\ Hash \subseteq Nat \ {0} /\ 1 \in Hash
    /\ IsFiniteSet(Hash) /\ Cardinality(Hash) = NBlocks
    /\ Parent[1] = 0
    /\ \A h \in Hash \ {1} : Parent[h] \in Hash /\ Parent[h] < h
    /\ \A h \in Hash : 1..h \subseteq Hash
<1>1. /\ NBlocks \in Nat \ {0} /\ Parent[1] = 0
      /\ \A h \in Hash \ {1} : Parent[h] \in 1..(h - 1)
  BY ChainSyncAssumption
<1>2. IsFiniteSet(1..NBlocks) /\ Cardinality(1..NBlocks) = NBlocks
  BY <1>1, FS_Interval
<1> QED
  BY <1>1, <1>2 DEF Hash

LEMMA HashOrder ==
    ASSUME NEW x \in Hash, NEW y \in Hash
    PROVE  /\ x \in Nat /\ x # 0 /\ ~ (x < x)
           /\ x < y \/ x = y \/ y < x
           /\ x < y => ~ (y < x) /\ x # y
           /\ x <= y <=> ~ (y < x)
BY HashFacts

LEMMA ParentBelow ==
    ASSUME NEW h \in Hash, NEW x \in (1..h) \ {1}
    PROVE  x \in Hash \ {1} /\ Parent[x] \in 1..h
<1>1. x \in Hash \ {1}
  BY HashFacts
<1>2. Parent[x] \in Hash /\ Parent[x] < x
  BY <1>1, HashFacts
<1>3. Parent[x] \in Nat /\ Parent[x] # 0 /\ h \in Nat /\ x \in Nat
  BY <1>1, <1>2, HashOrder
<1>4. x <= h
  OBVIOUS
<1> QED
  BY <1>1, <1>2, <1>3, <1>4

\* The three facts Anc is defined by.
LEMMA AncIn ==
    ASSUME NEW h \in Hash
    PROVE  /\ h \in Anc[h] /\ Anc[h] \subseteq 1..h /\ Anc[h] \subseteq Hash
           /\ \A x \in Anc[h] \ {1} : Parent[x] \in Anc[h]
<1>1. Anc[h] = {a \in 1..h : \A S \in SUBSET (1..h) :
                  h \in S /\ (\A x \in S \ {1} : Parent[x] \in S) => a \in S}
  BY DEF Anc
<1>2. h \in 1..h /\ 1..h \subseteq Hash
  BY HashFacts
<1>3. ASSUME NEW x \in Anc[h] \ {1} PROVE Parent[x] \in Anc[h]
  <2>1. Parent[x] \in 1..h
    BY <1>1, ParentBelow
  <2> QED
    BY <1>1, <2>1
<1> QED
  BY <1>1, <1>2, <1>3

LEMMA AncLeast ==
    ASSUME NEW h \in Hash, NEW S, h \in S,
           \A x \in (S \cap Hash) \ {1} : Parent[x] \in S
    PROVE  Anc[h] \subseteq S
<1> DEFINE R == S \cap (1..h)
<1>1. R \in SUBSET (1..h) /\ h \in R
  BY HashFacts
<1>2. \A x \in R \ {1} : Parent[x] \in R
  BY ParentBelow
<1>3. \A a \in Anc[h] : a \in R
  <2> HIDE DEF R
  <2> QED
    BY <1>1, <1>2 DEF Anc
<1> QED
  BY <1>3

LEMMA AncTrans ==
    ASSUME NEW h \in Hash, NEW a \in Anc[h]
    PROVE  Anc[a] \subseteq Anc[h] /\ a \in Hash /\ a <= h
<1>1. a \in Hash /\ a <= h
  BY AncIn
<1> QED
  BY <1>1, AncIn, AncLeast

LEMMA AncUnfold ==
    ASSUME NEW h \in Hash
    PROVE  IF h = 1 THEN Anc[h] = {h} ELSE Anc[h] = {h} \cup Anc[Parent[h]]
<1>1. CASE h = 1
  BY <1>1, AncIn
<1>2. CASE h # 1
  <2>1. Parent[h] \in Hash
    BY <1>2, HashFacts
  <2>2. Anc[Parent[h]] \subseteq Anc[h] /\ h \in Anc[h]
    BY <1>2, AncIn, AncTrans
  <2>3. Anc[h] \subseteq {h} \cup Anc[Parent[h]]
    <3> DEFINE S == {h} \cup Anc[Parent[h]]
    <3>1. \A x \in (S \cap Hash) \ {1} : Parent[x] \in S
      BY <2>1, AncIn
    <3> HIDE DEF S
    <3>2. h \in S => Anc[h] \subseteq S
      BY <3>1, AncLeast
    <3> QED
      BY <3>2 DEF S
  <2> QED
    BY <1>2, <2>2, <2>3
<1> QED
  BY <1>1, <1>2

\* Whatever is below one block is a chain.
LEMMA AncLinear ==
    ASSUME NEW h \in Hash, NEW a \in Anc[h], NEW b \in Anc[h]
    PROVE  /\ a \in Anc[b] \/ b \in Anc[a]
           /\ a <= b => a \in Anc[b]
<1>1. a \in Hash /\ b \in Hash
  BY AncIn
<1> DEFINE S == {x \in Hash : a \in Anc[x]} \cup Anc[a]
<1>2. h \in S
  OBVIOUS
<1>3. ASSUME NEW x \in (S \cap Hash) \ {1} PROVE Parent[x] \in S
  <2>1. CASE x \in Anc[a]
    BY <1>1, <2>1, AncIn
  <2>2. CASE a \in Anc[x] /\ x # a
    <3>1. a \in Anc[Parent[x]] /\ Parent[x] \in Hash
      BY <2>2, AncUnfold, HashFacts
    <3> QED
      BY <3>1
  <2>3. CASE x = a
    BY <1>1, <2>3, AncIn
  <2> QED
    BY <2>1, <2>2, <2>3
<1> HIDE DEF S
<1>4. b \in S
  BY <1>2, <1>3, AncLeast
<1>5. a \in Anc[b] \/ b \in Anc[a]
  BY <1>4 DEF S
<1>6. ASSUME a <= b PROVE a \in Anc[b]
  <2>1. b \in Anc[a] => b = a
    BY <1>1, <1>6, AncIn, HashFacts
  <2> QED
    BY <1>1, <1>5, <2>1, AncIn
<1> QED
  BY <1>5, <1>6

\* Each block but the highest has a child on the way up.
LEMMA AncChild ==
    ASSUME NEW h \in Hash, NEW a \in Anc[h], a # h
    PROVE  \E c \in Anc[h] : c # 1 /\ Parent[c] = a /\ a \in Anc[c] /\ c # a
<1> SUFFICES ASSUME \A c \in Anc[h] \ {1} : Parent[c] # a PROVE FALSE
  <2>1. ASSUME NEW c \in Anc[h] \ {1}, Parent[c] = a PROVE a \in Anc[c] /\ c # a
    <3>1. c \in Hash \ {1}
      BY AncIn
    <3> QED
      BY <2>1, <3>1, HashFacts, AncIn
  <2> QED
    BY <2>1
<1>1. Anc[h] \subseteq Anc[h] \ {a}
  <2>1. h \in Anc[h] \ {a}
    BY AncIn
  <2>2. \A x \in Anc[h] \ {1} : Parent[x] \in Anc[h] \ {a}
    BY AncIn
  <2> QED
    BY <2>1, <2>2, AncLeast
<1> QED
  BY <1>1

\* Everything stands on the genesis block.
LEMMA AncRoot ==
    ASSUME NEW h \in Hash
    PROVE  1 \in Anc[h]
<1>1. Anc[h] \in SUBSET Nat /\ Anc[h] # {}
  BY AncIn, HashFacts
<1>2. PICK m \in Anc[h] : \A y \in Anc[h] : m <= y
  BY <1>1, MinExists
<1>3. m \in Hash
  BY AncIn
<1>4. ASSUME m # 1 PROVE FALSE
  <2>1. Parent[m] \in Anc[h] /\ Parent[m] < m /\ Parent[m] \in Nat /\ m \in Nat
    BY <1>3, <1>4, AncIn, HashFacts
  <2> QED
    BY <1>2, <2>1
<1> QED
  BY <1>2, <1>4

LEMMA HeightType ==
    ASSUME NEW h \in Hash
    PROVE  /\ Height(h) \in Nat /\ IsFiniteSet(Anc[h])
           /\ \A a \in Anc[h] : Height(a) \in Nat /\ Height(a) <= Height(h)
<1>1. ASSUME NEW x \in Hash PROVE IsFiniteSet(Anc[x]) /\ Height(x) \in Nat
  <2>1. IsFiniteSet(Anc[x])
    BY AncIn, HashFacts, FS_Subset
  <2> QED
    BY <2>1, FS_CardinalityType DEF Height
<1>2. ASSUME NEW a \in Anc[h] PROVE Height(a) \in Nat /\ Height(a) <= Height(h)
  BY <1>1, AncTrans, FS_Subset DEF Height
<1> QED
  BY <1>1, <1>2

\* A page of headers ends with its lowest row; the others have their parents in it.
LEMMA PageFacts ==
    ASSUME NEW h \in Hash
    PROVE  /\ h \in Page(h) /\ Page(h) \subseteq Anc[h]
           /\ Min(Page(h)) \in Page(h)
           /\ \A a \in Page(h) : a = Min(Page(h)) \/ (a # 1 /\ Parent[a] \in Page(h))
           /\ \A a \in Page(h), b \in Anc[h] : a \in Anc[b] => b \in Page(h)
<1>1. h \in Page(h) /\ Page(h) \subseteq Anc[h]
  BY AncIn, HeightType, ChainSyncAssumption DEF Page
<1>2. Page(h) \in SUBSET Nat /\ Page(h) # {}
  BY <1>1, AncIn, HashFacts
<1>3. Min(Page(h)) \in Page(h) /\ \A y \in Page(h) : Min(Page(h)) <= y
  BY <1>2, MinExists
<1>4. ASSUME NEW a \in Page(h), NEW b \in Anc[h], a \in Anc[b] PROVE b \in Page(h)
  <2>1. b \in Hash
    BY AncIn
  <2>2. /\ Height(a) \in Nat /\ Height(b) \in Nat /\ Height(h) \in Nat
        /\ Height(a) <= Height(b) /\ Height(h) - Height(a) < BackStep
    BY <1>4, <2>1, HeightType DEF Page
  <2> QED
    BY <2>2, ChainSyncAssumption DEF Page
<1>5. ASSUME NEW a \in Page(h), a # Min(Page(h)) PROVE a # 1 /\ Parent[a] \in Page(h)
  <2> DEFINE m == Min(Page(h))
  <2> HIDE DEF m
  <2>1. m \in Page(h) /\ m <= a /\ a # m /\ m \in Anc[h] /\ a \in Anc[h] /\ a \in Hash /\ m \in Hash
    BY <1>1, <1>3, <1>5, AncIn DEF m
  <2>2. m \in Anc[a]
    BY <2>1, AncLinear
  <2>3. a # 1
    BY <2>1, <2>2, AncUnfold
  <2>4. Parent[a] \in Anc[h] /\ m \in Anc[Parent[a]]
    BY <2>1, <2>2, <2>3, AncUnfold, AncIn
  <2> QED
    BY <1>4, <2>1, <2>3, <2>4
<1> QED
  BY <1>1, <1>3, <1>4, <1>5

-----------------------------------------------------------------------------
(* Types.                                                                  *)

\* The pcs at which forwardBlock has its new blocks.
LinkPcs == {"extend", "reorg", "coins", "deltx", "delout", "mark", "save"}

\* The best block when they were read.
Top == IF link = {} THEN base ELSE Max(link)

LinkInv ==
    /\ pc \in LinkPcs \cup {"flag"} => base \in stored
    /\ pc \in LinkPcs => Top \in Hash /\ base \in Anc[Top] /\ link = Anc[Top] \ Anc[base]
    /\ pc \in LinkPcs \ {"extend"} => link # {}
    /\ orphans \subseteq stored

\* A slice is never empty, and the ones before it are stored.
SliceInv ==
    /\ pc # "extend" => done = 0
    /\ pc = "extend" =>
          /\ \E m \in link \cup {base} : done - 1 <= Rank(m) /\ Rank(m) < done + TipStep
          /\ \A x \in link : Rank(x) < done => x \in stored

HeldInv == held.hash = 0 => held = NoRow

TypeInv == TypeOK /\ LinkInv /\ SliceInv /\ HeldInv

-----------------------------------------------------------------------------
(* Ranks and slices.                                                       *)

LEMMA RankFacts ==
    ASSUME TypeOK, LinkInv, pc \in LinkPcs
    PROVE  /\ link \subseteq Hash /\ base \in Hash /\ IsFiniteSet(link)
           /\ Cardinality(link) \in Nat
           /\ \A x \in link : base < x /\ base \in Anc[x]
           /\ Rank(base) = 0
           /\ \A x \in link : Rank(x) \in Nat \ {0}
           /\ \A x \in link \cup {base} : Rank(x) \in Nat
<1>1. /\ link = Anc[Top] \ Anc[base] /\ Top \in Hash /\ base \in Hash /\ base \in Anc[Top]
      /\ link \subseteq Hash
  BY DEF LinkInv, TypeOK
<1>2. ASSUME NEW x \in link PROVE base < x /\ base \in Anc[x]
  <2>1. x \in Hash /\ base \in Anc[x]
    BY <1>1, AncIn, AncLinear
  <2>2. x # base
    BY <1>1, AncIn
  <2> QED
    BY <1>1, <2>1, <2>2, AncTrans, HashFacts
<1>3. IsFiniteSet(link) /\ Cardinality(link) \in Nat
  BY <1>1, HashFacts, FS_Subset, FS_CardinalityType
<1>4. ASSUME NEW h PROVE /\ IsFiniteSet({a \in link : a < h})
                         /\ Cardinality({a \in link : a < h}) \in Nat
  BY <1>3, FS_Subset, FS_CardinalityType
<1>5. {a \in link : a < base} = {}
  BY <1>1, <1>2, HashOrder
<1>6. Rank(base) = 0
  BY <1>5, FS_EmptySet DEF Rank
<1>7. ASSUME NEW x \in link PROVE Rank(x) \in Nat \ {0}
  <2>1. x # base
    BY <1>1, AncIn
  <2> QED
    BY <1>4, <2>1 DEF Rank
<1> QED
  BY <1>1, <1>2, <1>3, <1>6, <1>7

LEMMA RankOrder ==
    ASSUME TypeOK, LinkInv, pc \in LinkPcs,
           NEW x \in link \cup {base}, NEW y \in link \cup {base}, x < y
    PROVE  Rank(x) < Rank(y)
<1>1. y \in link /\ x \in Hash /\ y \in Hash
  <2>1. x \in Hash /\ y \in Hash
    BY RankFacts
  <2> QED
    BY <2>1, RankFacts, HashOrder
<1>2. CASE x = base
  BY <1>1, <1>2, RankFacts
<1>3. CASE x # base
  <2> DEFINE X == {a \in link : a < x}
             Y == {a \in link : a < y}
  <2>1. x \in link /\ y # base
    BY <1>1, <1>3, RankFacts
  <2>2. X \cup {x} \subseteq Y /\ x \notin X
    BY <1>1, <2>1, RankFacts, HashFacts
  <2>3. IsFiniteSet(X) /\ IsFiniteSet(Y)
    BY RankFacts, FS_Subset
  <2>4. Cardinality(X \cup {x}) = Cardinality(X) + 1 /\ IsFiniteSet(X \cup {x})
    BY <2>2, <2>3, FS_AddElement
  <2>5. Cardinality(X \cup {x}) <= Cardinality(Y)
    BY <2>2, <2>3, FS_Subset
  <2>6. Cardinality(X) \in Nat /\ Cardinality(Y) \in Nat
    BY <2>3, FS_CardinalityType
  <2>7. Rank(x) = Cardinality(X) + 1 /\ Rank(y) = Cardinality(Y) + 1
    BY <1>3, <2>1 DEF Rank
  <2> HIDE DEF X, Y
  <2> QED
    BY <2>4, <2>5, <2>6, <2>7
<1> QED
  BY <1>2, <1>3

\* The next one has the next rank.
LEMMA RankNext ==
    ASSUME TypeOK, LinkInv, pc \in LinkPcs,
           NEW x \in link \cup {base}, NEW y \in link, x < y,
           \A z \in link : x < z => y <= z
    PROVE  Rank(y) = Rank(x) + 1
<1> DEFINE X == {a \in link : a < x}
           Y == {a \in link : a < y}
<1>1. x \in Hash /\ y \in Hash /\ link \subseteq Hash /\ y # base
  BY RankFacts, HashFacts
<1>2. IsFiniteSet(X) /\ IsFiniteSet(Y) /\ Cardinality(X) \in Nat
  BY RankFacts, FS_Subset, FS_CardinalityType
<1>3. Rank(y) = Cardinality(Y) + 1
  BY <1>1 DEF Rank
<1>4. CASE x = base
  <2>1. Y = {}
    BY <1>1, <1>4, RankFacts, HashFacts
  <2> QED
    BY <1>3, <1>4, <2>1, FS_EmptySet, RankFacts
<1>5. CASE x # base
  <2>1. Y = X \cup {x} /\ x \notin X
    <3>1. ASSUME NEW a \in link PROVE a < y <=> a < x \/ a = x
      <4>1. a \in Hash /\ x \in link
        BY <1>1, <1>5
      <4>2. a < y => ~ (x < a)
        BY <1>1, <4>1, HashOrder
      <4> QED
        BY <1>1, <4>1, <4>2, HashOrder
    <3> QED
      BY <1>1, <1>5, <3>1, HashOrder
  <2>2. Cardinality(Y) = Cardinality(X) + 1
    BY <1>2, <2>1, FS_AddElement
  <2>3. Rank(x) = Cardinality(X) + 1
    BY <1>5 DEF Rank
  <2> QED
    BY <1>2, <1>3, <2>2, <2>3
<1> QED
  BY <1>4, <1>5

\* The last one has the highest.
LEMMA RankLast ==
    ASSUME TypeOK, LinkInv, pc \in LinkPcs,
           NEW x \in link \cup {base}, \A z \in link : z <= x
    PROVE  Rank(x) >= Cardinality(link)
<1> DEFINE X == {a \in link : a < x}
<1>1. x \in Hash /\ link \subseteq Hash
  BY RankFacts
<1>2. CASE x = base
  <2>1. link = {}
    BY <1>1, <1>2, RankFacts, HashFacts
  <2> QED
    BY <1>2, <2>1, RankFacts, FS_EmptySet
<1>3. CASE x # base
  <2>1. link = X \cup {x} /\ x \notin X
    BY <1>1, <1>3, HashOrder
  <2>2. IsFiniteSet(X) /\ Cardinality(X) \in Nat
    BY RankFacts, FS_Subset, FS_CardinalityType
  <2>3. Cardinality(X \cup {x}) = Cardinality(X) + 1
    BY <2>1, <2>2, FS_AddElement
  <2>4. Rank(x) = Cardinality(X) + 1
    BY <1>3 DEF Rank
  <2> QED
    BY <2>1, <2>2, <2>3, <2>4
<1> QED
  BY <1>2, <1>3

\* One slice ends where the next begins.
LEMMA SliceFacts ==
    ASSUME TypeOK, LinkInv, SliceInv, pc = "extend"
    PROVE  /\ Slice \subseteq link \cup {base} /\ Max(Slice) \in Slice
           /\ \A y \in Slice : y <= Max(Slice)
           /\ Rank(Max(Slice)) < done + TipStep
           /\ done + TipStep <= Cardinality(link) => Rank(Max(Slice)) >= done + TipStep - 1
<1>1. pc \in LinkPcs
  BY DEF LinkPcs
<1>2. /\ link \cup {base} \subseteq Hash /\ done \in Nat /\ TipStep \in Nat \ {0}
      /\ Cardinality(link) \in Nat /\ \A x \in link \cup {base} : Rank(x) \in Nat
  BY <1>1, RankFacts, ChainSyncAssumption DEF TypeOK
<1>3. Slice \subseteq link \cup {base} /\ Slice # {}
  BY DEF Slice, SliceInv
<1>4. Max(Slice) \in Slice /\ \A y \in Slice : y <= Max(Slice)
  BY <1>2, <1>3, MaxExists
<1>5. PICK m \in Slice : m = Max(Slice)
  BY <1>4
<1>6. done - 1 <= Rank(m) /\ Rank(m) < done + TipStep /\ m \in link \cup {base} /\ m \in Hash
  BY <1>2, <1>3 DEF Slice
<1>7. ASSUME done + TipStep <= Cardinality(link) PROVE Rank(m) >= done + TipStep - 1
  <2> DEFINE H == {z \in link : m < z}
  <2>1. CASE H = {}
    <3>1. \A z \in link : z <= m
      BY <1>2, <1>6, <2>1, HashFacts
    <3> QED
      BY <1>1, <1>2, <1>6, <1>7, <3>1, RankLast
  <2>2. CASE H # {}
    <3>1. H \in SUBSET Nat
      BY <1>2, HashFacts
    <3>2. PICK y \in H : \A z \in H : y <= z
      BY <2>2, <3>1, MinExists
    <3>3. y \in link /\ m < y /\ y \notin Slice
      BY <1>2, <1>4, <1>5, <1>6, HashFacts
    <3>4. Rank(y) = Rank(m) + 1
      BY <1>1, <1>6, <3>2, RankNext
    <3>5. Rank(y) >= done + TipStep
      BY <1>2, <1>6, <3>3, <3>4 DEF Slice
    <3> QED
      BY <1>2, <1>6, <3>4, <3>5
  <2> QED
    BY <2>1, <2>2
<1> QED
  BY <1>3, <1>4, <1>5, <1>6, <1>7

-----------------------------------------------------------------------------
(* The invariant TypeInv.                                                  *)

LEMMA TypeInit == Init => TypeInv
<1> SUFFICES ASSUME Init PROVE TypeInv
  OBVIOUS
<1>1. TypeOK
  <2>1. held \in [hash : Hash \cup {0}, tip : BOOLEAN, tail : BOOLEAN, reorg : BOOLEAN]
        /\ held.hash = 0
    BY DEF Init, NoRow
  <2>2. faults \in [{"init", "later", "script", "stale"} -> Nat]
    BY DEF Init
  <2>3. best \in Hash /\ forks \subseteq Hash /\ cursor \in 0..NBlocks /\ done \in Nat
    BY HashFacts, ChainSyncAssumption DEF Init
  <2> QED
    BY <2>1, <2>2, <2>3 DEF Init, TypeOK
<1> QED
  BY <1>1 DEF Init, TypeInv, LinkInv, SliceInv, HeldInv, LinkPcs

\* A round that ends keeps nothing.
LEMMA RoundEnds ==
    ASSUME NextRound
    PROVE  /\ LinkInv' /\ SliceInv' /\ pc' = "load" /\ cursor' \in 0..NBlocks /\ base' = 0
           /\ done' = 0 /\ link' = {} /\ orphans' = {} /\ coins' = {}
BY HashFacts DEF NextRound, LinkInv, SliceInv, LinkPcs

\* What leaves the new blocks alone.
LEMMA LinkKept ==
    ASSUME TypeInv, stored \subseteq stored', UNCHANGED <<link, base, done>>,
           orphans' \in {orphans, {}} \/ orphans' \subseteq stored',
           \/ pc' = pc
           \/ pc' \notin LinkPcs \cup {"flag"} /\ pc # "extend"
           \/ pc \in LinkPcs \ {"extend"} /\ pc' \in LinkPcs \ {"extend"}
    PROVE  LinkInv' /\ SliceInv'
<1>1. Top' = Top /\ \A x : Rank(x)' = Rank(x)
  BY DEF Top, Rank
<1>2. LinkInv'
  BY <1>1 DEF TypeInv, LinkInv, LinkPcs
<1>3. SliceInv'
  BY <1>1 DEF TypeInv, SliceInv, LinkPcs
<1> QED
  BY <1>2, <1>3

\* The first walk.
LEMMA TypeWalk ==
    ASSUME TypeInv, UNCHANGED held,
           Load \/ SaveFirstTip \/ Backfill \/ BackfillDone
    PROVE  TypeInv'
<1> USE DEF TypeInv, node, block, txs, locals
<1>0. HeldInv'
  BY DEF HeldInv
<1>1. CASE Load
  <2>1. LinkInv' /\ SliceInv'
    BY <1>1, LinkKept DEF Load, LinkPcs
  <2>2. cursor' \in 0..NBlocks /\ pc' \in {"init", "back", "best"}
    <3>1. \A t \in Hash : Parent[t] \in 0..NBlocks
      BY ChainSyncAssumption
    <3>2. TailRows \subseteq Hash
      BY DEF TailRows, TypeOK
    <3> QED
      BY <1>1, <3>1, <3>2 DEF Load, TypeOK
  <2> QED
    BY <1>0, <1>1, <2>1, <2>2 DEF Load, TypeOK
<1>2. CASE SaveFirstTip
  <2>1. LinkInv' /\ SliceInv'
    BY <1>2, LinkKept DEF SaveFirstTip, LinkPcs
  <2>2. cursor' \in 0..NBlocks
    BY <1>2, ChainSyncAssumption DEF SaveFirstTip, TypeOK
  <2> QED
    BY <1>0, <1>2, <2>1, <2>2 DEF SaveFirstTip, TypeOK
<1>3. CASE Backfill
  <2>1. LinkInv' /\ SliceInv'
    BY <1>3, LinkKept DEF Backfill, LinkPcs
  <2>2. cursor \in Hash
    BY <1>3, HashFacts DEF Backfill, TypeOK, Hash
  <2>3. Page(cursor) \subseteq Hash /\ Min(Page(cursor)) \in Page(cursor)
    BY <2>2, PageFacts, AncIn
  <2>4. Parent[Min(Page(cursor))] \in 0..NBlocks
    BY <2>3, ChainSyncAssumption
  <2> QED
    BY <1>0, <1>3, <2>1, <2>3, <2>4 DEF Backfill, TypeOK
<1>4. CASE BackfillDone
  <2>1. LinkInv' /\ SliceInv'
    BY <1>4, LinkKept DEF BackfillDone, LinkPcs
  <2> QED
    BY <1>0, <1>4, <2>1 DEF BackfillDone, TypeOK
<1> QED
  BY <1>1, <1>2, <1>3, <1>4

LEMMA LinkedFacts ==
    ASSUME TypeInv, Linked
    PROVE  /\ base' \in Anc[best] \cap stored
           /\ \A x \in Anc[best] \cap stored : x <= base' /\ x \in Anc[base']
           /\ link' = Anc[best] \ Anc[base']
           /\ pc' = IF base' \in tips THEN "extend" ELSE IF base' = best THEN "flag" ELSE "reorg"
           /\ best \in Hash /\ Top' = best
           /\ pc' = "reorg" => link' # {}
<1> DEFINE S == Anc[best] \cap stored
<1>1. best \in Hash /\ S \in SUBSET Hash /\ S # {}
  BY AncIn DEF Linked, TypeInv, TypeOK
<1>2. Max(S) \in S /\ \A y \in S : y <= Max(S)
  BY <1>1, MaxExists
<1>3. /\ base' = Max(S) /\ link' = Anc[best] \ Anc[Max(S)]
      /\ pc' = IF Max(S) \in tips THEN "extend" ELSE IF Max(S) = best THEN "flag" ELSE "reorg"
  BY DEF Linked
<1> HIDE DEF S
<1>4. base' \in Anc[best] /\ base' \in Hash /\ S \subseteq Anc[best] /\ S \subseteq Hash
  BY <1>1, <1>2, <1>3 DEF S
<1>5. \A x \in S : x <= base' /\ x \in Anc[base']
  BY <1>1, <1>2, <1>3, <1>4, AncLinear
<1>6. CASE best = base'
  <2>1. link' = {}
    BY <1>3, <1>6
  <2> QED
    BY <1>2, <1>3, <1>5, <1>6, <2>1, <1>1 DEF S, Top
<1>7. CASE best # base'
  <2>1. best \notin Anc[base']
    BY <1>1, <1>4, <1>7, AncIn, AncTrans, HashOrder
  <2>2. best \in link' /\ link' \subseteq Anc[best] /\ link' \subseteq Hash
    BY <1>1, <1>3, <2>1, AncIn
  <2>3. Max(link') \in link' /\ \A y \in link' : y <= Max(link')
    BY <2>2, MaxExists
  <2>4. Max(link') = best
    BY <1>1, <2>2, <2>3, AncTrans, HashOrder
  <2>5. Top' = best
    BY <2>2, <2>4 DEF Top
  <2> QED
    BY <1>1, <1>2, <1>3, <1>5, <2>2, <2>5 DEF S
<1> QED
  BY <1>6, <1>7

LEMMA LinkedRank ==
    ASSUME TypeInv, Linked
    PROVE  Rank(base)' = 0
<1>1. base' \in Hash /\ best \in Hash /\ base' \in Anc[best]
  BY LinkedFacts DEF TypeInv, TypeOK
<1>2. ASSUME NEW a \in link', a < base' PROVE FALSE
  <2>1. a \in Anc[best] /\ a \notin Anc[base'] /\ a \in Hash
    BY LinkedFacts, AncIn
  <2> QED
    BY <1>1, <1>2, <2>1, AncLinear, HashOrder
<1>3. {a \in link' : a < base'} = {}
  BY <1>2
<1> QED
  BY <1>3, FS_EmptySet DEF Rank

\* Following the best block.
LEMMA TypeFollow ==
    ASSUME TypeInv, UNCHANGED held,
           Linked \/ NoAncestor \/ Extend \/ NothingNew \/ CorrectFlag
    PROVE  TypeInv'
<1> USE DEF TypeInv, node, block, txs, locals
<1>0. HeldInv'
  BY DEF HeldInv
<1>1. CASE Linked
  <2>1. LinkInv'
    BY <1>1, LinkedFacts DEF LinkInv, LinkPcs, Linked
  <2>2. SliceInv'
    <3>1. done' = 0
      BY <1>1 DEF Linked, SliceInv
    <3>2. ASSUME NEW x PROVE Cardinality({a \in link' : a < x}) \in Nat
      <4>1. {a \in link' : a < x} \subseteq Hash
        BY <1>1, LinkedFacts, AncIn
      <4> QED
        BY <4>1, HashFacts, FS_Subset, FS_CardinalityType
    <3>3. \A x : Rank(x)' \in Nat
      BY <3>2 DEF Rank
    <3>4. Rank(base)' = 0
      BY <1>1, LinkedRank
    <3> QED
      BY <3>1, <3>3, <3>4, ChainSyncAssumption DEF SliceInv
  <2>3. link' \subseteq Hash /\ base' \in stored /\ pc' \in {"extend", "flag", "reorg"}
    BY <1>1, LinkedFacts, AncIn
  <2> QED
    BY <1>0, <1>1, <2>1, <2>2, <2>3 DEF Linked, TypeOK
<1>2. CASE NoAncestor
  BY <1>0, <1>2, RoundEnds DEF NoAncestor, TypeOK
<1>3. CASE Extend
  <2>1. /\ Slice \subseteq link \cup {base} /\ Max(Slice) \in Slice
        /\ Rank(Max(Slice)) < done + TipStep
        /\ done + TipStep <= Cardinality(link) => Rank(Max(Slice)) >= done + TipStep - 1
    BY <1>3, SliceFacts DEF Extend
  <2>2. Slice \subseteq Hash /\ base \in stored
    BY <1>3, <2>1 DEF Extend, LinkInv, LinkPcs, TypeOK
  <2>3. CASE NextRound
    BY <1>0, <1>3, <2>1, <2>2, <2>3, RoundEnds DEF Extend, TypeOK
  <2>4. CASE /\ ~ (done + TipStep > Cardinality(link)) /\ done' = done + TipStep
             /\ UNCHANGED <<pc, cursor, link, base, orphans, coins>>
    <3>1. Top' = Top /\ \A x : Rank(x)' = Rank(x)
      BY <2>4 DEF Top, Rank
    <3>2. LinkInv'
      BY <1>3, <2>4, <3>1 DEF LinkInv, Extend
    <3>3. /\ done \in Nat /\ TipStep \in Nat \ {0} /\ Cardinality(link) \in Nat
          /\ \A x \in link \cup {base} : Rank(x) \in Nat
      BY <1>3, RankFacts, ChainSyncAssumption DEF Extend, LinkPcs, TypeOK
    <3>4. \E m \in link \cup {base} : done' - 1 <= Rank(m) /\ Rank(m) < done' + TipStep
      <4>1. PICK m \in link \cup {base} : m = Max(Slice)
        BY <2>1
      <4>2. Rank(m) < done + TipStep /\ Rank(m) >= done + TipStep - 1 /\ Rank(m) \in Nat
        BY <2>1, <2>4, <3>3, <4>1
      <4> QED
        BY <2>4, <3>3, <4>2
    <3>5. ASSUME NEW x \in link, Rank(x) < done' PROVE x \in stored'
      <4>1. CASE Rank(x) < done
        BY <1>3, <4>1 DEF SliceInv, Extend
      <4>2. CASE ~ (Rank(x) < done)
        <5>1. x \in Slice
          BY <2>4, <3>3, <3>5, <4>2 DEF Slice
        <5> QED
          BY <1>3, <5>1 DEF Extend
      <4> QED
        BY <4>1, <4>2
    <3>6. SliceInv'
      BY <1>3, <2>4, <3>1, <3>4, <3>5 DEF SliceInv, Extend
    <3>7. done' \in Nat
      BY <2>4, <3>3
    <3> QED
      BY <1>0, <1>3, <2>1, <2>2, <2>4, <3>2, <3>6, <3>7 DEF Extend, TypeOK
  <2> QED
    BY <1>3, <2>3, <2>4 DEF Extend
<1>4. CASE NothingNew
  BY <1>0, <1>4, RoundEnds DEF NothingNew, TypeOK
<1>5. CASE CorrectFlag
  BY <1>0, <1>5, RoundEnds DEF CorrectFlag, TypeOK, LinkInv
<1> QED
  BY <1>1, <1>2, <1>3, <1>4, <1>5

\* A reorganisation.
LEMMA TypeReorg ==
    ASSUME TypeInv, UNCHANGED held,
           \/ ReorgList \/ FindCoinbase \/ DeleteCoinTx \/ DeleteCoinOut \/ MarkDeleted
           \/ SaveReorg
    PROVE  TypeInv'
<1> USE DEF TypeInv, node, block, txs, locals
<1>0. HeldInv'
  BY DEF HeldInv
<1>1. CASE ReorgList
  <2>1. orphans' \subseteq stored
    BY <1>1 DEF ReorgList
  <2>2. LinkInv' /\ SliceInv' /\ orphans' \subseteq Hash
    BY <1>1, <2>1, LinkKept DEF ReorgList, LinkPcs, TypeOK
  <2> QED
    BY <1>0, <1>1, <2>1, <2>2 DEF ReorgList, TypeOK
<1>2. CASE FindCoinbase
  <2>1. LinkInv' /\ SliceInv'
    BY <1>2, LinkKept DEF FindCoinbase, LinkPcs
  <2> QED
    BY <1>0, <1>2, <2>1 DEF FindCoinbase, TypeOK
<1>3. CASE DeleteCoinTx
  <2>1. LinkInv' /\ SliceInv'
    BY <1>3, LinkKept DEF DeleteCoinTx, LinkPcs
  <2> QED
    BY <1>0, <1>3, <2>1 DEF DeleteCoinTx, TypeOK
<1>4. CASE DeleteCoinOut
  <2>1. LinkInv' /\ SliceInv'
    BY <1>4, LinkKept DEF DeleteCoinOut, LinkPcs
  <2> QED
    BY <1>0, <1>4, <2>1 DEF DeleteCoinOut, TypeOK
<1>5. CASE MarkDeleted
  <2>1. LinkInv' /\ SliceInv'
    BY <1>5, LinkKept DEF MarkDeleted, LinkPcs
  <2> QED
    BY <1>0, <1>5, <2>1 DEF MarkDeleted, TypeOK
<1>6. CASE SaveReorg
  <2>1. link \subseteq Hash /\ link # {} /\ base \in stored /\ orphans \subseteq stored
    BY <1>6 DEF SaveReorg, LinkInv, LinkPcs, TypeOK
  <2>2. Max(link) \in link
    BY <2>1, MaxExists
  <2> QED
    BY <1>0, <1>6, <2>1, <2>2, RoundEnds DEF SaveReorg, TypeOK
<1> QED
  BY <1>1, <1>2, <1>3, <1>4, <1>5, <1>6

\* Failures, the node and the rest of the system.
LEMMA TypeOthers ==
    ASSUME TypeInv,
           \/ (Fail \/ Script \/ \E h \in Hash : NodeMoves(h) \/ Index(h)) /\ UNCHANGED held
           \/ SaveHeld \/ \E h \in Hash : Hold(h)
    PROVE  TypeInv'
<1> USE DEF TypeInv, node, block, txs, locals
<1>1. CASE Fail /\ UNCHANGED held
  <2>1. faults' \in [{"init", "later", "script", "stale"} -> Nat]
    BY <1>1 DEF Fail, TypeOK
  <2> QED
    BY <1>1, <2>1, RoundEnds DEF Fail, TypeOK, HeldInv
<1>2. CASE Script /\ UNCHANGED held
  <2>1. LinkInv' /\ SliceInv'
    BY <1>2, LinkKept DEF Script
  <2>2. stored' \subseteq Hash /\ stored \subseteq stored'
    BY <1>2, AncIn DEF Script, TypeOK
  <2>3. faults' \in [{"init", "later", "script", "stale"} -> Nat]
    BY <1>2 DEF Script, TypeOK
  <2> QED
    BY <1>2, <2>1, <2>2, <2>3 DEF Script, TypeOK, HeldInv
<1>3. ASSUME NEW h \in Hash, NodeMoves(h), UNCHANGED held PROVE TypeInv'
  <2>1. LinkInv' /\ SliceInv'
    BY <1>3, LinkKept DEF NodeMoves
  <2>2. forks' \subseteq Hash
    <3>1. CASE best \in Anc[h]
      BY <1>3, <3>1 DEF NodeMoves, TypeOK
    <3>2. CASE best \notin Anc[h]
      <4> DEFINE S == Anc[best] \cap Anc[h]
      <4>1. 1 \in S /\ S \subseteq Hash
        BY AncRoot, AncIn DEF TypeOK
      <4>2. Max(S) \in S
        BY <4>1, MaxExists
      <4>3. ForkPoint(h) \in Hash
        BY <4>1, <4>2 DEF ForkPoint
      <4> QED
        BY <1>3, <3>2, <4>3 DEF NodeMoves, TypeOK
    <3> QED
      BY <3>1, <3>2
  <2> QED
    BY <1>3, <2>1, <2>2 DEF NodeMoves, TypeOK, HeldInv
<1>4. ASSUME NEW h \in Hash, Index(h), UNCHANGED held PROVE TypeInv'
  <2>1. LinkInv' /\ SliceInv'
    BY <1>4, LinkKept DEF Index
  <2>2. {live', coinTx', coinOut', late'} \subseteq SUBSET stored
    BY <1>4 DEF Index, TypeOK
  <2> QED
    BY <1>4, <2>1, <2>2 DEF Index, TypeOK, HeldInv
<1>5. CASE SaveHeld
  <2>1. LinkInv' /\ SliceInv'
    BY <1>5, LinkKept DEF SaveHeld
  <2>2. held.hash \in stored /\ held' = NoRow
    BY <1>5 DEF SaveHeld, HeldInv, TypeOK
  <2>3. tips' \cup tails' \cup reorged' \subseteq stored
    BY <1>5, <2>2 DEF SaveHeld, TypeOK
  <2>4. held' \in [hash : Hash \cup {0}, tip : BOOLEAN, tail : BOOLEAN, reorg : BOOLEAN]
        /\ held'.hash = 0
    BY <2>2 DEF NoRow
  <2> QED
    BY <1>5, <2>1, <2>2, <2>3, <2>4 DEF SaveHeld, TypeOK, HeldInv
<1>6. ASSUME NEW h \in Hash, Hold(h) PROVE TypeInv'
  <2>1. LinkInv' /\ SliceInv'
    BY <1>6, LinkKept DEF Hold
  <2>2. h \in stored /\ held' = Row(h)
    BY <1>6 DEF Hold
  <2>3. held' \in [hash : Hash \cup {0}, tip : BOOLEAN, tail : BOOLEAN, reorg : BOOLEAN]
        /\ held'.hash = h /\ h # 0
    BY <2>2, HashOrder DEF Row
  <2>4. faults' \in [{"init", "later", "script", "stale"} -> Nat]
    BY <1>6 DEF Hold, TypeOK
  <2> QED
    BY <1>6, <2>1, <2>2, <2>3, <2>4 DEF Hold, TypeOK, HeldInv
<1> QED
  BY <1>1, <1>2, <1>3, <1>4, <1>5, <1>6

LEMMA TypeStep == TypeInv /\ [Next]_vars => TypeInv'
<1> SUFFICES ASSUME TypeInv, [Next]_vars PROVE TypeInv'
  OBVIOUS
<1>1. CASE UNCHANGED vars
  <2>1. LinkInv' /\ SliceInv'
    BY <1>1, LinkKept DEF vars
  <2> QED
    BY <1>1, <2>1 DEF vars, TypeInv, TypeOK, HeldInv
<1>2. CASE Next
  BY <1>2, TypeWalk, TypeFollow, TypeReorg, TypeOthers DEF Next, FStep
<1> QED
  BY <1>1, <1>2

\* Every variable of ChainSync stays in its type, for every tree: flags are on rows,
\* and forwardBlock never takes the last row of an empty list.
THEOREM TypeCorrect == Spec => []TypeOK
<1>1. TypeInv => TypeOK
  BY DEF TypeInv
<1> QED
  BY <1>1, TypeInit, TypeStep, PTL DEF Spec

-----------------------------------------------------------------------------
(* The walk to genesis can be resumed.                                     *)

Calm == faults.init = 0 /\ faults.script = 0 /\ faults.stale = 0

Gaps == {h \in stored : Parent[h] \notin stored \cup {0}}

\* There is one is_tail row at most, and F asks for its parent.  Before the first
\* page it asks for the parent of the only row.
GapInv ==
    /\ faults.stale = 0 => held = NoRow
    /\ Calm =>
        /\ tips = {} => stored = {}
        /\ pc = "init" => tips = {} /\ tails = {}
        /\ \A x, y \in tails : x = y
        /\ TailRows # {} => Gaps \subseteq tails
        /\ pc = "back" =>
              /\ tips # {}
              /\ cursor # 0 /\ tails # {} => \A t \in tails : Parent[t] = cursor
              /\ cursor # 0 /\ tails = {} => \E t \in stored : stored = {t} /\ Parent[t] = cursor

LEMMA GapFrame ==
    ASSUME GapInv, UNCHANGED <<stored, tips, tails>>, Calm' => Calm,
           faults'.stale = 0 => held' = NoRow,
           pc' \notin {"init", "back"} \/ UNCHANGED <<pc, cursor>>
    PROVE  GapInv'
<1>1. Gaps' = Gaps /\ TailRows' = TailRows
  BY DEF Gaps, TailRows
<1> QED
  BY <1>1 DEF GapInv

\* Each new block stands on another new block, or on base.
LEMMA LinkParent ==
    ASSUME TypeInv, pc \in LinkPcs, NEW x \in link
    PROVE  x # 1 /\ x # base /\ Parent[x] \in link \cup {base} /\ Parent[x] < x /\ x \in Hash
<1>1. /\ base \in Hash /\ Top \in Hash /\ base \in Anc[Top] /\ link = Anc[Top] \ Anc[base]
      /\ x \in Hash /\ base \in Anc[x] /\ x # base
  BY RankFacts, HashOrder DEF TypeInv, LinkInv
<1>2. x # 1
  BY <1>1, AncRoot
<1>3. Parent[x] \in Anc[Top] /\ base \in Anc[Parent[x]] /\ Parent[x] \in Hash /\ Parent[x] < x
  BY <1>1, <1>2, AncIn, AncUnfold, HashFacts
<1>4. Parent[x] \in Anc[base] => Parent[x] = base
  BY <1>1, <1>3, AncTrans, HashOrder
<1> QED
  BY <1>1, <1>2, <1>3, <1>4

\* The branch that a reorganisation gives up.
ReorgPcs == {"coins", "deltx", "delout", "mark", "save"}

OrphInv ==
    pc \in ReorgPcs =>
        \E leaf \in stored : base \in Anc[leaf] /\ orphans = Anc[leaf] \ Anc[base]

LEMMA OrphInit == Init => OrphInv
BY DEF Init, OrphInv, ReorgPcs

LEMMA OrphStep ==
    ASSUME TypeInv, OrphInv, [Next]_vars
    PROVE  OrphInv'
<1> USE DEF node, block, txs, locals
<1>1. stored \subseteq stored'
  BY DEF Next, vars, FStep, Load, SaveFirstTip, Backfill, BackfillDone, Linked, NoAncestor, Extend,
     NothingNew, CorrectFlag, ReorgList, FindCoinbase, DeleteCoinTx, DeleteCoinOut, MarkDeleted,
     SaveReorg, Fail, Script, NodeMoves, Index, Hold, SaveHeld
<1>2. CASE ReorgList
  BY <1>2 DEF ReorgList, Childless, OrphInv
<1>3. CASE ~ ReorgList
  <2>1. pc' \in ReorgPcs => pc \in ReorgPcs /\ UNCHANGED <<base, orphans>>
    BY <1>3 DEF Next, vars, FStep, Load, SaveFirstTip, Backfill, BackfillDone, Linked, NoAncestor,
       Extend, NothingNew, CorrectFlag, FindCoinbase, DeleteCoinTx, DeleteCoinOut, MarkDeleted,
       SaveReorg, Fail, Script, NodeMoves, Index, Hold, SaveHeld, NextRound, ReorgPcs
  <2> QED
    BY <1>1, <2>1 DEF OrphInv
<1> QED
  BY <1>2, <1>3

LEMMA GapStep ==
    ASSUME TypeInv, OrphInv, GapInv, [Next]_vars
    PROVE  GapInv'
<1> USE DEF node, block, txs, locals
<1>1. CASE UNCHANGED vars
  BY <1>1, GapFrame DEF vars, GapInv, Calm
<1>2. CASE Load /\ UNCHANGED held
  <2>1. CASE pc' = "best"
    BY <1>2, <2>1, GapFrame DEF Load, GapInv, Calm
  <2>2. CASE pc' = "init"
    <3>1. Gaps' = Gaps /\ TailRows' = TailRows
      BY <1>2 DEF Load, Gaps, TailRows
    <3> QED
      BY <1>2, <2>2, <3>1 DEF Load, GapInv, Calm, TailRows
  <2>3. ASSUME NEW t \in TailRows, tips # {}, pc' = "back", cursor' = Parent[t] PROVE GapInv'
    <3>1. Gaps' = Gaps /\ TailRows' = TailRows
      BY <1>2 DEF Load, Gaps, TailRows
    <3>2. t \in tails \/ cursor' = 0
      BY <2>3, HashFacts DEF TailRows
    <3>3. Calm => \A u \in tails : cursor' # 0 => Parent[u] = cursor'
      BY <2>3, <3>2 DEF GapInv
    <3>4. cursor' # 0 => tails # {}
      BY <3>2
    <3> QED
      BY <1>2, <2>3, <3>1, <3>3, <3>4 DEF Load, GapInv, Calm
  <2> QED
    BY <1>2, <2>1, <2>2, <2>3 DEF Load
<1>3. CASE SaveFirstTip /\ UNCHANGED held
  <2> SUFFICES ASSUME Calm' PROVE GapInv'
    BY <1>3 DEF SaveFirstTip, GapInv, Calm
  <2>1. Calm /\ stored = {} /\ tails = {} /\ tails' = {} /\ tips' # {} /\ pc' = "back"
    BY <1>3 DEF SaveFirstTip, GapInv, Calm
  <2>2. stored' = {best} /\ cursor' = Parent[best] /\ best \in Hash
    BY <1>3, <2>1 DEF SaveFirstTip, TypeInv, TypeOK
  <2>3. TailRows' # {} => Gaps' = {}
    BY <2>1, <2>2, HashFacts DEF TailRows, Gaps
  <2> QED
    BY <1>3, <2>1, <2>2, <2>3 DEF SaveFirstTip, GapInv, Calm
<1>4. CASE Backfill /\ UNCHANGED held
  <2> SUFFICES ASSUME Calm' PROVE GapInv'
    BY <1>4 DEF Backfill, GapInv, Calm
  <2>1. Calm /\ pc = "back" /\ cursor # 0 /\ tips # {} /\ UNCHANGED <<tips, pc, faults>>
    BY <1>4 DEF Backfill, GapInv, Calm
  <2>2. cursor \in Hash
    BY <2>1, HashFacts DEF TypeInv, TypeOK, Hash
  <2>3. PICK m \in Page(cursor) : m = Min(Page(cursor))
    BY <2>2, PageFacts
  <2>4. /\ stored' = stored \cup Page(cursor) /\ tails' = {m} /\ cursor' = Parent[m]
        /\ cursor \in stored'
    BY <1>4, <2>2, <2>3, PageFacts DEF Backfill
  <2>5. ASSUME NEW h \in stored', h # m PROVE Parent[h] \in stored' \cup {0}
    <3>1. CASE h \in Page(cursor)
      BY <2>2, <2>3, <2>4, <2>5, <3>1, PageFacts
    <3>2. CASE h \in stored /\ tails = {}
      BY <2>1, <2>4, <3>2 DEF GapInv
    <3>3. CASE h \in stored /\ tails # {}
      <4>1. h \in tails \/ Parent[h] \in stored \cup {0}
        BY <2>1, <3>3 DEF GapInv, TailRows, Gaps
      <4> QED
        BY <2>1, <2>4, <3>3, <4>1 DEF GapInv
    <3> QED
      BY <2>4, <2>5, <3>1, <3>2, <3>3
  <2>6. Gaps' \subseteq tails'
    BY <2>4, <2>5 DEF Gaps
  <2> QED
    BY <1>4, <2>1, <2>4, <2>6 DEF Backfill, GapInv, Calm
<1>5. CASE (BackfillDone \/ Linked \/ NoAncestor \/ NothingNew) /\ UNCHANGED held
  BY <1>5, GapFrame DEF BackfillDone, Linked, NoAncestor, NothingNew, NextRound, GapInv, Calm
<1>6. CASE Extend /\ UNCHANGED held
  <2> SUFFICES ASSUME Calm' PROVE GapInv'
    BY <1>6 DEF Extend, GapInv, Calm
  <2>1. /\ Calm /\ pc = "extend" /\ pc \in LinkPcs /\ UNCHANGED <<tails, faults>>
        /\ stored' = stored \cup Slice /\ tips' # {} /\ pc' \in {"load", "extend"}
    BY <1>6 DEF Extend, NextRound, GapInv, Calm, LinkPcs
  <2>2. 1 \notin link /\ base \in stored /\ Slice \subseteq link \cup {base}
    BY <2>1, LinkParent DEF TypeInv, LinkInv, Slice
  <2>3. TailRows' = TailRows
    BY <2>1, <2>2 DEF TailRows
  <2>4. ASSUME NEW h \in Slice PROVE h \in stored \/ Parent[h] \in stored'
    <3>1. CASE h = base
      BY <2>2, <3>1
    <3>2. CASE h \in link
      <4>1. Parent[h] \in link \cup {base} /\ Parent[h] < h
        BY <2>1, <3>2, LinkParent
      <4>2. Rank(Parent[h]) < Rank(h) /\ Rank(h) < done + TipStep /\ done \in Nat
            /\ Rank(h) \in Nat /\ Rank(Parent[h]) \in Nat
        BY <2>1, <2>4, <3>2, <4>1, RankOrder, RankFacts DEF TypeInv, TypeOK, Slice
      <4>3. CASE Rank(Parent[h]) >= done - 1
        <5>1. Parent[h] \in Slice
          BY <4>1, <4>2, <4>3, ChainSyncAssumption DEF Slice
        <5> QED
          BY <2>1, <5>1
      <4>4. CASE Rank(Parent[h]) < done - 1
        BY <2>1, <2>2, <4>1, <4>2, <4>4 DEF TypeInv, SliceInv
      <4> QED
        BY <4>2, <4>3, <4>4
    <3> QED
      BY <2>2, <2>4, <3>1, <3>2
  <2>5. TailRows' # {} => Gaps' \subseteq tails'
    BY <2>1, <2>3, <2>4 DEF GapInv, Gaps
  <2> QED
    BY <1>6, <2>1, <2>5 DEF GapInv, Calm
<1>7. CASE CorrectFlag /\ UNCHANGED held
  <2>1. Gaps' = Gaps /\ TailRows' = TailRows
    BY <1>7 DEF CorrectFlag, Gaps, TailRows
  <2> QED
    BY <1>7, <2>1 DEF CorrectFlag, NextRound, GapInv, Calm
<1>8. CASE /\ ReorgList \/ FindCoinbase \/ DeleteCoinTx \/ DeleteCoinOut \/ MarkDeleted
           /\ UNCHANGED held
  BY <1>8, GapFrame DEF ReorgList, FindCoinbase, DeleteCoinTx, DeleteCoinOut, MarkDeleted,
     GapInv, Calm
<1>9. CASE SaveReorg /\ UNCHANGED held
  <2> SUFFICES ASSUME Calm' PROVE GapInv'
    BY <1>9 DEF SaveReorg, GapInv, Calm
  <2>1. /\ Calm /\ pc = "save" /\ pc \in LinkPcs /\ UNCHANGED faults
        /\ stored' = stored \cup link /\ tips' # {} /\ pc' = "load" /\ tails' = tails \ orphans
    BY <1>9 DEF SaveReorg, NextRound, GapInv, Calm, LinkPcs
  <2>2. 1 \notin link /\ base \in stored /\ \A h \in link : Parent[h] \in link \cup {base}
    BY <2>1, LinkParent DEF TypeInv, LinkInv
  <2>3. PICK leaf \in Hash : base \in Anc[leaf] /\ orphans = Anc[leaf] \ Anc[base]
    BY <2>1 DEF OrphInv, ReorgPcs, TypeInv, TypeOK
  <2>4. ASSUME NEW t \in orphans PROVE Parent[t] \in stored
    <3>1. t \in Anc[leaf] /\ t \in Hash /\ base \in Hash /\ t \notin Anc[base] /\ base \in Anc[t]
      BY <2>3, AncIn, AncLinear
    <3>2. t # base /\ t # 1
      BY <3>1, AncIn, AncRoot
    <3>3. Parent[t] \in Anc[leaf] /\ base \in Anc[Parent[t]] /\ Parent[t] \in Hash
      BY <3>1, <3>2, AncIn, AncUnfold, HashFacts
    <3>4. CASE Parent[t] \in Anc[base]
      BY <2>2, <3>1, <3>3, <3>4, AncTrans, HashOrder
    <3>5. CASE Parent[t] \notin Anc[base]
      BY <2>3, <3>3, <3>5 DEF TypeInv, LinkInv
    <3> QED
      BY <3>4, <3>5
  <2>5. TailRows' # {} => TailRows # {}
    BY <2>1, <2>2 DEF TailRows
  <2>6. TailRows' # {} => Gaps' \subseteq tails'
    BY <2>1, <2>2, <2>4, <2>5 DEF GapInv, Gaps
  <2> QED
    BY <1>9, <2>1, <2>6 DEF GapInv, Calm
<1>10. CASE Fail /\ UNCHANGED held
  <2>1. CASE pc \in {"init", "back"} /\ tails = {}
    <3>1. faults' = [faults EXCEPT !.init = @ + 1] /\ faults.init \in Nat
      BY <1>10, <2>1 DEF Fail, TypeInv, TypeOK
    <3>2. faults'.init # 0 /\ faults'.stale = faults.stale
      BY <3>1 DEF TypeInv, TypeOK
    <3> QED
      BY <1>10, <3>2 DEF GapInv, Calm
  <2>2. CASE ~ (pc \in {"init", "back"} /\ tails = {})
    <3>1. /\ faults'.init = faults.init /\ faults'.script = faults.script
          /\ faults'.stale = faults.stale
      BY <1>10, <2>2 DEF Fail, TypeInv, TypeOK
    <3>2. UNCHANGED <<stored, tips, tails>> /\ pc' = "load"
      BY <1>10 DEF Fail, NextRound
    <3> QED
      BY <1>10, <3>1, <3>2, GapFrame DEF GapInv, Calm
  <2> QED
    BY <2>1, <2>2
<1>11. CASE Script /\ UNCHANGED held
  <2>1. faults' = [faults EXCEPT !.script = @ + 1] /\ faults.script \in Nat
    BY <1>11 DEF Script, TypeInv, TypeOK
  <2>2. faults'.script # 0 /\ faults'.stale = faults.stale
    BY <2>1 DEF TypeInv, TypeOK
  <2> QED
    BY <1>11, <2>2 DEF GapInv, Calm
<1>12. ASSUME NEW h \in Hash, NodeMoves(h) \/ Index(h), UNCHANGED held PROVE GapInv'
  BY <1>12, GapFrame DEF NodeMoves, Index, GapInv, Calm
<1>13. CASE SaveHeld
  BY <1>13 DEF SaveHeld, GapInv, Calm
<1>14. ASSUME NEW h \in Hash, Hold(h) PROVE GapInv'
  <2>1. faults' = [faults EXCEPT !.stale = @ + 1] /\ faults.stale \in Nat
    BY <1>14 DEF Hold, TypeInv, TypeOK
  <2>2. faults'.stale # 0
    BY <2>1 DEF TypeInv, TypeOK
  <2> QED
    BY <2>2 DEF GapInv, Calm
<1> QED
  BY <1>1, <1>2, <1>3, <1>4, <1>5, <1>6, <1>7, <1>8, <1>9, <1>10, <1>11, <1>12, <1>13, <1>14
  DEF Next, FStep

\* The only row whose parent is missing is the is_tail row, whatever the node does and
\* whatever rounds fail after the first page.
THEOREM GapTail == Spec => []GapIsTail
<1>1. Init => GapInv
  BY DEF Init, GapInv, TailRows
<1>2. GapInv => GapIsTail
  BY DEF GapInv, GapIsTail, Calm, Gaps
<1>3. TypeInv /\ GapInv /\ OrphInv /\ [Next]_vars => TypeInv' /\ GapInv' /\ OrphInv'
  BY TypeStep, GapStep, OrphStep
<1> QED
  BY <1>1, <1>2, <1>3, TypeInit, OrphInit, PTL DEF Spec

-----------------------------------------------------------------------------
(* The transactions of orphans.                                            *)

\* What is left to do for a branch, statement after statement.  Outputs of a coinbase
\* without its transaction are in the hands of the statement that comes next.
GoneInv ==
    faults.stale = 0 =>
        /\ \A b \in reorged \ late : b \notin live /\ b \notin coinTx
        /\ pc = "deltx" => (orphans \cap coinTx) \ late \subseteq coins
        /\ pc \in {"delout", "mark", "save"} => \A b \in orphans \ late : b \notin coinTx
        /\ pc = "save" => \A b \in orphans \ late : b \notin live
        /\ faults.later = 0 =>
              /\ \A b \in reorged \ late : b \notin coinOut
              /\ coinOut \subseteq coinTx \cup (IF pc = "delout" THEN coins ELSE {})
              /\ pc \in {"deltx", "delout"} => (orphans \cap coinOut) \ late \subseteq coins
              /\ pc \in {"mark", "save"} => \A b \in orphans \ late : b \notin coinOut

\* Steps that end a round, or are none of these statements.
LEMMA GoneFrame ==
    ASSUME GoneInv, UNCHANGED <<live, coinTx, coinOut, late>>, reorged' \subseteq reorged,
           faults'.stale = 0 => faults.stale = 0,
           faults'.later = 0 => faults.later = 0 /\ pc # "delout",
           pc' \notin {"deltx", "delout", "mark", "save"}
    PROVE  GoneInv'
BY DEF GoneInv

LEMMA GoneKept ==
    ASSUME GoneInv, UNCHANGED <<reorged, live, coinTx, coinOut, late, orphans, coins, pc>>,
           faults'.stale = 0 => faults.stale = 0,
           faults'.later = 0 => faults.later = 0
    PROVE  GoneInv'
BY DEF GoneInv

LEMMA GoneStep ==
    ASSUME TypeInv, GapInv, GoneInv, [Next]_vars
    PROVE  GoneInv'
<1> USE DEF node, block, txs, locals
<1>1. CASE UNCHANGED vars
  BY <1>1, GoneKept DEF vars
<1>2. CASE Load \/ SaveFirstTip \/ Backfill \/ BackfillDone \/ Linked \/ NoAncestor \/ NothingNew
  BY <1>2, GoneFrame DEF Load, SaveFirstTip, Backfill, BackfillDone, Linked, NoAncestor, NothingNew,
     NextRound
<1>3. CASE Extend \/ CorrectFlag \/ ReorgList
  BY <1>3, GoneFrame DEF Extend, CorrectFlag, ReorgList, NextRound
<1>4. CASE FindCoinbase
  BY <1>4 DEF FindCoinbase, GoneInv
<1>5. CASE DeleteCoinTx
  BY <1>5 DEF DeleteCoinTx, GoneInv
<1>6. CASE DeleteCoinOut
  BY <1>6 DEF DeleteCoinOut, GoneInv
<1>7. CASE MarkDeleted
  BY <1>7 DEF MarkDeleted, GoneInv
<1>8. CASE SaveReorg
  BY <1>8 DEF SaveReorg, NextRound, GoneInv
<1>9. CASE Fail
  <2>1. UNCHANGED <<reorged, live, coinTx, coinOut, late>> /\ pc' = "load"
    BY <1>9 DEF Fail, NextRound
  <2>2. faults'.stale = faults.stale
    BY <1>9 DEF Fail, TypeInv, TypeOK
  <2>3. faults'.later = 0 => faults.later = 0 /\ pc # "delout"
    <3>1. CASE pc \in {"init", "back"} /\ tails = {}
      BY <1>9, <3>1 DEF Fail, TypeInv, TypeOK
    <3>2. CASE ~ (pc \in {"init", "back"} /\ tails = {})
      <4>1. faults' = [faults EXCEPT !.later = @ + 1] /\ faults.later \in Nat
        BY <1>9, <3>2 DEF Fail, TypeInv, TypeOK
      <4> QED
        BY <4>1 DEF TypeInv, TypeOK
    <3> QED
      BY <3>1, <3>2
  <2> QED
    BY <2>1, <2>2, <2>3, GoneFrame
<1>10. CASE Script
  <2>1. faults'.stale = faults.stale /\ faults'.later = faults.later
    BY <1>10 DEF Script, TypeInv, TypeOK
  <2> QED
    BY <1>10, <2>1, GoneKept DEF Script
<1>11. ASSUME NEW h \in Hash, NodeMoves(h) PROVE GoneInv'
  BY <1>11, GoneKept DEF NodeMoves
<1>12. ASSUME NEW h \in Hash, Index(h) PROVE GoneInv'
  BY <1>12 DEF Index, GoneInv
<1>13. CASE SaveHeld
  BY <1>13 DEF SaveHeld, GapInv, GoneInv
<1>14. ASSUME NEW h \in Hash, Hold(h) PROVE GoneInv'
  <2>1. faults' = [faults EXCEPT !.stale = @ + 1] /\ faults.stale \in Nat
    BY <1>14 DEF Hold, TypeInv, TypeOK
  <2>2. faults'.stale # 0
    BY <2>1 DEF TypeInv, TypeOK
  <2> QED
    BY <2>2 DEF GoneInv
<1> QED
  BY <1>1, <1>2, <1>3, <1>4, <1>5, <1>6, <1>7, <1>8, <1>9, <1>10, <1>11, <1>12, <1>13, <1>14
  DEF Next, FStep

\* Of a block that is is_reorg and was not indexed after it was orphaned, nothing is
\* left; of its coinbase outputs, if no round failed.
THEOREM OrphansGone == Spec => []OrphansDeleted
<1>1. Init => GapInv /\ GoneInv
  BY DEF Init, GapInv, GoneInv, TailRows
<1>2. TypeInv /\ OrphInv /\ GapInv /\ GoneInv /\ [Next]_vars
      => TypeInv' /\ OrphInv' /\ GapInv' /\ GoneInv'
  BY TypeStep, OrphStep, GapStep, GoneStep
<1>3. GoneInv => OrphansDeleted
  BY DEF GoneInv, OrphansDeleted, Undisturbed
<1> QED
  BY <1>1, <1>2, <1>3, TypeInit, OrphInit, PTL DEF Spec

-----------------------------------------------------------------------------
(* Where two branches part.                                                *)

Meet(b, x) == Max(Anc[b] \cap Anc[x])

LEMMA MeetFacts ==
    ASSUME NEW b \in Hash, NEW x \in Hash
    PROVE  /\ Meet(b, x) \in Hash /\ Meet(b, x) \in Anc[b] /\ Meet(b, x) \in Anc[x]
           /\ \A y \in Anc[b] \cap Anc[x] : y \in Anc[Meet(b, x)]
           /\ x \in Anc[b] => Meet(b, x) = x
<1> DEFINE S == Anc[b] \cap Anc[x]
<1>1. 1 \in S /\ S \subseteq Hash
  BY AncRoot, AncIn
<1>2. Max(S) \in S /\ \A y \in S : y <= Max(S)
  BY <1>1, MaxExists
<1>3. Meet(b, x) \in S /\ Meet(b, x) \in Hash /\ \A y \in S : y <= Meet(b, x)
  BY <1>1, <1>2 DEF Meet
<1>4. \A y \in S : y \in Anc[Meet(b, x)]
  BY <1>3, AncLinear
<1>5. ASSUME x \in Anc[b] PROVE Meet(b, x) = x
  <2>1. x \in Anc[Meet(b, x)]
    BY <1>4, <1>5, AncIn
  <2> QED
    BY <1>3, <2>1, AncTrans, HashOrder
<1> QED
  BY <1>3, <1>4, <1>5

LEMMA MeetIs ==
    ASSUME NEW b \in Hash, NEW x \in Hash, NEW m \in Anc[b] \cap Anc[x],
           \A y \in Anc[b] \cap Anc[x] : y \in Anc[m]
    PROVE  Meet(b, x) = m
<1>1. m \in Hash /\ Meet(b, x) \in Hash /\ Meet(b, x) \in Anc[m] /\ m \in Anc[Meet(b, x)]
  BY MeetFacts, AncIn
<1> QED
  BY <1>1, AncTrans, HashOrder

LEMMA AncSame ==
    ASSUME NEW a \in Hash, NEW b \in Hash, a \in Anc[b], b \in Anc[a]
    PROVE  a = b
BY AncTrans, HashOrder

-----------------------------------------------------------------------------
(* The node.                                                               *)

\* It left its chain on its way up, at places ever higher.
NodeInv == ~tangled => forks \subseteq Anc[best] /\ best \notin forks

\* On its chain, or on a branch it left.
Good(x) == x \in Anc[best] \/ Meet(best, x) \in forks

\* A block below the place where x leaves the node's chain, or below x.
Under(g, x) == g \in Anc[Meet(best, x)] /\ g # Meet(best, x)

\* What the node has left it does not come back to.
LEMMA NodeStep ==
    ASSUME TypeInv, NodeInv, NEW h \in Hash, NodeMoves(h), ~tangled'
    PROVE  /\ ~tangled /\ NodeInv' /\ forks \subseteq forks'
           /\ \A x \in Hash : Good(x) => Good(x)'
           /\ \A x \in Hash : Good(x) /\ x \notin Anc[best] =>
                 x \notin Anc[best'] /\ Meet(best', x) = Meet(best, x)
           /\ \A x \in Hash : \A g \in forks : Good(x) /\ Under(g, x) => Under(g, x)'
<1>1. best \in Hash /\ best' = h /\ Height(h) > Height(best) /\ forks \subseteq Hash
  BY DEF NodeMoves, TypeInv, TypeOK
<1>2. h \notin Anc[best]
  <2>1. /\ Height(h) \in Nat /\ Height(best) \in Nat
        /\ h \in Anc[best] => Height(h) <= Height(best)
    BY <1>1, HeightType
  <2> QED
    BY <1>1, <2>1
<1>3. CASE best \in Anc[h]
  <2>1. forks' = forks /\ tangled' = tangled
    BY <1>3 DEF NodeMoves
  <2>2. ~tangled /\ forks \subseteq Anc[best] /\ best \notin forks /\ Anc[best] \subseteq Anc[h]
    BY <1>1, <1>3, <2>1, AncTrans DEF NodeInv
  <2>3. NodeInv'
    BY <1>1, <1>2, <2>1, <2>2 DEF NodeInv
  <2>4. ASSUME NEW x \in Hash, Meet(best, x) \in forks
        PROVE  best \notin Anc[x]
    <3>1. ASSUME best \in Anc[x] PROVE FALSE
      <4>1. Meet(best, x) = best
        BY <1>1, <3>1, MeetIs, AncIn
      <4> QED
        BY <2>2, <2>4, <4>1
    <3> QED
      BY <3>1
  <2>5. ASSUME NEW x \in Hash, Good(x), x \notin Anc[best]
        PROVE  x \notin Anc[h] /\ Meet(h, x) = Meet(best, x)
    <3>1. Meet(best, x) \in forks /\ best \notin Anc[x]
      BY <2>4, <2>5 DEF Good
    <3>2. x \notin Anc[h]
      BY <1>3, <2>5, <3>1, AncLinear
    <3>3. ASSUME NEW y \in Anc[h] \cap Anc[x] PROVE y \in Anc[Meet(best, x)]
      <4>1. y \in Hash /\ best \notin Anc[y]
        BY <3>1, <3>3, AncIn, AncTrans
      <4>2. y \in Anc[best]
        BY <1>3, <4>1, AncLinear
      <4> QED
        BY <1>1, <4>2, MeetFacts
    <3>4. Meet(best, x) \in Anc[h] \cap Anc[x]
      BY <1>1, <2>2, MeetFacts
    <3> QED
      BY <3>2, <3>3, <3>4, MeetIs
  <2>6. ASSUME NEW x \in Hash, x \in Anc[best] PROVE Meet(h, x) = x /\ Meet(best, x) = x
    BY <1>1, <2>2, <2>6, MeetFacts
  <2>7. \A x \in Hash : Good(x) => Good(x)' /\ Meet(h, x) = Meet(best, x)
    BY <1>1, <2>1, <2>2, <2>5, <2>6 DEF Good
  <2> QED
    BY <1>1, <2>1, <2>2, <2>3, <2>5, <2>7 DEF Under
<1>4. CASE best \notin Anc[h]
  <2> DEFINE f == Meet(best, h)
  <2>1. f \in Hash /\ f \in Anc[best] /\ f \in Anc[h] /\ \A y \in Anc[best] \cap Anc[h] : y \in Anc[f]
    BY <1>1, MeetFacts
  <2>2. forks' = forks \cup {f} /\ (tangled' <=> tangled \/ \E g \in forks : f \in Anc[g])
    BY <1>1, <1>4 DEF NodeMoves, ForkPoint, Meet
  <2> HIDE DEF f
  <2>3. ~tangled /\ forks \subseteq Anc[best]
    BY <2>2 DEF NodeInv
  <2>4. \A g \in forks : g \in Anc[f] /\ g # f
    BY <1>1, <2>1, <2>2, <2>3, AncLinear, AncIn
  <2>5. NodeInv'
    <3>1. forks' \subseteq Anc[h] /\ h \notin forks'
      BY <1>1, <1>2, <2>1, <2>2, <2>3, <2>4, AncTrans
    <3> QED
      BY <1>1, <3>1 DEF NodeInv
  <2>6. ASSUME NEW x \in Hash, Good(x), x \notin Anc[best]
        PROVE  x \notin Anc[h] /\ Meet(h, x) = Meet(best, x) /\ Meet(best, x) \in forks
    <3> DEFINE p == Meet(best, x)
    <3>1. p \in forks /\ p \in Hash /\ p \in Anc[best] /\ p \in Anc[x]
          /\ \A y \in Anc[best] \cap Anc[x] : y \in Anc[p]
      BY <1>1, <2>6, MeetFacts DEF Good
    <3> HIDE DEF p
    <3>2. f \notin Anc[x]
      BY <2>1, <2>4, <3>1, AncSame
    <3>3. x \notin Anc[h]
      <4>1. Anc[f] \subseteq Anc[best]
        BY <1>1, <2>1, AncTrans
      <4>2. x \in Anc[h] => x \in Anc[f]
        BY <2>1, <3>2, AncLinear
      <4> QED
        BY <2>6, <4>1, <4>2
    <3>4. ASSUME NEW y \in Anc[h] \cap Anc[x] PROVE y \in Anc[p]
      <4>1. y \in Hash /\ f \notin Anc[y]
        BY <3>2, <3>4, AncIn, AncTrans
      <4>2. y \in Anc[f]
        BY <2>1, <4>1, AncLinear
      <4>3. y \in Anc[best]
        BY <1>1, <2>1, <4>2, AncTrans
      <4> QED
        BY <3>1, <4>3
    <3>5. p \in Anc[h] \cap Anc[x]
      BY <2>1, <2>4, <3>1, AncTrans
    <3> QED
      BY <3>1, <3>3, <3>4, <3>5, MeetIs DEF p
  <2>7. ASSUME NEW x \in Hash, x \in Anc[best]
        PROVE  /\ Meet(best, x) = x
               /\ \/ x \in Anc[h] /\ Meet(h, x) = x
                  \/ Meet(h, x) = f
    <3>1. CASE x \in Anc[f]
      <4>1. x \in Anc[h]
        BY <2>1, <3>1, AncTrans
      <4> QED
        BY <1>1, <2>7, <4>1, MeetFacts
    <3>2. CASE x \notin Anc[f]
      <4>1. f \in Anc[x]
        BY <1>1, <2>1, <2>7, <3>2, AncLinear
      <4>2. \A y \in Anc[h] \cap Anc[x] : y \in Anc[f]
        BY <1>1, <2>1, <2>7, AncTrans
      <4>3. Meet(h, x) = f
        BY <2>1, <4>1, <4>2, MeetIs
      <4> QED
        BY <1>1, <2>7, <4>3, MeetFacts
    <3> QED
      BY <3>1, <3>2
  <2>8. \A x \in Hash : Good(x) => Good(x)'
    BY <1>1, <2>2, <2>6, <2>7 DEF Good
  <2>9. ASSUME NEW x \in Hash, NEW g \in forks, Good(x), Under(g, x) PROVE Under(g, x)'
    <3>1. CASE x \in Anc[best]
      BY <1>1, <2>4, <2>7, <2>9, <3>1 DEF Under
    <3>2. CASE x \notin Anc[best]
      BY <1>1, <2>6, <2>9, <3>2 DEF Under
    <3> QED
      BY <3>1, <3>2
  <2> QED
    BY <1>1, <2>2, <2>3, <2>5, <2>6, <2>8, <2>9
<1> QED
  BY <1>3, <1>4

-----------------------------------------------------------------------------
(* One chain with one tip.                                                 *)

\* The rows that are not is_reorg.
Main == stored \ reorged

\* They are the top of what is below the tip m.  What is is_reorg left the node's
\* chain below the place where m did.
TipInv(m) ==
    /\ tips = {m} /\ m \in Main /\ Main \subseteq Anc[m] /\ Good(m)
    /\ \A a \in Anc[m], b \in Main : b \in Anc[a] => a \in Main
    /\ \A r \in reorged : Under(Meet(best, r), m)

\* New blocks are added above m, slice by slice.
ExtendInv(m) ==
    /\ base \in Main /\ m \in link \cup {base}
    /\ done - 1 <= Rank(m) /\ Rank(m) < done + TipStep

\* m is no longer on the node's chain; the new branch starts where m left it.
ReorgInv(m) ==
    /\ base \in Main /\ m # base /\ m \notin Anc[best] /\ Meet(best, m) = base
    /\ Anc[m] \cap Anc[Top] \subseteq Anc[base] /\ Under(base, Top)
    /\ pc \in ReorgPcs => orphans = Anc[m] \ Anc[base]

WalkInv ==
    /\ tips = {} => stored = {}
    /\ pc = "init" => tips = {}
    /\ tails \cap reorged = {}
    /\ pc = "back" => tips # {} /\ (cursor # 0 => \E t \in Main : Parent[t] = cursor)

ChainInv ==
    Undisturbed =>
        /\ WalkInv
        /\ \A r \in reorged : r \notin Anc[best] /\ Good(r)
        /\ \A m \in tips : TipInv(m)
        /\ pc \in LinkPcs => Good(Top) /\ tips # {}
        /\ pc = "extend" => \A m \in tips : ExtendInv(m)
        /\ pc # "flag"
        /\ pc \in ReorgPcs \cup {"reorg"} => \A m \in tips : ReorgInv(m)

\* Blocks below a good one are good.
LEMMA GoodDown ==
    ASSUME TypeInv, NEW x \in Hash, Good(x), NEW y \in Anc[x]
    PROVE  Good(y) /\ y \in Hash /\ (y \notin Anc[best] => Meet(best, y) = Meet(best, x))
<1>1. best \in Hash /\ y \in Hash /\ Anc[y] \subseteq Anc[x]
  BY AncTrans DEF TypeInv, TypeOK
<1>2. CASE y \in Anc[best]
  BY <1>1, <1>2 DEF Good
<1>3. CASE y \notin Anc[best]
  <2>1. x \notin Anc[best]
    BY <1>1, <1>3, AncTrans
  <2>2. Meet(best, x) \in forks /\ Meet(best, x) \in Anc[best] /\ Meet(best, x) \in Anc[x]
        /\ Meet(best, x) \in Hash
    BY <1>1, <2>1, MeetFacts DEF Good
  <2>3. Meet(best, x) \in Anc[y]
    <3>1. y \in Anc[Meet(best, x)] => y \in Anc[best]
      BY <1>1, <2>2, AncTrans
    <3> QED
      BY <1>3, <2>2, <3>1, AncLinear
  <2>4. \A z \in Anc[best] \cap Anc[y] : z \in Anc[Meet(best, x)]
    BY <1>1, MeetFacts
  <2>5. Meet(best, y) = Meet(best, x)
    BY <1>1, <2>2, <2>3, <2>4, MeetIs
  <2> QED
    BY <1>1, <2>2, <2>5 DEF Good
<1> QED
  BY <1>2, <1>3

\* Where a lower block leaves the node's chain is below where a higher one does.
LEMMA UnderUp ==
    ASSUME TypeInv, NEW x \in Hash, NEW y \in Hash, y \in Anc[x], NEW g, Under(g, y)
    PROVE  Under(g, x)
<1>1. best \in Hash
  BY DEF TypeInv, TypeOK
<1>2. /\ Meet(best, y) \in Anc[best] /\ Meet(best, y) \in Anc[y] /\ Meet(best, y) \in Hash
      /\ Meet(best, x) \in Hash /\ \A z \in Anc[best] \cap Anc[x] : z \in Anc[Meet(best, x)]
  BY <1>1, MeetFacts
<1>3. Meet(best, y) \in Anc[Meet(best, x)]
  BY <1>2, AncTrans
<1>4. g \in Anc[Meet(best, x)] /\ g \in Hash /\ g \in Anc[Meet(best, y)]
  BY <1>2, <1>3, AncTrans, AncIn DEF Under
<1>5. g # Meet(best, x)
  BY <1>2, <1>3, <1>4, AncSame DEF Under
<1> QED
  BY <1>4, <1>5 DEF Under

\* No ancestor of the tip is is_reorg.
LEMMA TipClean ==
    ASSUME TypeInv, NEW m \in tips, TipInv(m), NEW r \in reorged, r \notin Anc[best]
    PROVE  r \notin Anc[m]
<1> SUFFICES ASSUME r \in Anc[m] PROVE FALSE
  OBVIOUS
<1>1. best \in Hash /\ m \in Hash /\ r \in Hash
  BY DEF TypeInv, TypeOK
<1>2. Meet(best, r) = Meet(best, m)
  BY <1>1, GoodDown DEF TipInv
<1> QED
  BY <1>2 DEF TipInv, Under

\* The invariant says what the two properties say.
LEMMA ChainShows == TypeInv /\ ChainInv => TipUnique /\ MainIsChain
<1> SUFFICES ASSUME TypeInv, ChainInv, Undisturbed
             PROVE  /\ Cardinality(tips) <= 1
                    /\ \A a, b \in Main : a \in Anc[b] \/ b \in Anc[a]
  BY DEF TipUnique, MainIsChain, Main
<1>1. CASE tips = {}
  <2>1. stored = {}
    BY <1>1 DEF ChainInv, WalkInv
  <2> QED
    BY <1>1, <2>1, FS_EmptySet DEF Main
<1>2. ASSUME NEW m \in tips PROVE /\ Cardinality(tips) <= 1
                                  /\ \A a, b \in Main : a \in Anc[b] \/ b \in Anc[a]
  <2>1. tips = {m} /\ Main \subseteq Anc[m] /\ m \in Hash
    BY <1>2 DEF ChainInv, TipInv, TypeInv, TypeOK
  <2>2. Cardinality(tips) = 1
    BY <2>1, FS_Singleton
  <2> QED
    BY <2>1, <2>2, AncLinear
<1> QED
  BY <1>1, <1>2
LEMMA ChainInit == Init => NodeInv /\ ChainInv
BY DEF Init, NodeInv, ChainInv, WalkInv, LinkPcs, ReorgPcs

\* Steps that leave the tables alone.
LEMMA ChainFrame ==
    ASSUME ChainInv, UNCHANGED <<best, forks, stored, tips, tails, reorged>>,
           Undisturbed' => Undisturbed,
           \/ pc' \notin LinkPcs \cup {"init", "back", "flag"}
           \/ UNCHANGED <<pc, cursor, link, base, done, orphans>>
           \/ pc \in ReorgPcs /\ pc' \in ReorgPcs /\ UNCHANGED <<link, base, orphans>>
    PROVE  ChainInv'
<1> SUFFICES ASSUME Undisturbed', ~ (pc' \notin LinkPcs \cup {"init", "back", "flag"})
             PROVE  ChainInv'
  BY DEF ChainInv, WalkInv, TipInv, Main, Good, Under, Meet, LinkPcs, ReorgPcs
<1>1. Main' = Main /\ \A m : TipInv(m)' <=> TipInv(m)
  BY DEF Main, TipInv, Good, Under, Meet
<1>2. \A x : Good(x)' <=> Good(x)
  BY DEF Good, Meet
<1>3. link' = link /\ base' = base /\ orphans' = orphans
  BY DEF LinkPcs
<1>4. Top' = Top /\ \A x : Rank(x)' = Rank(x)
  BY <1>3 DEF Top, Rank
<1>5. CASE UNCHANGED <<pc, cursor, link, base, done, orphans>>
  <2>1. \A m : ExtendInv(m)' <=> ExtendInv(m)
    BY <1>1, <1>4, <1>5 DEF ExtendInv
  <2>2. \A m : ReorgInv(m)' <=> ReorgInv(m)
    BY <1>1, <1>4, <1>5 DEF ReorgInv, Meet, Under
  <2>3. WalkInv' <=> WalkInv
    BY <1>1, <1>5 DEF WalkInv
  <2> QED
    BY <1>1, <1>2, <1>4, <1>5, <2>1, <2>2, <2>3 DEF ChainInv
<1>6. CASE pc \in ReorgPcs /\ pc' \in ReorgPcs
  <2>1. \A m : ReorgInv(m)' <=> ReorgInv(m)
    BY <1>1, <1>3, <1>4, <1>6 DEF ReorgInv, Meet, Under
  <2>2. WalkInv => WalkInv'
    BY <1>1, <1>6 DEF WalkInv, ReorgPcs
  <2> QED
    BY <1>1, <1>2, <1>4, <1>6, <2>1, <2>2 DEF ChainInv, ReorgPcs, LinkPcs
<1> QED
  BY <1>5, <1>6

\* The tip, while there is one.
LEMMA TheTip ==
    ASSUME TypeInv, ChainInv, Undisturbed, NEW m \in tips
    PROVE  /\ tips = {m} /\ m \in Hash /\ best \in Hash /\ TipInv(m)
           /\ m \in Main /\ Main \subseteq Anc[m] /\ Main \subseteq stored
BY DEF ChainInv, TipInv, Main, TypeInv, TypeOK

LEMMA ChainWalk ==
    ASSUME TypeInv, ChainInv, UNCHANGED held,
           Load \/ SaveFirstTip \/ Backfill \/ BackfillDone
    PROVE  ChainInv'
<1> USE DEF node, block, txs, locals
<1> SUFFICES ASSUME Undisturbed, Undisturbed' PROVE ChainInv'
  BY DEF Load, SaveFirstTip, Backfill, BackfillDone, Undisturbed, ChainInv
<1>1. CASE Load
  <2>1. CASE pc' = "best"
    BY <1>1, <2>1, ChainFrame DEF Load, LinkPcs
  <2>2. CASE pc' # "best"
    <3>1. Main' = Main /\ (\A m : TipInv(m)' <=> TipInv(m)) /\ \A x : Good(x)' <=> Good(x)
      BY <1>1 DEF Load, Main, TipInv, Good, Under, Meet
    <3>2. pc' = "back" => tips # {} /\ (cursor' # 0 => \E t \in Main : Parent[t] = cursor')
      BY <1>1, <2>2, HashFacts DEF Load, TailRows, ChainInv, WalkInv, Main, TypeInv, TypeOK
    <3>3. WalkInv'
      BY <1>1, <2>2, <3>1, <3>2 DEF Load, ChainInv, WalkInv
    <3> QED
      BY <1>1, <2>2, <3>1, <3>3 DEF Load, ChainInv, LinkPcs, ReorgPcs
  <2> QED
    BY <2>1, <2>2
<1>2. CASE SaveFirstTip
  <2>1. best \in Hash /\ stored = {} /\ tips = {} /\ tails = {} /\ reorged = {}
    BY <1>2 DEF SaveFirstTip, ChainInv, WalkInv, TypeInv, TypeOK
  <2>2. /\ tips' = {best} /\ Main' = {best} /\ best' = best /\ tails' = {} /\ reorged' = {}
        /\ pc' = "back" /\ cursor' = Parent[best]
    BY <1>2, <2>1 DEF SaveFirstTip, Main
  <2>3. TipInv(best)'
    <3>1. best \in Anc[best]
      BY <2>1, AncIn
    <3>2. \A a \in Anc[best] : best \in Anc[a] => a = best
      BY <2>1, AncIn, AncSame
    <3> QED
      BY <2>1, <2>2, <3>1, <3>2 DEF TipInv, Good
  <2>4. WalkInv'
    BY <2>1, <2>2 DEF WalkInv
  <2> QED
    BY <2>2, <2>3, <2>4 DEF ChainInv, LinkPcs, ReorgPcs
<1>3. CASE Backfill
  <2>1. /\ pc = "back" /\ cursor # 0 /\ tips # {} /\ pc' = pc
        /\ \E t \in Main : Parent[t] = cursor
    BY <1>3 DEF Backfill, ChainInv, WalkInv
  <2>2. PICK m \in tips, t \in Main : Parent[t] = cursor
    BY <2>1
  <2>3. /\ tips = {m} /\ m \in Hash /\ TipInv(m) /\ m \in Main /\ Main \subseteq Anc[m]
    BY TheTip
  <2>4. t \in Anc[m] /\ t \in Hash /\ t # 1 /\ cursor \in Hash /\ cursor \in Anc[m]
    BY <2>1, <2>2, <2>3, AncIn, HashFacts
  <2>5. PICK p \in Page(cursor) : p = Min(Page(cursor))
    BY <2>4, PageFacts
  <2>6. /\ stored' = stored \cup Page(cursor) /\ tails' = {p} /\ cursor' = Parent[p]
        /\ UNCHANGED <<best, forks, tips, reorged, pc>>
    BY <1>3, <2>5 DEF Backfill
  <2>7. Page(cursor) \subseteq Anc[cursor] /\ Page(cursor) \subseteq Anc[m]
    BY <2>3, <2>4, PageFacts, AncTrans
  <2>8. Page(cursor) \cap reorged = {}
    BY <2>3, <2>7, TipClean DEF ChainInv
  <2>9. Main' = Main \cup Page(cursor)
    BY <2>6, <2>8 DEF Main
  <2>10. ASSUME NEW a \in Anc[m], NEW b \in Main', b \in Anc[a] PROVE a \in Main'
    <3>1. CASE b \in Main
      BY <2>3, <2>9, <2>10, <3>1 DEF TipInv
    <3>2. CASE b \in Page(cursor) /\ t \in Anc[a]
      BY <2>3, <2>9, <2>10, <3>2 DEF TipInv
    <3>3. CASE b \in Page(cursor) /\ a \in Anc[t]
      <4>1. a = t \/ a \in Anc[cursor]
        BY <2>2, <2>4, <3>3, AncUnfold
      <4>2. a \in Anc[cursor] => a \in Page(cursor)
        BY <2>4, <2>10, <3>3, PageFacts
      <4> QED
        BY <2>9, <4>1, <4>2
    <3>4. t \in Anc[a] \/ a \in Anc[t]
      BY <2>3, <2>4, <2>10, AncLinear
    <3> QED
      BY <2>9, <2>10, <3>1, <3>2, <3>3, <3>4
  <2>11. (\A x : Good(x)' <=> Good(x)) /\ \A g, x : Under(g, x)' <=> Under(g, x)
    BY <2>6 DEF Good, Under, Meet
  <2>12. TipInv(m)'
    <3>1. /\ tips' = {m} /\ m \in Main' /\ Main' \subseteq Anc[m]
      BY <2>3, <2>6, <2>7, <2>9
    <3>2. \A r \in reorged' : Under(Meet(best, r), m)'
      BY <2>3, <2>6, <2>11 DEF TipInv, Meet, Under
    <3> QED
      BY <2>3, <2>10, <2>11, <3>1, <3>2 DEF TipInv
  <2>13. WalkInv'
    BY <2>1, <2>6, <2>8, <2>9 DEF WalkInv
  <2> QED
    BY <2>1, <2>3, <2>6, <2>11, <2>12, <2>13 DEF ChainInv, LinkPcs, ReorgPcs
<1>4. CASE BackfillDone
  BY <1>4, ChainFrame DEF BackfillDone, LinkPcs
<1> QED
  BY <1>1, <1>2, <1>3, <1>4

LEMMA ChainLinked ==
    ASSUME TypeInv, NodeInv, ChainInv, Linked, Undisturbed
    PROVE  ChainInv'
<1> USE DEF node, block, txs, locals
<1>1. /\ best \in Hash /\ base' \in Anc[best] \cap stored /\ Top' = best
      /\ \A x \in Anc[best] \cap stored : x \in Anc[base']
      /\ pc' = IF base' \in tips THEN "extend" ELSE IF base' = best THEN "flag" ELSE "reorg"
  BY LinkedFacts
<1>2. UNCHANGED <<best, forks, stored, tips, tails, reorged, done>> /\ pc = "best"
  BY DEF Linked
<1>3. /\ Main' = Main /\ (\A m : TipInv(m)' <=> TipInv(m)) /\ (\A x : Good(x)' <=> Good(x))
      /\ WalkInv'
  BY <1>1, <1>2 DEF Main, TipInv, Good, Under, Meet, ChainInv, WalkInv
<1>4. tips # {}
  BY <1>1 DEF ChainInv, WalkInv
<1>5. PICK m \in tips : TRUE
  BY <1>4
<1>6. /\ tips = {m} /\ m \in Hash /\ TipInv(m) /\ m \in Main
      /\ Main \subseteq Anc[m] /\ Main \subseteq stored
  BY TheTip
<1>7. base' \in Main /\ base' \in Anc[m] /\ base' \in Hash
  BY <1>1, <1>6, AncIn DEF ChainInv, Main
<1>8. Good(best)
  BY <1>1, AncIn DEF Good
<1>9. CASE base' = m
  <2>1. Rank(m)' = 0
    <3>1. Rank(base)' = 0
      BY LinkedRank
    <3> QED
      BY <1>9, <3>1 DEF Rank
  <2>2. ExtendInv(m)'
    <3>1. done = 0 /\ TipStep \in Nat \ {0}
      BY <1>2, ChainSyncAssumption DEF TypeInv, SliceInv
    <3> QED
      BY <1>2, <1>3, <1>6, <1>9, <2>1, <3>1 DEF ExtendInv
  <2> QED
    BY <1>1, <1>2, <1>3, <1>6, <1>8, <1>9, <2>2 DEF ChainInv, LinkPcs, ReorgPcs
<1>10. CASE base' # m
  <2>1. m \notin Anc[best]
    BY <1>1, <1>6, <1>7, <1>10, AncSame
  <2>2. \A y \in Anc[best] \cap Anc[m] : y \in Anc[base']
    <3> TAKE y \in Anc[best] \cap Anc[m]
    <3>1. base' \in Anc[y] => y \in Main
      BY <1>6, <1>7 DEF TipInv
    <3>2. y \in Main => y \in Anc[base']
      BY <1>1, <1>6
    <3> QED
      BY <1>6, <1>7, <3>1, <3>2, AncLinear
  <2>3. Meet(best, m) = base'
    BY <1>1, <1>6, <1>7, <2>2, MeetIs
  <2>4. base' # best
    <3>1. base' \in forks
      BY <1>6, <2>1, <2>3 DEF TipInv, Good
    <3> QED
      BY <3>1 DEF NodeInv, Undisturbed
  <2>5. pc' = "reorg"
    BY <1>1, <1>6, <1>10, <2>4
  <2>6. ReorgInv(m)'
    <3>1. Meet(best, best) = best
      BY <1>1, MeetFacts, AncIn
    <3>2. Under(base', best)
      BY <1>1, <2>4, <3>1 DEF Under
    <3>3. Under(base, Top)'
      BY <1>1, <1>2, <3>2 DEF Under, Meet
    <3>4. Meet(best, m)' = base' /\ m \notin Anc[best']
      BY <1>2, <2>1, <2>3 DEF Meet
    <3> QED
      BY <1>1, <1>3, <1>7, <1>10, <2>2, <2>5, <3>3, <3>4 DEF ReorgInv, ReorgPcs, Meet
  <2> QED
    BY <1>1, <1>2, <1>3, <1>6, <1>8, <2>5, <2>6 DEF ChainInv, LinkPcs, ReorgPcs
<1> QED
  BY <1>9, <1>10

\* The tip moves to the end of a slice.
LEMMA ChainExtend ==
    ASSUME TypeInv, ChainInv, Extend, Undisturbed
    PROVE  ChainInv'
<1> USE DEF node, block, txs, locals
<1>1. pc = "extend" /\ pc \in LinkPcs /\ Good(Top) /\ tips # {} /\ Top \in Hash
  BY DEF Extend, LinkPcs, ChainInv, TypeInv, LinkInv
<1>2. PICK m \in tips : ExtendInv(m)
  BY <1>1 DEF ChainInv
<1>3. /\ tips = {m} /\ m \in Hash /\ TipInv(m) /\ m \in Main
      /\ Main \subseteq Anc[m] /\ Main \subseteq stored
  BY TheTip
<1>4. /\ base \in Main /\ m \in link \cup {base} /\ done - 1 <= Rank(m) /\ Rank(m) < done + TipStep
  BY <1>2 DEF ExtendInv
<1>5. PICK n \in Slice : n = Max(Slice)
  BY <1>1, SliceFacts DEF TypeInv
<1>6. /\ Slice \subseteq link \cup {base} /\ \A y \in Slice : y <= n
      /\ Rank(n) < done + TipStep
      /\ done + TipStep <= Cardinality(link) => Rank(n) >= done + TipStep - 1
  BY <1>1, <1>5, SliceFacts DEF TypeInv
<1>7. m \in Slice
  BY <1>4 DEF Slice
<1>8. /\ stored' = stored \cup Slice /\ tips' = {n} /\ reorged' = reorged \ Slice
      /\ UNCHANGED <<best, forks, tails>>
  BY <1>3, <1>5, <1>7 DEF Extend
<1>9. /\ link \subseteq Hash /\ base \in Hash /\ base \in Anc[Top] /\ link = Anc[Top] \ Anc[base]
      /\ \A x \in link \cup {base} : base \in Anc[x] /\ Rank(x) \in Nat
      /\ done \in Nat /\ TipStep \in Nat \ {0} /\ Cardinality(link) \in Nat
  <2>1. base \in Anc[base]
    BY <1>1, RankFacts, AncIn DEF TypeInv
  <2> QED
    BY <1>1, <2>1, RankFacts, ChainSyncAssumption DEF TypeInv, TypeOK, LinkInv
<1>10. n \in Hash /\ n \in Anc[Top] /\ Slice \subseteq Anc[Top]
  BY <1>6, <1>9
<1>11. \A x \in Slice : x \in Anc[n]
  BY <1>1, <1>6, <1>10, AncLinear
<1>12. m \in Anc[n] /\ Anc[m] \subseteq Anc[n]
  BY <1>7, <1>10, <1>11, AncTrans
<1>13. Main' = Main \cup Slice
  BY <1>8 DEF Main, TypeInv, TypeOK
<1>14. ASSUME NEW a \in Anc[n], NEW b \in Main', b \in Anc[a] PROVE a \in Main'
  <2>1. CASE a \in Anc[m] /\ b \in Main
    BY <1>3, <1>13, <1>14, <2>1 DEF TipInv
  <2>2. CASE a \in Anc[m] /\ b \in Slice
    <3>1. a \in Hash /\ base \in Anc[b]
      BY <1>6, <1>9, <1>10, <2>2, AncIn
    <3>2. base \in Anc[a]
      BY <1>14, <3>1, AncTrans
    <3> QED
      BY <1>3, <1>4, <1>13, <2>2, <3>2 DEF TipInv
  <2>3. CASE a \notin Anc[m]
    <3>1. a \in Hash /\ m \in Anc[a] /\ a # m
      BY <1>3, <1>10, <1>12, <1>14, <2>3, AncIn, AncLinear
    <3>2. m < a /\ a <= n
      BY <1>3, <1>10, <1>14, <3>1, AncTrans, HashOrder
    <3>3. a \in link
      <4>1. a \in Anc[Top]
        BY <1>1, <1>10, <1>14, AncTrans
      <4>2. Anc[base] \subseteq Anc[m]
        BY <1>3, <1>4, <1>9, AncTrans
      <4> QED
        BY <1>9, <2>3, <4>1, <4>2
    <3>4. Rank(m) < Rank(a)
      BY <1>1, <1>4, <3>2, <3>3, RankOrder DEF TypeInv
    <3>5. Rank(a) < done + TipStep
      <4>1. CASE a = n
        BY <1>6, <4>1
      <4>2. CASE a < n
        <5>1. Rank(a) < Rank(n)
          BY <1>1, <1>6, <3>3, <4>2, RankOrder DEF TypeInv
        <5> QED
          BY <1>6, <1>9, <3>3, <5>1
      <4> QED
        BY <1>10, <3>1, <3>2, <4>1, <4>2, HashOrder
    <3>6. a \in Slice
      BY <1>4, <1>9, <3>3, <3>4, <3>5 DEF Slice
    <3> QED
      BY <1>13, <3>6
  <2> QED
    BY <1>13, <1>14, <2>1, <2>2, <2>3
<1>15. Good(n)
  BY <1>1, <1>10, GoodDown
<1>16. ASSUME NEW r \in reorged' PROVE Under(Meet(best, r), n) /\ r \notin Anc[best] /\ Good(r)
  <2>1. r \in reorged /\ r \in Hash /\ Under(Meet(best, r), m)
    BY <1>3, <1>8, <1>16 DEF TipInv, TypeInv, TypeOK
  <2> QED
    BY <1>3, <1>10, <1>12, <2>1, UnderUp DEF ChainInv
<1>17. TipInv(n)'
  <2>1. n \in Main' /\ Main' \subseteq Anc[n]
    BY <1>3, <1>11, <1>12, <1>13
  <2>2. Good(n)' /\ \A r \in reorged' : Under(Meet(best, r), n)'
    BY <1>8, <1>15, <1>16 DEF Good, Under, Meet
  <2> QED
    BY <1>8, <1>14, <2>1, <2>2 DEF TipInv
<1>18. \A r \in reorged' : r \notin Anc[best'] /\ Good(r)'
  BY <1>8, <1>16 DEF Good, Meet
<1>19. pc' \in {"load", "extend"}
  BY <1>1 DEF Extend, NextRound
<1>20. WalkInv'
  BY <1>8, <1>19 DEF WalkInv, ChainInv
<1>21. CASE pc' = "load"
  BY <1>8, <1>17, <1>18, <1>20, <1>21 DEF ChainInv, LinkPcs, ReorgPcs
<1>22. CASE pc' # "load"
  <2>1. /\ ~ (done + TipStep > Cardinality(link)) /\ done' = done + TipStep
        /\ UNCHANGED <<pc, link, base>>
    BY <1>22 DEF Extend, NextRound
  <2>2. Top' = Top /\ Rank(n)' = Rank(n)
    BY <2>1 DEF Top, Rank
  <2>3. Good(Top)'
    BY <1>1, <1>8, <2>2 DEF Good, Meet
  <2>4. Rank(n) >= done + TipStep - 1 /\ Rank(n) \in Nat
    BY <1>5, <1>6, <1>9, <2>1
  <2>5. base \in Main' /\ n \in link \cup {base}
    BY <1>4, <1>5, <1>6, <1>13
  <2>6. ExtendInv(n)'
    BY <1>6, <1>9, <2>1, <2>2, <2>4, <2>5 DEF ExtendInv
  <2> QED
    BY <1>1, <1>8, <1>17, <1>18, <1>20, <2>1, <2>3, <2>6 DEF ChainInv, ReorgPcs
<1> QED
  BY <1>21, <1>22

\* The list of orphans is what the table has above base: forwardReorg cannot take
\* another branch.
LEMMA ChainList ==
    ASSUME TypeInv, ChainInv, ReorgList, Undisturbed
    PROVE  ChainInv'
<1> USE DEF node, block, txs, locals
<1>1. pc = "reorg" /\ pc \in LinkPcs /\ Good(Top) /\ tips # {} /\ pc' = "coins"
  BY DEF ReorgList, LinkPcs, ChainInv
<1>2. PICK m \in tips : ReorgInv(m)
  BY <1>1 DEF ChainInv
<1>3. /\ tips = {m} /\ m \in Hash /\ best \in Hash /\ TipInv(m) /\ m \in Main
      /\ Main \subseteq Anc[m] /\ Main \subseteq stored
  BY TheTip
<1>4. PICK leaf \in Childless : base \in Anc[leaf] /\ orphans' = Anc[leaf] \ Anc[base]
  BY DEF ReorgList
<1>5. leaf \in stored /\ leaf \in Hash
  BY <1>4 DEF Childless, TypeInv, TypeOK
<1>6. leaf \notin reorged
  <2> SUFFICES ASSUME leaf \in reorged PROVE FALSE
    OBVIOUS
  <2>1. Under(Meet(best, leaf), m) /\ Meet(best, m) = base /\ base \in Hash
    BY <1>2, <1>3, MeetFacts DEF TipInv, ReorgInv
  <2>2. base \in Anc[best]
    BY <1>3, <2>1, MeetFacts
  <2>3. base \in Anc[Meet(best, leaf)] /\ Meet(best, leaf) \in Hash
    BY <1>3, <1>4, <1>5, <2>2, MeetFacts
  <2> QED
    BY <2>1, <2>3, AncSame DEF Under
<1>7. leaf \in Main /\ leaf \in Anc[m]
  BY <1>3, <1>5, <1>6 DEF Main
<1>8. leaf = m
  <2> SUFFICES ASSUME leaf # m PROVE FALSE
    OBVIOUS
  <2>1. PICK c \in Anc[m] : Parent[c] = leaf /\ leaf \in Anc[c]
    BY <1>3, <1>7, AncChild
  <2>2. c \in stored
    BY <1>3, <1>7, <2>1 DEF TipInv
  <2> QED
    BY <1>4, <2>1, <2>2 DEF Childless
<1>9. UNCHANGED <<best, forks, stored, tips, tails, reorged, link, base>>
  BY DEF ReorgList
<1>10. /\ Main' = Main /\ (\A x : TipInv(x)' <=> TipInv(x)) /\ (\A x : Good(x)' <=> Good(x))
       /\ Top' = Top /\ WalkInv'
  BY <1>1, <1>9 DEF Main, TipInv, Good, Under, Meet, Top, ChainInv, WalkInv
<1>11. ReorgInv(m)'
  BY <1>2, <1>4, <1>8, <1>9, <1>10 DEF ReorgInv, Under, Meet
<1> QED
  BY <1>1, <1>3, <1>9, <1>10, <1>11 DEF ChainInv, LinkPcs, ReorgPcs

\* One save gives up the old branch and takes the new one.
LEMMA ChainReorg ==
    ASSUME TypeInv, ChainInv, SaveReorg, Undisturbed
    PROVE  ChainInv'
<1> USE DEF node, block, txs, locals
<1>1. /\ pc = "save" /\ pc \in LinkPcs /\ Good(Top) /\ tips # {} /\ pc' = "load"
      /\ Top \in Hash /\ base \in Anc[Top] /\ link = Anc[Top] \ Anc[base] /\ link # {}
      /\ Top = Max(link)
  BY DEF SaveReorg, NextRound, LinkPcs, ChainInv, TypeInv, LinkInv, Top
<1>2. PICK m \in tips : ReorgInv(m)
  BY <1>1 DEF ChainInv, ReorgPcs
<1>3. /\ tips = {m} /\ m \in Hash /\ best \in Hash /\ TipInv(m) /\ m \in Main
      /\ Main \subseteq Anc[m] /\ Main \subseteq stored
  BY TheTip
<1>4. /\ base \in Main /\ m \notin Anc[best] /\ Meet(best, m) = base
      /\ Anc[m] \cap Anc[Top] \subseteq Anc[base] /\ Under(base, Top)
      /\ orphans = Anc[m] \ Anc[base]
  BY <1>1, <1>2 DEF ReorgInv, ReorgPcs
<1>5. /\ base \in Hash /\ base \in Anc[best] /\ base \in Anc[m]
      /\ Anc[base] \subseteq Anc[best] /\ Anc[base] \subseteq Anc[m] /\ Anc[base] \subseteq Anc[Top]
      /\ \A y \in Anc[best] \cap Anc[m] : y \in Anc[base]
  BY <1>1, <1>3, <1>4, MeetFacts, AncTrans
<1>6. Top \in link
  <2>1. link \in SUBSET Hash
    BY <1>1, RankFacts DEF TypeInv
  <2> QED
    BY <1>1, <2>1, MaxExists
<1>7. m \in orphans /\ link \cap orphans = {}
  BY <1>1, <1>3, <1>4, <1>5, AncIn
<1>8. /\ stored' = stored \cup link /\ tips' = {Top} /\ tails' = tails \ orphans
      /\ reorged' = (reorged \ link) \cup orphans /\ UNCHANGED <<best, forks>>
  BY <1>1, <1>3, <1>7 DEF SaveReorg
<1>9. Main' = (Main \ orphans) \cup link
  BY <1>7, <1>8 DEF Main, TypeInv, TypeOK
<1>10. Main \ orphans \subseteq Anc[base]
  BY <1>3, <1>4
<1>11. ASSUME NEW a \in Anc[Top], NEW b \in Main', b \in Anc[a] PROVE a \in Main'
  <2>1. CASE a \in link
    BY <1>9, <2>1
  <2>2. CASE a \notin link
    <3>1. a \in Anc[base] /\ b \in Anc[base] /\ a \in Anc[m]
      BY <1>1, <1>5, <1>11, <2>2, AncTrans
    <3>2. b \in Main
      BY <1>1, <1>9, <1>11, <3>1
    <3>3. a \in Main
      BY <1>3, <1>11, <3>1, <3>2 DEF TipInv
    <3> QED
      BY <1>4, <1>9, <3>1, <3>3
  <2> QED
    BY <2>1, <2>2
<1>12. ASSUME NEW r \in reorged'
       PROVE  Under(Meet(best, r), Top) /\ r \notin Anc[best] /\ Good(r)
  <2>1. CASE r \in orphans
    <3>1. r \in Anc[m] /\ r \notin Anc[best]
      BY <1>4, <1>5, <2>1
    <3>2. Good(r) /\ Meet(best, r) = base
      BY <1>3, <1>4, <3>1, GoodDown DEF TipInv
    <3> QED
      BY <1>4, <3>1, <3>2
  <2>2. CASE r \in reorged
    <3>1. r \in Hash /\ r \notin Anc[best] /\ Good(r) /\ Under(Meet(best, r), m)
      BY <1>3, <2>2 DEF TipInv, ChainInv, TypeInv, TypeOK
    <3> DEFINE g == Meet(best, r)
               f == Meet(best, Top)
    <3>2. g \in Hash /\ f \in Hash
      BY <1>1, <1>3, <3>1, MeetFacts
    <3>3. g \in Anc[base] /\ g # base
      BY <1>4, <3>1 DEF Under
    <3>4. base \in Anc[f]
      BY <1>4 DEF Under
    <3> HIDE DEF g, f
    <3>5. g \in Anc[f]
      BY <3>2, <3>3, <3>4, AncTrans
    <3>6. g # f
      BY <1>5, <3>2, <3>3, <3>4, AncSame
    <3> QED
      BY <3>1, <3>5, <3>6 DEF Under, g, f
  <2> QED
    BY <1>8, <1>12, <2>1, <2>2
<1>13. PICK n \in Hash : n = Top
  BY <1>1
<1>14. TipInv(n)'
  <2>1. n \in Main' /\ Main' \subseteq Anc[n]
    BY <1>1, <1>5, <1>6, <1>9, <1>10, <1>13
  <2>2. Good(n)' /\ \A r \in reorged' : Under(Meet(best, r), n)'
    BY <1>1, <1>8, <1>12, <1>13 DEF Good, Under, Meet
  <2> QED
    BY <1>8, <1>11, <1>13, <2>1, <2>2 DEF TipInv
<1>15. \A r \in reorged' : r \notin Anc[best'] /\ Good(r)'
  BY <1>8, <1>12 DEF Good, Meet
<1>16. WalkInv'
  BY <1>1, <1>8 DEF WalkInv, ChainInv
<1> QED
  BY <1>1, <1>8, <1>13, <1>14, <1>15, <1>16 DEF ChainInv, LinkPcs, ReorgPcs

LEMMA ChainNode ==
    ASSUME TypeInv, NodeInv, ChainInv, NEW h \in Hash, NodeMoves(h)
    PROVE  NodeInv' /\ ChainInv'
<1> USE DEF node, block, txs, locals
<1>1. ASSUME tangled' PROVE NodeInv' /\ ChainInv'
  BY <1>1 DEF NodeInv, ChainInv, Undisturbed
<1>2. ASSUME ~tangled' PROVE NodeInv'
  BY <1>2, NodeStep
<1>3. ASSUME Undisturbed' PROVE ChainInv'
  <2>1. /\ ~tangled /\ forks \subseteq forks' /\ \A x \in Hash : Good(x) => Good(x)'
        /\ \A x \in Hash : Good(x) /\ x \notin Anc[best] =>
              x \notin Anc[best'] /\ Meet(best', x) = Meet(best, x)
        /\ \A x \in Hash : \A g \in forks : Good(x) /\ Under(g, x) => Under(g, x)'
    BY <1>3, NodeStep DEF Undisturbed
  <2>2. /\ UNCHANGED <<stored, tips, tails, reorged, pc, cursor, link, base, done, orphans>>
        /\ Undisturbed
    BY <1>3, <2>1 DEF NodeMoves, Undisturbed
  <2>3. Main' = Main /\ Top' = Top /\ \A x : Rank(x)' = Rank(x)
    BY <2>2 DEF Main, Top, Rank
  <2>4. WalkInv'
    BY <2>2, <2>3 DEF WalkInv, ChainInv
  <2>5. ASSUME NEW r \in reorged
        PROVE  /\ r \in Hash /\ r \notin Anc[best'] /\ Good(r)'
               /\ Meet(best, r) \in forks /\ Meet(best', r) = Meet(best, r)
    <3>1. r \in Hash /\ r \notin Anc[best] /\ Good(r)
      BY <2>2 DEF ChainInv, TypeInv, TypeOK
    <3> QED
      BY <2>1, <3>1 DEF Good
  <2>6. ASSUME NEW m \in tips PROVE TipInv(m)'
    <3>1. m \in Hash /\ TipInv(m)
      BY <2>2, TheTip
    <3>2. ASSUME NEW r \in reorged' PROVE Under(Meet(best, r), m)'
      <4>1. PICK g \in forks : g = Meet(best, r)
        BY <2>2, <2>5, <3>2
      <4>2. Under(g, m)'
        BY <2>1, <2>2, <3>1, <3>2, <4>1 DEF TipInv
      <4>3. Meet(best', r) = g
        BY <2>2, <2>5, <3>2, <4>1
      <4> QED
        BY <4>2, <4>3 DEF Under, Meet
    <3> QED
      BY <2>1, <2>2, <2>3, <3>1, <3>2 DEF TipInv
  <2>7. pc \in LinkPcs => Good(Top)'
    <3> SUFFICES ASSUME pc \in LinkPcs PROVE Good(Top)'
      OBVIOUS
    <3>1. PICK n \in Hash : n = Top
      BY DEF TypeInv, LinkInv
    <3>2. Good(n)'
      BY <2>1, <2>2, <3>1 DEF ChainInv
    <3> QED
      BY <2>3, <3>1, <3>2 DEF Good, Meet
  <2>8. ASSUME pc \in ReorgPcs \cup {"reorg"}, NEW m \in tips PROVE ReorgInv(m)'
    <3>1. ReorgInv(m) /\ m \in Hash /\ Good(m) /\ pc \in LinkPcs
      BY <2>2, <2>8, TheTip DEF ChainInv, ReorgPcs, LinkPcs, TipInv
    <3>2. m \notin Anc[best'] /\ Meet(best', m) = base
      BY <2>1, <3>1 DEF ReorgInv
    <3>3. PICK n \in Hash : n = Top
      BY <3>1 DEF TypeInv, LinkInv
    <3>4. PICK g \in forks : g = base
      BY <3>1 DEF ReorgInv, Good
    <3>5. Under(g, n)'
      BY <2>1, <2>2, <3>1, <3>3, <3>4 DEF ChainInv, ReorgInv
    <3>6. Under(base, Top)'
      BY <2>2, <2>3, <3>3, <3>4, <3>5 DEF Under, Meet
    <3>7. Meet(best, m)' = base'
      BY <2>2, <3>2 DEF Meet
    <3> QED
      BY <2>2, <2>3, <3>1, <3>2, <3>6, <3>7 DEF ReorgInv
  <2>9. ASSUME pc = "extend", NEW m \in tips PROVE ExtendInv(m)'
    <3>1. ExtendInv(m)
      BY <2>2, <2>9 DEF ChainInv
    <3> QED
      BY <2>2, <2>3, <3>1 DEF ExtendInv
  <2>10. \A r \in reorged' : r \notin Anc[best'] /\ Good(r)'
    BY <2>2, <2>5
  <2> QED
    BY <2>2, <2>4, <2>6, <2>7, <2>8, <2>9, <2>10 DEF ChainInv
<1> QED
  BY <1>1, <1>2, <1>3 DEF ChainInv

LEMMA ChainStep ==
    ASSUME TypeInv, GapInv, NodeInv, ChainInv, [Next]_vars
    PROVE  NodeInv' /\ ChainInv'
<1> USE DEF node, block, txs, locals
<1>1. CASE \E h \in Hash : NodeMoves(h)
  BY <1>1, ChainNode
<1>2. CASE UNCHANGED node
  <2>1. NodeInv'
    BY <1>2 DEF NodeInv
  <2> SUFFICES ASSUME Undisturbed' PROVE ChainInv'
    BY <2>1 DEF ChainInv
  <2>2. CASE (Load \/ SaveFirstTip \/ Backfill \/ BackfillDone) /\ UNCHANGED held
    BY <2>2, ChainWalk
  <2>3. CASE Linked \/ Extend \/ ReorgList \/ SaveReorg
    <3>1. Undisturbed
      BY <1>2, <2>3 DEF Linked, Extend, ReorgList, SaveReorg, Undisturbed
    <3> QED
      BY <2>3, <3>1, ChainLinked, ChainExtend, ChainList, ChainReorg
  <2>4. CASE NoAncestor \/ NothingNew \/ UNCHANGED vars
    BY <2>4, ChainFrame DEF NoAncestor, NothingNew, NextRound, vars, Undisturbed, LinkPcs
  <2>5. CASE CorrectFlag
    BY <1>2, <2>5 DEF CorrectFlag, ChainInv, Undisturbed
  <2>6. CASE FindCoinbase \/ DeleteCoinTx \/ DeleteCoinOut \/ MarkDeleted
    BY <2>6, ChainFrame DEF FindCoinbase, DeleteCoinTx, DeleteCoinOut, MarkDeleted, Undisturbed,
       ReorgPcs
  <2>7. CASE Fail
    <3>1. faults'.script = faults.script /\ faults'.stale = faults.stale
      <4>1. CASE pc \in {"init", "back"} /\ tails = {}
        BY <2>7, <4>1 DEF Fail, TypeInv, TypeOK
      <4>2. CASE ~ (pc \in {"init", "back"} /\ tails = {})
        BY <2>7, <4>2 DEF Fail, TypeInv, TypeOK
      <4> QED
        BY <4>1, <4>2
    <3> QED
      BY <1>2, <2>7, <3>1, ChainFrame DEF Fail, NextRound, Undisturbed, LinkPcs
  <2>8. CASE Script \/ \E h \in Hash : Hold(h)
    <3>1. /\ faults.script \in Nat /\ faults.stale \in Nat
          /\ \/ faults' = [faults EXCEPT !.script = @ + 1]
             \/ faults' = [faults EXCEPT !.stale = @ + 1]
      BY <2>8 DEF Script, Hold, TypeInv, TypeOK
    <3>2. faults'.script # 0 \/ faults'.stale # 0
      BY <3>1 DEF TypeInv, TypeOK
    <3> QED
      BY <3>2 DEF Undisturbed
  <2>9. CASE SaveHeld
    BY <2>9 DEF SaveHeld, GapInv, Undisturbed
  <2>10. CASE \E h \in Hash : Index(h)
    BY <2>10, ChainFrame DEF Index, Undisturbed
  <2> QED
    BY <1>2, <2>2, <2>3, <2>4, <2>5, <2>6, <2>7, <2>8, <2>9, <2>10, <1>1, ChainNode
    DEF Next, FStep
<1>3. (\E h \in Hash : NodeMoves(h)) \/ UNCHANGED node
  BY DEF Next, vars, FStep, Load, SaveFirstTip, Backfill, BackfillDone, Linked, NoAncestor, Extend,
     NothingNew, CorrectFlag, ReorgList, FindCoinbase, DeleteCoinTx, DeleteCoinOut, MarkDeleted,
     SaveReorg, Fail, Script, Index, Hold, SaveHeld
<1> QED
  BY <1>1, <1>2, <1>3

LEMMA ChainHolds == Spec => [](TypeInv /\ GapInv /\ ChainInv)
<1>1. Init => GapInv
  BY DEF Init, GapInv, TailRows
<1>2. TypeInv /\ OrphInv /\ GapInv /\ NodeInv /\ ChainInv /\ [Next]_vars
      => TypeInv' /\ OrphInv' /\ GapInv' /\ NodeInv' /\ ChainInv'
  BY TypeStep, OrphStep, GapStep, ChainStep
<1> QED
  BY <1>1, <1>2, TypeInit, OrphInit, ChainInit, PTL DEF Spec

\* One tip at most, between any two statements of a long extension and after any
\* failure there.
THEOREM OneTip == Spec => []TipUnique
BY ChainHolds, ChainShows, PTL

\* The rows that are not is_reorg form one chain at every moment of a reorganisation,
\* however the node's chain has branched above the older forks.
THEOREM OneChain == Spec => []MainIsChain
BY ChainHolds, ChainShows, PTL

-----------------------------------------------------------------------------
(* The height of the tip.                                                  *)

\* Whatever F has read of the node is not above its best block now.
HeightInv ==
    Undisturbed =>
        /\ \A m \in tips : Height(m) <= Height(best)
        /\ pc \in LinkPcs => /\ Height(Top) <= Height(best)
                             /\ \A m \in tips : Height(m) <= Height(Top)

Rises == Undisturbed' => \A m \in tips, n \in tips' : Height(m) <= Height(n)

\* Nothing makes up for a disturbance.
LEMMA CalmBefore ==
    ASSUME TypeInv, [Next]_vars, Undisturbed'
    PROVE  Undisturbed
<1> USE DEF node, block, txs, locals
<1>1. tangled => tangled'
  BY DEF Next, vars, FStep, Load, SaveFirstTip, Backfill, BackfillDone, Linked, NoAncestor, Extend,
     NothingNew, CorrectFlag, ReorgList, FindCoinbase, DeleteCoinTx, DeleteCoinOut, MarkDeleted,
     SaveReorg, Fail, Script, NodeMoves, Index, Hold, SaveHeld
<1>2. \/ UNCHANGED faults
      \/ faults' = [faults EXCEPT !.init = @ + 1]
      \/ faults' = [faults EXCEPT !.later = @ + 1]
      \/ faults' = [faults EXCEPT !.script = @ + 1]
      \/ faults' = [faults EXCEPT !.stale = @ + 1]
  BY DEF Next, vars, FStep, Load, SaveFirstTip, Backfill, BackfillDone, Linked, NoAncestor, Extend,
     NothingNew, CorrectFlag, ReorgList, FindCoinbase, DeleteCoinTx, DeleteCoinOut, MarkDeleted,
     SaveReorg, Fail, Script, NodeMoves, Index, Hold, SaveHeld
<1>3. faults \in [{"init", "later", "script", "stale"} -> Nat]
  BY DEF TypeInv, TypeOK
<1>4. (faults.script # 0 => faults'.script # 0) /\ (faults.stale # 0 => faults'.stale # 0)
  <2>1. /\ faults.script \in Nat /\ faults.stale \in Nat
        /\ faults'.script \in {faults.script, faults.script + 1}
        /\ faults'.stale \in {faults.stale, faults.stale + 1}
    BY <1>2, <1>3
  <2> QED
    BY <2>1
<1> QED
  BY <1>1, <1>4 DEF Undisturbed

LEMMA HeightFrame ==
    ASSUME TypeInv, HeightInv, Undisturbed, UNCHANGED <<best, tips>>,
           \A m, n \in tips : m = n,
           pc' \notin LinkPcs \/ (pc \in LinkPcs /\ UNCHANGED <<link, base>>)
    PROVE  HeightInv' /\ Rises
<1>1. \A m \in tips : Height(m) \in Nat
  BY HeightType DEF TypeInv, TypeOK
<1>2. link' = link /\ base' = base => Top' = Top
  BY DEF Top
<1>3. HeightInv'
  BY <1>2 DEF HeightInv
<1>4. \A m, n \in tips : Height(m) <= Height(n)
  BY <1>1
<1> QED
  BY <1>3, <1>4 DEF Rises

LEMMA HeightStep ==
    ASSUME TypeInv, GapInv, ChainInv, ChainInv', HeightInv, [Next]_vars
    PROVE  HeightInv' /\ Rises
<1> USE DEF node, block, txs, locals
<1> SUFFICES ASSUME Undisturbed, Undisturbed' PROVE HeightInv' /\ Rises
  BY CalmBefore DEF HeightInv, Rises
<1>1. /\ best \in Hash /\ tips \subseteq Hash /\ \A m, n \in tips : m = n
      /\ \A x \in Hash : Height(x) \in Nat
  BY TheTip, HeightType DEF TypeInv, TypeOK
<1>2. CASE Load \/ Backfill \/ BackfillDone \/ NoAncestor \/ NothingNew \/ UNCHANGED vars
  BY <1>1, <1>2, HeightFrame DEF Load, Backfill, BackfillDone, NoAncestor, NothingNew, NextRound,
     vars, LinkPcs
<1>3. CASE ReorgList \/ FindCoinbase \/ DeleteCoinTx \/ DeleteCoinOut \/ MarkDeleted
  BY <1>1, <1>3, HeightFrame DEF ReorgList, FindCoinbase, DeleteCoinTx, DeleteCoinOut, MarkDeleted,
     LinkPcs
<1>4. CASE Fail \/ \E h \in Hash : Index(h)
  BY <1>1, <1>4, HeightFrame DEF Fail, Index, NextRound, LinkPcs
<1>5. CASE SaveFirstTip
  <2>1. tips = {} /\ tips' = {best} /\ best' = best /\ pc' \notin LinkPcs
    BY <1>5 DEF SaveFirstTip, ChainInv, WalkInv, LinkPcs
  <2> QED
    BY <1>1, <2>1 DEF HeightInv, Rises
<1>6. CASE Linked
  <2>1. Top' = best /\ best' = best /\ tips' = tips
    BY <1>6, LinkedFacts DEF Linked
  <2>2. \A m, n \in tips : Height(m) <= Height(n)
    BY <1>1
  <2> QED
    BY <1>1, <2>1, <2>2 DEF HeightInv, Rises
<1>7. CASE Extend
  <2>1. /\ pc \in LinkPcs /\ Max(Slice) \in Slice /\ Max(Slice) \in tips'
        /\ Slice \subseteq link \cup {base} /\ best' = best
    BY <1>7, SliceFacts DEF Extend, LinkPcs, TypeInv
  <2>2. PICK n \in Slice : n = Max(Slice)
    BY <2>1
  <2>3. Top \in Hash /\ n \in Anc[Top]
    BY <2>1, <2>2 DEF TypeInv, LinkInv
  <2>4. n \in Hash /\ tips' = {n} /\ Main' \subseteq Anc[n]
    BY <2>1, <2>2, <2>3, AncIn DEF ChainInv, TipInv
  <2>5. \A m \in tips : m \in Main'
    <3>1. \A m \in tips : m \in stored /\ m \notin reorged
      BY TheTip DEF Main
    <3> QED
      BY <1>7, <3>1 DEF Main, Extend
  <2>6. /\ \A m \in tips : Height(m) <= Height(n)
        /\ Height(n) <= Height(Top) /\ Height(Top) <= Height(best) /\ Height(n) \in Nat
    BY <1>1, <2>1, <2>3, <2>4, <2>5, HeightType DEF HeightInv
  <2>7. Height(n) <= Height(best)
    BY <1>1, <2>3, <2>6
  <2>8. pc' \in LinkPcs => Top' = Top
    BY <1>7 DEF Extend, NextRound, LinkPcs, Top
  <2> QED
    BY <2>1, <2>4, <2>6, <2>7, <2>8 DEF HeightInv, Rises
<1>8. CASE SaveReorg
  <2>1. /\ pc \in LinkPcs /\ pc' \notin LinkPcs /\ best' = best /\ Top \in tips' /\ Top \in Hash
    BY <1>8 DEF SaveReorg, NextRound, LinkPcs, TypeInv, LinkInv, Top
  <2>2. PICK n \in Hash : n = Top
    BY <2>1
  <2>3. tips' = {n}
    BY <2>1, <2>2 DEF ChainInv, TipInv
  <2> QED
    BY <1>1, <2>1, <2>2, <2>3 DEF HeightInv, Rises
<1>9. CASE CorrectFlag
  BY <1>9 DEF CorrectFlag, ChainInv
<1>10. CASE Script \/ \E h \in Hash : Hold(h)
  <2>1. /\ faults.script \in Nat /\ faults.stale \in Nat
        /\ \/ faults' = [faults EXCEPT !.script = @ + 1]
           \/ faults' = [faults EXCEPT !.stale = @ + 1]
    BY <1>10 DEF Script, Hold, TypeInv, TypeOK
  <2>2. faults'.script # 0 \/ faults'.stale # 0
    BY <2>1 DEF TypeInv, TypeOK
  <2> QED
    BY <2>2 DEF Undisturbed
<1>11. CASE SaveHeld
  BY <1>11 DEF SaveHeld, GapInv, Undisturbed
<1>12. ASSUME NEW h \in Hash, NodeMoves(h) PROVE HeightInv' /\ Rises
  <2>1. best' = h /\ Height(h) > Height(best) /\ UNCHANGED <<tips, pc, link, base>> /\ Top' = Top
    BY <1>12 DEF NodeMoves, Top
  <2>2. pc \in LinkPcs => Top \in Hash
    BY DEF TypeInv, LinkInv
  <2>3. \A m, n \in tips : Height(m) <= Height(n)
    BY <1>1
  <2>4. \A x \in Hash : Height(x) <= Height(best) => Height(x) <= Height(h)
    BY <1>1, <2>1
  <2> QED
    BY <1>1, <2>1, <2>2, <2>3, <2>4 DEF HeightInv, Rises
<1> QED
  BY <1>2, <1>3, <1>4, <1>5, <1>6, <1>7, <1>8, <1>9, <1>10, <1>11, <1>12 DEF Next, FStep

\* The height of the tip never falls, whatever fails.
THEOREM TipRises == Spec => TipNeverFalls
<1>1. Init => HeightInv
  BY DEF Init, HeightInv, LinkPcs
<1>2. TypeInv /\ GapInv /\ ChainInv /\ ChainInv' /\ HeightInv /\ [Next]_vars
      => HeightInv' /\ [Rises]_vars
  BY HeightStep
<1>3. [Rises]_vars => [Undisturbed' => \A m \in tips, n \in tips' : Height(m) <= Height(n)]_vars
  BY DEF Rises
<1> QED
  BY <1>1, <1>2, <1>3, ChainHolds, PTL DEF Spec, TipNeverFalls
=============================================================================
