--------------------------- MODULE Queries_proofs ---------------------------
(***************************************************************************)
(* Proofs about Queries, for every number of outputs, page size, number of *)
(* writers and of changes.                                                 *)
(***************************************************************************)
EXTENDS Queries, FiniteSetTheorems, TLAPS

-----------------------------------------------------------------------------
(* Cardinality.                                                            *)

\* A part of 1..N has at most N elements.
LEMMA Few ==
    ASSUME NEW S \in SUBSET (1..N)
    PROVE  IsFiniteSet(S) /\ Cardinality(S) \in 0..N
<1>1. N \in Nat \ {0}
  BY QueriesAssumption
<1>2. IsFiniteSet(1..N) /\ Cardinality(1..N) = N
  BY <1>1, FS_Interval
<1>3. IsFiniteSet(S) /\ Cardinality(S) <= N
  BY <1>2, FS_Subset
<1> QED
  BY <1>1, <1>3, FS_CardinalityType

\* LIMIT leaves nothing only of nothing.
LEMMA CutsEmpty ==
    ASSUME NEW S \in SUBSET (1..N), NEW p \in Cuts(S), p = {}
    PROVE  S = {}
<1>1. Cardinality(p) = 0
  BY FS_EmptySet
<1>2. Smaller(PageSize, Cardinality(S)) = 0
  BY <1>1 DEF Cuts
<1>3. IsFiniteSet(S) /\ Cardinality(S) \in Nat
  BY Few
<1>4. Cardinality(S) = 0
  BY <1>2, <1>3, QueriesAssumption DEF Smaller
<1> QED
  BY <1>3, <1>4, FS_EmptySet

-----------------------------------------------------------------------------
(* Types.                                                                  *)

\* What a page ends with is in it, and the cursor of a client is an output.
LastInv ==
    /\ pc = "page" /\ page # {} /\ kind # "history" => last \in page
    /\ pc = "lookup" => last \in 1..N
    /\ pc = "count" => kind = "history"
    /\ pc = "read" => kind = "balance"

TypeInv == TypeOK /\ LastInv

\* Between two states, one row may have changed, and no other.
OneMoved ==
    \E o : /\ moved' = moved \cup {o}
           /\ \A x : x # o => /\ x \in Matching' <=> x \in Matching
                              /\ x \in conf' <=> x \in conf

RowChange(o) ==
    \/ Insert(o) \/ Confirm(o) \/ Delete(o) \/ Restore(o)
    \/ Spend(o) \/ MarkUsed(o) \/ Unspend(o)

LEMMA RowChanges ==
    ASSUME TypeOK, NEW o \in Outs, RowChange(o), kind' = kind
    PROVE  /\ shown' \subseteq Outs
           /\ conf' \subseteq shown' /\ deleted' \subseteq shown'
           /\ used' \subseteq shown' /\ spent' \subseteq shown'
           /\ blocks' = blocks
           /\ \A x : x # o => /\ x \in Matching' <=> x \in Matching
                              /\ x \in conf' <=> x \in conf
<1>. DEFINE Same(S, T) == \A x : x # o => (x \in T <=> x \in S)
            Good ==
              /\ shown' \subseteq Outs
              /\ conf' \subseteq shown' /\ deleted' \subseteq shown'
              /\ used' \subseteq shown' /\ spent' \subseteq shown'
              /\ blocks' = blocks
              /\ Same(shown, shown') /\ Same(conf, conf') /\ Same(deleted, deleted')
              /\ Same(used, used') /\ Same(spent, spent')
<1>0. Good
  <2>. USE DEF TypeOK
  <2>1. CASE Insert(o)   BY <2>1 DEF Insert
  <2>2. CASE Confirm(o)  BY <2>2 DEF Confirm
  <2>3. CASE Delete(o)   BY <2>3 DEF Delete
  <2>4. CASE Restore(o)  BY <2>4 DEF Restore
  <2>5. CASE Spend(o)    BY <2>5 DEF Spend
  <2>6. CASE MarkUsed(o) BY <2>6 DEF MarkUsed
  <2>7. CASE Unspend(o)  BY <2>7 DEF Unspend
  <2>. QED BY <2>1, <2>2, <2>3, <2>4, <2>5, <2>6, <2>7 DEF RowChange
<1>1. Same(Unspent, Unspent') BY <1>0 DEF Unspent
<1>2. Same(Matching, Matching')
  <2>1. CASE kind \in {"utxo", "balance"} BY <1>0, <1>1, <2>1 DEF Matching
  <2>2. CASE kind = "ft" BY <1>1, <2>2 DEF Matching
  <2>3. CASE kind = "history" BY <1>0, <2>3 DEF Matching
  <2>4. CASE kind = "blocks" BY <1>0, <2>4 DEF Matching
  <2>. QED BY <2>1, <2>2, <2>3, <2>4, QueriesAssumption DEF TypeOK, Kinds, FlagKinds
<1>. QED BY <1>0, <1>2

\* The indexer leaves the client alone and changes one row at a time.
LEMMA IndexerStep ==
    ASSUME TypeOK, Indexer
    PROVE  /\ UNCHANGED client /\ TypeOK' /\ OneMoved
           /\ broken \subseteq broken'
           /\ "left" \notin broken' => Matching \subseteq Matching'
<1>1. ASSUME NEW o, Change(o)
      PROVE  /\ UNCHANGED client /\ changes' \in 0..MaxChange
             /\ moved' = moved \cup {o}
             /\ broken \subseteq broken' /\ broken' \subseteq Trouble
             /\ "left" \notin broken' => Matching \subseteq Matching'
  BY <1>1, QueriesAssumption DEF Change, TypeOK, Trouble
<1>2. ASSUME NEW o \in Outs, RowChange(o), Change(o)
      PROVE  TypeOK' /\ OneMoved
  <2>1. kind' = kind BY <1>1, <1>2 DEF client
  <2>2. OneMoved BY <1>1, <1>2, <2>1, RowChanges DEF OneMoved
  <2>3. /\ shown' \subseteq Outs
        /\ conf' \subseteq shown' /\ deleted' \subseteq shown'
        /\ used' \subseteq shown' /\ spent' \subseteq shown'
        /\ blocks' = blocks
    BY <1>2, <2>1, RowChanges
  <2>4. UNCHANGED client /\ broken' \subseteq Trouble /\ changes' \in 0..MaxChange
    BY <1>1, <1>2
  <2>5. moved' \subseteq 1..N
    <3>1. moved' = moved \cup {o} BY <1>1, <1>2
    <3>. QED BY <3>1 DEF TypeOK, Outs
  <2>. QED BY <2>2, <2>3, <2>4, <2>5 DEF TypeOK, client, position
<1>3. ASSUME kind = "blocks", NewBlock, Change(blocks')
      PROVE  TypeOK' /\ OneMoved
  <2>1. UNCHANGED client BY <1>1, <1>3
  <2>2. blocks' = blocks + 1 /\ blocks' \in 1..N /\ blocks \in 1..N
    BY <1>3, QueriesAssumption DEF NewBlock, TypeOK, Blocks
  <2>3. OneMoved
    <3>1. Matching = 1..blocks /\ Matching' = 1..blocks'
      BY <1>3, <2>1 DEF Matching, client
    <3>2. \A x : x # blocks' => (x \in 1..blocks' <=> x \in 1..blocks)
      BY <2>2
    <3>. QED BY <1>1, <1>3, <3>1, <3>2 DEF OneMoved, NewBlock
  <2>4. broken' \subseteq Trouble /\ changes' \in 0..MaxChange
    BY <1>1, <1>3
  <2>5. moved' \subseteq 1..N
    <3>1. moved' = moved \cup {blocks'} BY <1>1, <1>3
    <3>. QED BY <2>2, <3>1 DEF TypeOK
  <2>. QED BY <1>3, <2>1, <2>2, <2>3, <2>4, <2>5 DEF TypeOK, client, position, NewBlock, Blocks
<1>. QED BY <1>1, <1>2, <1>3 DEF Indexer, RowChange

LEMMA MatchingType ==
    ASSUME TypeOK PROVE Matching \subseteq 1..N
BY QueriesAssumption DEF TypeOK, Matching, Unspent, Outs, Blocks, FlagKinds, Kinds

\* A page is a part of the list, and what it ends with is in it.
LEMMA AnswerType ==
    ASSUME TypeOK, NEW S \in SUBSET Matching, NEW p \in Cuts(S), NEW l \in Ends(p), Answer(p, l)
    PROVE  /\ p \subseteq S /\ p \subseteq 1..N /\ l \in 0..N
           /\ p # {} => l \in p
           /\ p = {} => l = last
           /\ pc' = "page" /\ page' = p /\ last' = l
BY MatchingType DEF Cuts, Ends, Answer, TypeOK

LEMMA InitType == Init => TypeInv
BY QueriesAssumption DEF Init, TypeInv, TypeOK, LastInv, Outs, Blocks, Beyond

LEMMA ClientType ==
    ASSUME TypeInv, Begin \/ More \/ Stop PROVE TypeInv'
<1>. USE DEF TypeInv, TypeOK, LastInv, store, history, position
<1>1. CASE Begin BY <1>1, QueriesAssumption DEF Begin, Beyond, Trouble
<1>2. CASE More
  <2>1. seen' \subseteq 1..N BY <1>2 DEF More
  <2>2. CASE kind = "history"
    <3>1. Cardinality(page) \in 0..N BY Few
    <3>2. from' \in 0..Beyond
      BY <1>2, <2>2, <3>1, QueriesAssumption DEF More, Enough, Beyond
    <3>. QED BY <1>2, <2>1, <2>2, <3>2 DEF More
  <2>3. CASE kind # "history"
    <3>1. last \in 1..N BY <1>2, <2>3 DEF More, Enough
    <3>. QED BY <1>2, <2>1, <2>3, <3>1 DEF More
  <2>. QED BY <2>2, <2>3
<1>3. CASE Stop BY <1>3 DEF Stop
<1>. QED BY <1>1, <1>2, <1>3

LEMMA RequestType ==
    ASSUME TypeInv, Request PROVE TypeInv'
<1>. USE DEF TypeInv, TypeOK, LastInv, store, history
<1>1. CASE Lookup
  <2>1. from' \in 0..Beyond BY <1>1, QueriesAssumption DEF Lookup, Beyond
  <2>. QED BY <1>1, <2>1 DEF Lookup, Trouble
<1>2. CASE LookupBlock
  <2>1. from' \in 0..Beyond
    BY <1>2, QueriesAssumption DEF LookupBlock, Beyond, Blocks
  <2>. QED BY <1>2, <2>1 DEF LookupBlock, Trouble
<1>3. CASE SelectUtxo
  <2>1. PICK p \in Cuts({o \in Matching : o > from}) : \E l \in Ends(p) :
            Answer(p, l) /\ broken' \subseteq broken \cup {"unordered"}
    BY <1>3 DEF SelectUtxo
  <2>2. PICK l \in Ends(p) : Answer(p, l) /\ broken' \subseteq broken \cup {"unordered"}
    BY <2>1
  <2>3. {o \in Matching : o > from} \in SUBSET Matching OBVIOUS
  <2>. QED BY <2>2, <2>3, AnswerType DEF Answer, Trouble
<1>4. CASE SelectBlocks
  <2>1. PICK p \in Cuts({b \in Matching : Height[b] < from}) : \E l \in Ends(p) :
            Answer(p, l) /\ broken' = broken
    BY <1>4 DEF SelectBlocks
  <2>2. PICK l \in Ends(p) : Answer(p, l) /\ broken' = broken
    BY <2>1
  <2>3. {b \in Matching : Height[b] < from} \in SUBSET Matching OBVIOUS
  <2>. QED BY <2>2, <2>3, AnswerType DEF Answer, Trouble
<1>5. CASE SelectHistory
  <2>1. page' \subseteq 1..N BY <1>5, MatchingType DEF SelectHistory
  <2>. QED BY <1>5, <2>1 DEF SelectHistory
<1>6. CASE CountHistory
  <2>1. shown \ deleted \in SUBSET (1..N) BY DEF Outs
  <2>2. Count \in 0..N BY <2>1, Few DEF Count
  <2>. QED BY <1>6, <2>2 DEF CountHistory
<1>7. CASE \E r \in toRead : ReadBalance(r)
  <2>1. Matching \subseteq 1..N BY MatchingType
  <2>. QED BY <1>7, <2>1 DEF ReadBalance
<1>. QED BY <1>1, <1>2, <1>3, <1>4, <1>5, <1>6, <1>7 DEF Request

LEMMA TypeStep == TypeInv /\ [Next]_vars => TypeInv'
<1>. SUFFICES ASSUME TypeInv, [Next]_vars PROVE TypeInv' OBVIOUS
<1>1. CASE Indexer
  BY <1>1, IndexerStep DEF TypeInv, LastInv, client, position
<1>2. CASE UNCHANGED vars
  BY <1>2 DEF TypeInv, TypeOK, LastInv, vars, store, client, position, history
<1>. QED BY <1>1, <1>2, ClientType, RequestType DEF Next

\* Positions, pages and counts stay in their bounds, and every lookup has a row that
\* a client was given.
THEOREM TypeCorrect == Spec => []TypeOK
<1>1. TypeInv => TypeOK BY DEF TypeInv
<1>. QED BY <1>1, InitType, TypeStep, PTL DEF Spec

-----------------------------------------------------------------------------
(* Balances.                                                               *)

\* A statement that was answered is right about everything that did not change since.
BalanceInv ==
    kind = "balance" =>
        /\ pc \in {"idle", "read", "done"}
        /\ pc = "done" => toRead = {}
        /\ pc # "idle" =>
            /\ "confirmed" \notin toRead => page \ moved = (Matching \cap conf) \ moved
            /\ "unconfirmed" \notin toRead => seen \ moved = Matching \ (conf \cup moved)

LEMMA BalanceStep == TypeInv /\ BalanceInv /\ [Next]_vars => BalanceInv'
<1>. SUFFICES ASSUME TypeInv, BalanceInv, [Next]_vars, kind' = "balance" PROVE BalanceInv'
  BY DEF BalanceInv
<1>0. ASSUME kind = "balance", kind' = kind,
             \/ Indexer \/ Begin \/ UNCHANGED vars \/ \E r \in toRead : ReadBalance(r)
      PROVE  BalanceInv'
  <2>1. CASE Indexer
    <3>1. UNCHANGED <<kind, pc, page, seen, toRead>>
      BY <2>1, IndexerStep DEF TypeInv, client, position
    <3>2. PICK o : /\ moved' = moved \cup {o}
                   /\ \A x : x # o => /\ x \in Matching' <=> x \in Matching
                                      /\ x \in conf' <=> x \in conf
      BY <2>1, IndexerStep DEF TypeInv, OneMoved
    <3>3. (page \ moved = (Matching \cap conf) \ moved)
            => (page' \ moved' = (Matching' \cap conf') \ moved')
      BY <3>1, <3>2
    <3>4. (seen \ moved = Matching \ (conf \cup moved))
            => (seen' \ moved' = Matching' \ (conf' \cup moved'))
      BY <3>1, <3>2
    <3>. QED BY <1>0, <3>1, <3>3, <3>4 DEF BalanceInv
  <2>2. CASE Begin BY <1>0, <2>2 DEF Begin, BalanceInv
  <2>3. CASE UNCHANGED vars
    <3>1. Matching' = Matching BY <2>3 DEF vars, store, client, Matching, Unspent
    <3>. QED BY <2>3, <3>1 DEF BalanceInv, vars, store, client, position, history
  <2>4. ASSUME NEW r \in toRead, ReadBalance(r) PROVE BalanceInv'
    <3>1. Matching' = Matching /\ conf' = conf /\ moved' = moved
      BY <2>4 DEF ReadBalance, Matching, Unspent, store, history
    <3>2. CASE r = "confirmed"
      BY <1>0, <2>4, <3>1, <3>2 DEF ReadBalance, BalanceInv
    <3>3. CASE r = "unconfirmed"
      BY <1>0, <2>4, <3>1, <3>3 DEF ReadBalance, BalanceInv
    <3>. QED BY <3>2, <3>3 DEF TypeInv, TypeOK
  <2>. QED BY <1>0, <2>1, <2>2, <2>3, <2>4
<1>1. kind' = kind
  BY IndexerStep DEF TypeInv, Next, client, Begin, More, Stop, Request, Lookup, LookupBlock,
     SelectUtxo, SelectBlocks, SelectHistory, CountHistory, ReadBalance, Answer, vars
<1>2. ~(More \/ Stop \/ Lookup \/ LookupBlock \/ SelectUtxo \/ SelectBlocks
        \/ SelectHistory \/ CountHistory)
  BY <1>1 DEF BalanceInv, More, Stop, Lookup, LookupBlock, SelectUtxo, SelectBlocks,
     SelectHistory, CountHistory
<1>. QED BY <1>0, <1>1, <1>2 DEF Next, Request

\* The two sums of a balance are right about all that did not change meanwhile.
THEOREM BalanceIsExact == Spec => []BalanceExact
<1>1. Init => BalanceInv BY DEF Init, BalanceInv
<1>2. BalanceInv => BalanceExact BY DEF BalanceInv, BalanceExact
<1>. QED BY <1>1, <1>2, InitType, TypeStep, BalanceStep, PTL DEF Spec

-----------------------------------------------------------------------------
(* Lists of unspent outputs.                                               *)

\* What was listed lies below the flag, and below the row of the flag when it was
\* found; a page lies between both.
DisjointInv ==
    kind \in FlagKinds /\ broken \cap {"lost", "unordered"} = {} =>
        /\ \A o \in seen : o <= last
        /\ pc = "select" => page = {} /\ \A o \in seen : o <= from
        /\ pc = "lookup" => page = {}
        /\ pc = "page" => page \cap seen = {} /\ \A o \in page : o <= last
        /\ page \cap seen = {}

\* All rows up to the flag that were there all the time are listed, and all of them
\* once a page is empty.
CompleteInv ==
    kind \in FlagKinds /\ "unordered" \notin broken =>
        /\ pc \in {"lookup", "page"} =>
              \A o \in Matching \ moved : o <= last => o \in seen \cup page
        /\ pc = "select" => \A o \in Matching \ moved : o <= from => o \in seen
        /\ pc = "lookup" => page = {}
        /\ pc = "page" /\ page = {} => Matching \ moved \subseteq seen
        /\ pc = "done" => Matching \ moved \subseteq seen \cup page
        /\ pc \in {"idle", "lookup", "select", "page", "done"}

\* A page that came in the order of the cursors.
LEMMA SelectOrdered ==
    ASSUME TypeOK, SelectUtxo, "unordered" \notin broken'
    PROVE  /\ pc = "select" /\ pc' = "page" /\ broken' = broken
           /\ UNCHANGED <<store, kind, from, seen, moved>>
           /\ page' \subseteq {o \in Matching : o > from}
           /\ \A o \in page' : o <= last'
           /\ page' = {} => last' = last
           /\ page' # {} => last' \in page'
           /\ \A o \in Matching : from < o /\ o <= last' /\ page' # {} => o \in page'
           /\ page' = {} => \A o \in Matching : o <= from
<1>. DEFINE S == {o \in Matching : o > from}
<1>a. PICK p \in Cuts(S) : \E l \in Ends(p) :
        /\ Answer(p, l)
        /\ broken' = IF InOrder(S, p, l) THEN broken ELSE broken \cup {"unordered"}
  BY DEF SelectUtxo
<1>b. PICK l \in Ends(p) :
        /\ Answer(p, l)
        /\ broken' = IF InOrder(S, p, l) THEN broken ELSE broken \cup {"unordered"}
  BY <1>a
<1>1. Answer(p, l) /\ pc = "select" BY <1>b DEF SelectUtxo
<1>2. S \in SUBSET Matching OBVIOUS
<1>3. /\ p \subseteq S
      /\ p # {} => l \in p
      /\ p = {} => l = last
      /\ pc' = "page" /\ page' = p /\ last' = l
  BY <1>1, <1>2, AnswerType
<1>4. InOrder(S, p, l) /\ broken' = broken BY <1>b
<1>5. Matching \subseteq 1..N BY MatchingType
<1>6. p = {} => S = {} BY <1>2, <1>5, CutsEmpty
<1>7. from \in Int BY QueriesAssumption DEF TypeOK, Beyond
<1>8. ASSUME NEW o \in Matching, from < o, o <= last', page' # {} PROVE o \in page'
  <2>1. o \in S BY <1>7, <1>8, <1>5
  <2>2. l \in p BY <1>3, <1>8
  <2>3. Matching \subseteq Int BY <1>5, QueriesAssumption
  <2>4. l \in Int /\ o \in Int BY <1>3, <2>2, <2>3
  <2>. QED BY <1>3, <1>4, <1>8, <2>1, <2>2, <2>4 DEF InOrder
<1>9. page' = {} => \A o \in Matching : o <= from
  BY <1>3, <1>5, <1>6, <1>7
<1>. QED BY <1>1, <1>3, <1>4, <1>8, <1>9 DEF Answer, InOrder

LEMMA DisjointStep == TypeInv /\ DisjointInv /\ [Next]_vars => DisjointInv'
<1>. SUFFICES ASSUME TypeInv, DisjointInv, [Next]_vars,
                     kind' \in FlagKinds, broken' \cap {"lost", "unordered"} = {}
              PROVE  DisjointInv'
  BY DEF DisjointInv
<1>1. CASE Indexer
  BY <1>1, IndexerStep DEF DisjointInv, TypeInv, client, position
<1>2. CASE Begin BY <1>2 DEF Begin, DisjointInv, FlagKinds
<1>3. CASE More BY <1>3 DEF More, DisjointInv, FlagKinds, history
<1>4. CASE Stop BY <1>4 DEF Stop, DisjointInv, history, position
<1>5. CASE Lookup BY <1>5 DEF Lookup, DisjointInv
<1>6. CASE SelectUtxo
  <2>1. DisjointInv /\ kind \in FlagKinds /\ broken \cap {"lost", "unordered"} = {}
    BY <1>6, SelectOrdered DEF TypeInv
  <2>2. seen \subseteq 1..N /\ from \in Int /\ last \in Int
    BY QueriesAssumption DEF TypeInv, TypeOK, Beyond
  <2>3. Matching \subseteq 1..N BY MatchingType DEF TypeInv
  <2>4. (\A o \in seen : o <= last /\ o <= from) /\ seen' = seen /\ Matching \subseteq Int
    BY <1>6, <2>1, <2>3, SelectOrdered, QueriesAssumption DEF TypeInv, DisjointInv
  <2>5. page' \subseteq {o \in Matching : o > from}
    BY <1>6, SelectOrdered DEF TypeInv
  <2>6. \A o \in seen' : o <= last'
    <3>1. CASE page' = {} BY <1>6, <2>4, <3>1, SelectOrdered DEF TypeInv
    <3>2. CASE page' # {}
      <4>1. last' \in page' BY <1>6, <3>2, SelectOrdered DEF TypeInv
      <4>2. last' \in Int /\ last' > from BY <2>4, <2>5, <4>1
      <4>. QED BY <2>2, <2>4, <4>2, QueriesAssumption
    <3>. QED BY <3>1, <3>2
  <2>7. page' \cap seen' = {} BY <2>2, <2>4, <2>5, QueriesAssumption
  <2>. QED BY <1>6, <2>6, <2>7, SelectOrdered DEF TypeInv, DisjointInv
<1>7. CASE UNCHANGED vars
  BY <1>7 DEF DisjointInv, vars, client, position, history
<1>8. CASE LookupBlock \/ SelectBlocks \/ SelectHistory \/ CountHistory
  BY <1>8 DEF LookupBlock, SelectBlocks, SelectHistory, CountHistory, TypeInv, LastInv, FlagKinds,
     Answer
<1>9. CASE \E r \in toRead : ReadBalance(r)
  BY <1>9 DEF ReadBalance, TypeInv, LastInv, FlagKinds
<1>. QED BY <1>1, <1>2, <1>3, <1>4, <1>5, <1>6, <1>7, <1>8, <1>9 DEF Next, Request

\* No output comes twice, unless the flag of a page was deleted.
THEOREM PagesAreDisjoint == Spec => []PagesDisjoint
<1>1. Init => DisjointInv BY DEF Init, DisjointInv
<1>2. DisjointInv => PagesDisjoint BY DEF DisjointInv, PagesDisjoint
<1>. QED BY <1>1, <1>2, InitType, TypeStep, DisjointStep, PTL DEF Spec

LEMMA CompleteStep == TypeInv /\ CompleteInv /\ [Next]_vars => CompleteInv'
<1>. SUFFICES ASSUME TypeInv, CompleteInv, [Next]_vars,
                     kind' \in FlagKinds, "unordered" \notin broken'
              PROVE  CompleteInv'
  BY DEF CompleteInv
<1>. DEFINE Same == UNCHANGED <<store, moved>> /\ kind' = kind
<1>0. Same => Matching' = Matching /\ moved' = moved
  BY DEF store, Matching, Unspent
<1>1. CASE Indexer
  <2>1. UNCHANGED <<kind, pc, last, from, page, seen>> /\ "unordered" \notin broken
    BY <1>1, IndexerStep DEF TypeInv, client, position
  <2>2. Matching' \ moved' \subseteq Matching \ moved
    BY <1>1, IndexerStep DEF TypeInv, OneMoved
  <2>. QED BY <2>1, <2>2 DEF CompleteInv
<1>2. CASE Begin
  <2>1. Matching' \subseteq 1..N
    BY <1>2, MatchingType DEF Begin, TypeInv, store, Matching, Unspent
  <2>. QED BY <1>2, <2>1, QueriesAssumption DEF Begin, CompleteInv, FlagKinds
<1>3. CASE More
  <2>1. Same BY <1>3 DEF More, history
  <2>. QED BY <1>0, <1>3, <2>1 DEF More, CompleteInv, FlagKinds, history
<1>4. CASE Stop
  <2>1. Same BY <1>4 DEF Stop, history
  <2>. QED BY <1>0, <1>4, <2>1 DEF Stop, Enough, CompleteInv, FlagKinds, history, position
<1>5. CASE Lookup
  <2>1. Same BY <1>5 DEF Lookup
  <2>2. Matching \subseteq 1..N BY MatchingType DEF TypeInv
  <2>3. from' \in {last, 0} /\ "unordered" \notin broken BY <1>5 DEF Lookup
  <2>4. \A o \in Matching : ~(o <= 0) BY <2>2, QueriesAssumption
  <2>. QED BY <1>0, <1>5, <2>1, <2>3, <2>4 DEF Lookup, CompleteInv
<1>6. CASE SelectUtxo
  <2>1. Same BY <1>6, SelectOrdered DEF TypeInv
  <2>2. CompleteInv /\ kind \in FlagKinds /\ "unordered" \notin broken /\ pc = "select"
    BY <1>6, <2>1, SelectOrdered DEF TypeInv
  <2>3. \A o \in Matching \ moved : o <= from => o \in seen
    BY <2>2 DEF CompleteInv
  <2>4. Matching \subseteq Int /\ from \in Int /\ last \in Int
    BY MatchingType, QueriesAssumption DEF TypeInv, TypeOK, Beyond
  <2>5. page' = {} => Matching \ moved \subseteq seen
    BY <1>6, <2>3, <2>4, SelectOrdered DEF TypeInv
  <2>6. ASSUME NEW o \in Matching \ moved, o <= last' PROVE o \in seen \cup page'
    <3>1. CASE page' = {} BY <2>5, <3>1
    <3>2. CASE o <= from BY <2>3, <3>2
    <3>3. CASE page' # {} /\ from < o BY <1>6, <2>6, <3>3, SelectOrdered DEF TypeInv
    <3>. QED BY <2>4, <3>1, <3>2, <3>3
  <2>7. pc' = "page" /\ seen' = seen BY <1>6, SelectOrdered DEF TypeInv
  <2>. QED BY <1>0, <2>1, <2>5, <2>6, <2>7 DEF CompleteInv
<1>7. CASE UNCHANGED vars
  <2>1. Same BY <1>7 DEF vars, store, client, history
  <2>. QED BY <1>0, <1>7, <2>1 DEF CompleteInv, vars, client, position, history
<1>8. CASE LookupBlock \/ SelectBlocks \/ SelectHistory \/ CountHistory
  BY <1>8 DEF LookupBlock, SelectBlocks, SelectHistory, CountHistory, TypeInv, LastInv, FlagKinds,
     Answer
<1>9. CASE \E r \in toRead : ReadBalance(r)
  BY <1>9 DEF ReadBalance, TypeInv, LastInv, FlagKinds
<1>. QED BY <1>1, <1>2, <1>3, <1>4, <1>5, <1>6, <1>7, <1>8, <1>9 DEF Next, Request

\* A client that took a list of unspent outputs to its end has all that stayed in it,
\* if the pages came in the order of the cursors.
THEOREM UtxosAreComplete == Spec => []UtxoComplete
<1>1. Init => CompleteInv BY DEF Init, CompleteInv
<1>2. CompleteInv => UtxoComplete BY DEF CompleteInv, UtxoComplete
<1>. QED BY <1>1, <1>2, InitType, TypeStep, CompleteStep, PTL DEF Spec

-----------------------------------------------------------------------------
(* The list of blocks.                                                     *)

HasHeight(S, b) == \E a \in S : Height[a] = Height[b]

\* The same from the top: all heights down to that of the last block are listed.
HeightsInv ==
    kind = "blocks" /\ "misread" \notin broken =>
        /\ pc \in {"lookup", "page"} =>
              \A b \in Matching \ moved :
                 last # 0 /\ Height[b] >= Height[last] => HasHeight(seen \cup page, b)
        /\ pc = "select" =>
              \A b \in Matching \ moved : Height[b] >= from => HasHeight(seen, b)
        /\ pc = "lookup" => page = {}
        /\ pc = "page" /\ page = {} => \A b \in Matching \ moved : HasHeight(seen, b)
        /\ pc = "done" => \A b \in Matching \ moved : HasHeight(seen \cup page, b)
        /\ pc \in {"idle", "lookup", "select", "page", "done"}

LEMMA HeightsStep == TypeInv /\ HeightsInv /\ [Next]_vars => HeightsInv'
<1>. SUFFICES ASSUME TypeInv, HeightsInv, [Next]_vars,
                     kind' = "blocks", "misread" \notin broken'
              PROVE  HeightsInv'
  BY DEF HeightsInv
<1>. DEFINE Same == UNCHANGED <<store, moved>> /\ kind' = kind
<1>0. Same => Matching' = Matching /\ moved' = moved
  BY DEF store, Matching, Unspent
<1>1. CASE Indexer
  <2>1. UNCHANGED <<kind, pc, last, from, page, seen>> /\ "misread" \notin broken
    BY <1>1, IndexerStep DEF TypeInv, client, position
  <2>2. Matching' \ moved' \subseteq Matching \ moved
    BY <1>1, IndexerStep DEF TypeInv, OneMoved
  <2>. QED BY <2>1, <2>2 DEF HeightsInv
<1>2. CASE Begin
  <2>1. Matching' \subseteq 1..N
    BY <1>2, MatchingType DEF Begin, TypeInv, store, Matching, Unspent
  <2>2. \A b \in Matching' : ~(Height[b] >= from')
    BY <1>2, <2>1, QueriesAssumption DEF Begin, Beyond, Blocks
  <2>. QED BY <1>2, <2>2 DEF Begin, HeightsInv
<1>3. CASE More
  <2>1. Same BY <1>3 DEF More, history
  <2>. QED BY <1>0, <1>3, <2>1 DEF More, HeightsInv, HasHeight, history
<1>4. CASE Stop
  <2>1. Same BY <1>4 DEF Stop, history
  <2>. QED BY <1>0, <1>4, <2>1 DEF Stop, Enough, HeightsInv, HasHeight, history, position
<1>5. CASE LookupBlock
  <2>1. Same BY <1>5 DEF LookupBlock
  <2>2. from' = Height[last] /\ "misread" \notin broken BY <1>5 DEF LookupBlock
  <2>3. last # 0 BY <1>5, QueriesAssumption DEF LookupBlock, TypeInv, LastInv
  <2>. QED BY <1>0, <1>5, <2>1, <2>2, <2>3 DEF LookupBlock, HeightsInv
<1>6. CASE SelectBlocks
  <2>. DEFINE S == {b \in Matching : Height[b] < from}
  <2>a. PICK p \in Cuts(S) : \E l \in Ends(p) :
          /\ Answer(p, l)
          /\ \A a \in p : Height[a] >= Height[l]
          /\ \A a \in p, b \in S \ p : Height[a] >= Height[b]
    BY <1>6 DEF SelectBlocks
  <2>b. PICK l \in Ends(p) :
          /\ Answer(p, l)
          /\ \A a \in p : Height[a] >= Height[l]
          /\ \A a \in p, b \in S \ p : Height[a] >= Height[b]
    BY <2>a
  <2>1. Same /\ broken' = broken /\ pc = "select" /\ seen' = seen
    BY <1>6, <2>b DEF SelectBlocks, Answer, history
  <2>2. \A b \in Matching \ moved : Height[b] >= from => HasHeight(seen, b)
    BY <2>1 DEF HeightsInv
  <2>3. /\ p \subseteq S
        /\ p # {} => l \in p
        /\ pc' = "page" /\ page' = p /\ last' = l
    BY <2>b, AnswerType DEF TypeInv
  <2>4. Matching \subseteq 1..N BY MatchingType DEF TypeInv
  <2>5. from \in Int /\ \A b \in Matching : Height[b] \in Int
    BY <2>4, QueriesAssumption DEF TypeInv, TypeOK, Beyond, Blocks
  <2>6. p = {} => \A b \in Matching : Height[b] >= from
    <3>1. p = {} => S = {} BY <2>4, CutsEmpty
    <3>. QED BY <2>5, <3>1
  <2>7. page' = {} => \A b \in Matching \ moved : HasHeight(seen, b)
    BY <2>2, <2>3, <2>6
  <2>8. ASSUME NEW b \in Matching \ moved, Height[b] >= Height[l]
        PROVE  HasHeight(seen \cup p, b)
    <3>1. CASE p = {} BY <2>3, <2>7, <3>1 DEF HasHeight
    <3>2. CASE Height[b] >= from BY <2>2, <3>2 DEF HasHeight
    <3>3. CASE b \in p BY <3>3 DEF HasHeight
    <3>4. CASE p # {} /\ b \in S \ p
      <4>1. l \in p /\ Height[l] >= Height[b] BY <2>b, <2>3, <3>4
      <4>2. l \in Matching BY <2>3, <4>1
      <4>3. Height[l] = Height[b] BY <2>5, <2>8, <4>1, <4>2
      <4>. QED BY <4>1, <4>3 DEF HasHeight
    <3>. QED BY <2>5, <3>1, <3>2, <3>3, <3>4
  <2>. QED BY <1>0, <2>1, <2>3, <2>7, <2>8 DEF HeightsInv, HasHeight
<1>7. CASE UNCHANGED vars
  <2>1. Same BY <1>7 DEF vars, store, client, history
  <2>. QED BY <1>0, <1>7, <2>1 DEF HeightsInv, vars, client, position, history
<1>8. CASE Lookup \/ SelectUtxo \/ SelectHistory \/ CountHistory
  BY <1>8 DEF Lookup, SelectUtxo, SelectHistory, CountHistory, TypeInv, LastInv, FlagKinds,
     Answer
<1>9. CASE \E r \in toRead : ReadBalance(r)
  BY <1>9 DEF ReadBalance, TypeInv, LastInv, FlagKinds
<1>. QED BY <1>1, <1>2, <1>3, <1>4, <1>5, <1>6, <1>7, <1>8, <1>9 DEF Next, Request

\* The list of blocks has every height that it had all the time, if no hash was taken
\* for a height.
THEOREM HeightsAreComplete == Spec => []HeightsComplete
<1>1. Init => HeightsInv BY DEF Init, HeightsInv
<1>2. HeightsInv => HeightsComplete BY DEF HeightsInv, HeightsComplete, HasHeight
<1>. QED BY <1>1, <1>2, InitType, TypeStep, HeightsStep, PTL DEF Spec

-----------------------------------------------------------------------------
(* The history.                                                            *)

\* Where a row is in the order of the history.
Rank(M, x) == Cardinality({y \in M : y >= x})

LEMMA RankType ==
    ASSUME NEW M \in SUBSET (1..N), NEW x \in M
    PROVE  Rank(M, x) \in 1..Cardinality(M) /\ Cardinality(M) \in 0..N
<1>. DEFINE A == {y \in M : y >= x}
<1>1. IsFiniteSet(M) /\ Cardinality(M) \in 0..N /\ Cardinality(A) \in 0..N /\ IsFiniteSet(A)
  BY Few
<1>2. Cardinality(A) <= Cardinality(M) BY <1>1, FS_Subset
<1>3. x \in A BY QueriesAssumption
<1>4. Cardinality(A) # 0 BY <1>1, <1>3, FS_EmptySet
<1>. QED BY <1>1, <1>2, <1>4, QueriesAssumption DEF Rank

\* More rows only push a row down.
LEMMA RankGrows ==
    ASSUME NEW L \in SUBSET (1..N), NEW M \in SUBSET L, NEW x
    PROVE  Rank(M, x) <= Rank(L, x)
<1>1. IsFiniteSet({y \in L : y >= x}) BY Few
<1>2. {y \in M : y >= x} \in SUBSET {y \in L : y >= x} OBVIOUS
<1>. QED BY <1>1, <1>2, FS_Subset DEF Rank

\* Two rows have two ranks, so there are no more rows than ranks.
LEMMA RanksBound ==
    ASSUME NEW M \in SUBSET (1..N), NEW S \in SUBSET M, NEW a \in Int, NEW b \in Int,
           \A x \in S : Rank(M, x) \in a..b
    PROVE  Cardinality(S) <= IF a > b THEN 0 ELSE b - a + 1
<1>1. ASSUME NEW x \in M, NEW y \in M, x < y PROVE Rank(M, x) # Rank(M, y)
  <2>. DEFINE A == {z \in M : z >= x}
              B == {z \in M : z >= y}
  <2>1. M \subseteq Int BY QueriesAssumption
  <2>2. /\ B \in SUBSET A
        /\ x \in A
        /\ x \notin B
    <3>1. \A z \in M : z >= y => z >= x BY <1>1, <2>1
    <3>2. x >= x /\ ~(x >= y) BY <1>1, <2>1
    <3>. QED BY <3>1, <3>2
  <2>3. IsFiniteSet(A) BY Few
  <2>4. Cardinality(A) # Cardinality(B) BY <2>2, <2>3, FS_Subset
  <2>. QED BY <2>4 DEF Rank
<1>2. M \subseteq Int BY QueriesAssumption
<1>3. \A x, y \in S : Rank(M, x) = Rank(M, y) => x = y
  BY <1>1, <1>2
<1>. DEFINE f == [x \in S |-> Rank(M, x)]
<1>4. f \in Injection(S, a..b) BY <1>3 DEF Injection, IsInjective
<1>5. IsFiniteSet(a..b) /\ Cardinality(a..b) = IF a > b THEN 0 ELSE b - a + 1
  BY FS_Interval
<1>. QED BY <1>4, <1>5, FS_Injection

\* A page is not longer than LIMIT, and when it is empty, OFFSET is behind all rows.
LEMMA RankPage ==
    ASSUME NEW M \in SUBSET (1..N), NEW i \in Nat
    PROVE  LET p == {x \in M : Rank(M, x) \in i + 1..i + PageSize} IN
           /\ Cardinality(p) \in 0..PageSize
           /\ p = {} => \A x \in M : Rank(M, x) <= i
<1>. DEFINE p == {x \in M : Rank(M, x) \in i + 1..i + PageSize}
            D == {x \in M : Rank(M, x) <= i}
<1>1. IsFiniteSet(M) /\ Cardinality(M) \in 0..N /\ PageSize \in Nat \ {0}
  BY Few, QueriesAssumption
<1>2. Cardinality(p) \in 0..PageSize
  <2>. DEFINE a == i + 1
              b == i + PageSize
  <2>0. a \in Int /\ b \in Int /\ p \in SUBSET M BY <1>1
  <2>3. \A x \in p : Rank(M, x) \in a..b OBVIOUS
  <2>. HIDE DEF a, b, p
  <2>4. Cardinality(p) <= IF a > b THEN 0 ELSE b - a + 1
    BY <2>0, <2>3, RanksBound
  <2>1. p \in SUBSET (1..N) BY <2>0
  <2>2. Cardinality(p) \in 0..N BY <2>1, Few
  <2>. QED BY <1>1, <2>2, <2>4 DEF a, b
<1>3. ASSUME p = {} PROVE M \ D = {}
  <2>1. \A x \in M : Rank(M, x) \in 1..Cardinality(M) BY RankType
  <2>2. \A x \in D : Rank(M, x) \in 1..i BY <2>1
  <2>3. \A x \in M \ D : Rank(M, x) \in i + PageSize + 1..Cardinality(M)
    BY <1>1, <1>3, <2>1
  <2>4. Cardinality(D) <= i
    <3>. DEFINE a == 1
                b == i
    <3>1. a \in Int /\ b \in Int /\ D \in SUBSET M OBVIOUS
    <3>2. \A x \in D : Rank(M, x) \in a..b BY <2>2
    <3>. HIDE DEF a, b, D
    <3>3. Cardinality(D) <= IF a > b THEN 0 ELSE b - a + 1
      BY <3>1, <3>2, RanksBound
    <3>4. IsFiniteSet(D) BY <3>1, Few
    <3>5. Cardinality(D) \in Nat BY <3>4, FS_CardinalityType
    <3>. QED BY <3>3, <3>5 DEF a, b
  <2>5. Cardinality(M \ D) <= IF i + PageSize + 1 > Cardinality(M) THEN 0
                              ELSE Cardinality(M) - (i + PageSize + 1) + 1
    <3>. DEFINE a == i + PageSize + 1
                b == Cardinality(M)
                U == M \ D
    <3>1. a \in Int /\ b \in Int /\ U \in SUBSET M BY <1>1
    <3>2. \A x \in U : Rank(M, x) \in a..b BY <2>3
    <3>. HIDE DEF a, b, U
    <3>3. Cardinality(U) <= IF a > b THEN 0 ELSE b - a + 1
      BY <3>1, <3>2, RanksBound
    <3>. QED BY <3>3 DEF a, b, U
  <2>6. /\ IsFiniteSet(M \ D) /\ Cardinality(M \ D) \in Nat
        /\ IsFiniteSet(D) /\ Cardinality(D) \in Nat
    BY Few
  <2>7. Cardinality(M \ D) = Cardinality(M) - Cardinality(D)
    <3>1. M \cap D = D OBVIOUS
    <3>. QED BY <1>1, <3>1, FS_Difference
  <2>8. Cardinality(M \ D) = 0 BY <1>1, <2>4, <2>5, <2>6, <2>7
  <2>. QED BY <2>6, <2>8, FS_EmptySet
<1>. QED BY <1>2, <1>3

\* Rows that were there all the time and are above the offset are listed; after the
\* page, those above its end; all of them when the count is reached.
HistoryInv ==
    kind = "history" /\ "left" \notin broken =>
        /\ pc = "select" =>
              \A x \in Matching \ moved : Rank(Matching, x) <= from => x \in seen
        /\ pc \in {"count", "page"} =>
              /\ \A x \in Matching \ moved :
                    Rank(Matching, x) <= from + Cardinality(page) => x \in seen \cup page
              /\ page = {} => Matching \ moved \subseteq seen
        /\ pc = "page" /\ from + Cardinality(page) >= total =>
              Matching \ moved \subseteq seen \cup page
        /\ pc = "done" => Matching \ moved \subseteq seen \cup page
        /\ pc \in {"idle", "select", "count", "page", "done"}

LEMMA HistoryStep == TypeInv /\ HistoryInv /\ [Next]_vars => HistoryInv'
<1>. SUFFICES ASSUME TypeInv, HistoryInv, [Next]_vars,
                     kind' = "history", "left" \notin broken'
              PROVE  HistoryInv'
  BY DEF HistoryInv
<1>. DEFINE Same == UNCHANGED <<store, moved>> /\ kind' = kind
<1>0. /\ Same => Matching' = Matching /\ moved' = moved
      /\ Matching \in SUBSET (1..N)
      /\ from \in Nat /\ total \in Nat /\ Cardinality(page) \in Nat
      /\ \A x \in Matching : Rank(Matching, x) \in 1..Cardinality(Matching)
      /\ Cardinality(Matching) \in Nat
  <2>1. Cardinality(page) \in Nat /\ Cardinality(Matching) \in Nat
    BY Few, MatchingType DEF TypeInv, TypeOK
  <2>2. Matching \in SUBSET (1..N) BY MatchingType DEF TypeInv
  <2>3. \A x \in Matching : Rank(Matching, x) \in 1..Cardinality(Matching)
    BY <2>2, RankType
  <2>4. from \in Nat /\ total \in Nat BY QueriesAssumption DEF TypeInv, TypeOK, Beyond
  <2>5. Same => Matching' = Matching /\ moved' = moved
    BY DEF store, Matching, Unspent
  <2>. QED BY <2>1, <2>2, <2>3, <2>4, <2>5
<1>1. CASE Indexer
  <2>1. UNCHANGED <<kind, pc, from, page, seen, total>> /\ "left" \notin broken
    BY <1>1, IndexerStep DEF TypeInv, client, position
  <2>2. Matching' \ moved' \subseteq Matching \ moved
    BY <1>1, IndexerStep DEF TypeInv, OneMoved
  <2>3. Matching \subseteq Matching' BY <1>1, IndexerStep DEF TypeInv
  <2>4. Matching' \in SUBSET (1..N)
    BY <1>1, IndexerStep, MatchingType, QueriesAssumption DEF TypeInv, TypeOK, Matching, Unspent, Outs, Blocks, FlagKinds, Kinds
  <2>5. \A x \in Matching' \ moved' : \A n \in Nat :
            Rank(Matching', x) <= n => Rank(Matching, x) <= n
    <3>. SUFFICES ASSUME NEW x \in Matching' \ moved'
                  PROVE  \A n \in Nat : Rank(Matching', x) <= n => Rank(Matching, x) <= n
      OBVIOUS
    <3>1. Rank(Matching, x) <= Rank(Matching', x) BY <2>3, <2>4, RankGrows
    <3>2. Rank(Matching, x) \in Int
      <4>1. x \in Matching BY <2>2
      <4>. QED BY <1>0, <4>1
    <3>3. Rank(Matching', x) \in Int BY <2>4, RankType
    <3>. QED BY <3>1, <3>2, <3>3
  <2>6. from + Cardinality(page) \in Nat BY <1>0
  <2>. QED BY <1>0, <2>1, <2>2, <2>5, <2>6 DEF HistoryInv
<1>2. CASE Begin
  <2>1. Matching' = Matching BY <1>2 DEF Begin, store, Matching, Unspent
  <2>. QED BY <1>0, <1>2, <2>1 DEF Begin, HistoryInv
<1>3. CASE More
  <2>1. Same BY <1>3 DEF More, history
  <2>. QED BY <1>0, <1>3, <2>1 DEF More, HistoryInv, history
<1>4. CASE Stop
  <2>1. Same BY <1>4 DEF Stop, history
  <2>. QED BY <1>0, <1>4, <2>1 DEF Stop, Enough, HistoryInv, history, position
<1>5. CASE SelectHistory
  <2>1. Same BY <1>5 DEF SelectHistory, history
  <2>2. /\ \A x \in Matching \ moved : Rank(Matching, x) <= from => x \in seen
        /\ "left" \notin broken
    BY <1>5, <2>1 DEF SelectHistory, HistoryInv, history
  <2>3. page' = {x \in Matching : Rank(Matching, x) \in from + 1..from + PageSize}
    BY <1>5 DEF SelectHistory, Rank
  <2>4. /\ Cardinality(page') \in 0..PageSize
        /\ page' = {} => \A x \in Matching : Rank(Matching, x) <= from
    BY <1>0, <2>3, RankPage
  <2>5. ASSUME NEW x \in Matching \ moved, Rank(Matching, x) <= from + Cardinality(page')
        PROVE  x \in seen \cup page'
    <3>1. CASE Rank(Matching, x) <= from BY <2>2, <3>1
    <3>2. CASE Rank(Matching, x) > from
      <4>1. Rank(Matching, x) \in from + 1..from + PageSize
        BY <1>0, <2>4, <2>5, <3>2, QueriesAssumption
      <4>. QED BY <2>3, <4>1
    <3>. QED BY <1>0, <3>1, <3>2
  <2>6. page' = {} => Matching \ moved \subseteq seen BY <2>2, <2>4
  <2>7. pc' = "count" /\ seen' = seen /\ from' = from BY <1>5 DEF SelectHistory
  <2>. QED BY <1>0, <2>1, <2>5, <2>6, <2>7 DEF HistoryInv
<1>6. CASE CountHistory
  <2>1. Same BY <1>6 DEF CountHistory, history
  <2>2. total' = Cardinality(Matching)
    BY <1>6, <2>1 DEF CountHistory, Count, Matching, FlagKinds
  <2>3. /\ \A x \in Matching \ moved :
              Rank(Matching, x) <= from + Cardinality(page) => x \in seen \cup page
        /\ page = {} => Matching \ moved \subseteq seen
    BY <1>6, <2>1 DEF CountHistory, HistoryInv, history
  <2>4. ASSUME from + Cardinality(page) >= total', NEW x \in Matching \ moved
        PROVE  x \in seen \cup page
    <3>1. Rank(Matching, x) \in 1..Cardinality(Matching) BY <1>0
    <3>2. Rank(Matching, x) <= from + Cardinality(page) BY <1>0, <2>2, <2>4, <3>1
    <3>. QED BY <2>3, <3>2
  <2>. QED BY <1>0, <1>6, <2>1, <2>3, <2>4 DEF CountHistory, HistoryInv
<1>7. CASE UNCHANGED vars
  <2>1. Same BY <1>7 DEF vars, store, client, history
  <2>. QED BY <1>0, <1>7, <2>1 DEF HistoryInv, vars, client, position, history
<1>8. CASE Lookup \/ LookupBlock \/ SelectUtxo \/ SelectBlocks
  BY <1>8 DEF Lookup, LookupBlock, SelectUtxo, SelectBlocks, FlagKinds, Answer
<1>9. CASE \E r \in toRead : ReadBalance(r)
  BY <1>9 DEF ReadBalance, TypeInv, LastInv
<1>. QED BY <1>1, <1>2, <1>3, <1>4, <1>5, <1>6, <1>7, <1>8, <1>9 DEF Next, Request

\* A client that took the history to its end has all that stayed in it, if no row
\* left it.
THEOREM HistoryIsComplete == Spec => []HistoryComplete
<1>1. Init => HistoryInv BY DEF Init, HistoryInv
<1>2. HistoryInv => HistoryComplete BY DEF HistoryInv, HistoryComplete
<1>. QED BY <1>1, <1>2, InitType, TypeStep, HistoryStep, PTL DEF Spec
=============================================================================
