-------------------------- MODULE BlockIndex_proofs --------------------------
(***************************************************************************)
(* Proofs about BlockIndex: its types, and that a block reported completed *)
(* is stored or still in memory, for every number of blocks, every size of *)
(* block, batch, chunk and pool, and every number of faults.               *)
(***************************************************************************)
EXTENDS BlockIndex, TLAPS, SequenceTheorems, FiniteSetTheorems

-----------------------------------------------------------------------------
(* The elements of a sequence *)

LEMMA ElemsAppend ==
    ASSUME NEW S, NEW s \in Seq(S), NEW x \in S
    PROVE  /\ Elems(Append(s, x)) = Elems(s) \cup {x}
           /\ Append(s, x) \in Seq(S) /\ Append(s, x) # <<>>
BY AppendProperties DEF Elems

LEMMA ElemsTail ==
    ASSUME NEW S, NEW s \in Seq(S), s # <<>>
    PROVE  /\ Elems(s) = {Head(s)} \cup Elems(Tail(s))
           /\ Head(s) \in S
           /\ Tail(s) \in Seq(S)
<1>1. /\ Head(s) \in S /\ Head(s) = s[1] /\ Tail(s) \in Seq(S)
      /\ Len(Tail(s)) = Len(s) - 1 /\ Len(s) \in Nat /\ Len(s) >= 1
      /\ \A i \in 1..Len(Tail(s)) : Tail(s)[i] = s[i + 1]
  BY HeadTailProperties, EmptySeq, LenProperties
<1>2. ASSUME NEW k \in 1..Len(s) PROVE s[k] \in {Head(s)} \cup Elems(Tail(s))
  <2>1. CASE k = 1 BY <1>1, <2>1
  <2>2. CASE k # 1
    <3>1. k - 1 \in 1..Len(Tail(s)) /\ Tail(s)[k - 1] = s[k] BY <1>1, <2>2
    <3>. QED BY <3>1 DEF Elems
  <2>. QED BY <2>1, <2>2
<1>3. ASSUME NEW k \in 1..Len(Tail(s)) PROVE Tail(s)[k] \in Elems(s)
  <2>1. k + 1 \in 1..Len(s) /\ Tail(s)[k] = s[k + 1] BY <1>1
  <2>. QED BY <2>1 DEF Elems
<1>4. Head(s) \in Elems(s) BY <1>1 DEF Elems
<1>5. Elems(s) \subseteq {Head(s)} \cup Elems(Tail(s)) BY <1>2 DEF Elems
<1>6. Elems(Tail(s)) \subseteq Elems(s) BY <1>3 DEF Elems
<1>. QED BY <1>1, <1>4, <1>5, <1>6

LEMMA ElemsConcat ==
    ASSUME NEW S, NEW s \in Seq(S), NEW u \in Seq(S)
    PROVE  /\ Elems(s \o u) = Elems(s) \cup Elems(u)
           /\ s \o u \in Seq(S)
<1>1. /\ s \o u \in Seq(S) /\ Len(s \o u) = Len(s) + Len(u)
      /\ Len(s) \in Nat /\ Len(u) \in Nat
      /\ \A i \in 1..Len(s) + Len(u) :
            (s \o u)[i] = IF i <= Len(s) THEN s[i] ELSE u[i - Len(s)]
  BY ConcatProperties, LenProperties
<1>2. ASSUME NEW k \in 1..Len(s \o u) PROVE (s \o u)[k] \in Elems(s) \cup Elems(u)
  <2>1. CASE k <= Len(s)
    <3>1. k \in 1..Len(s) /\ (s \o u)[k] = s[k] BY <1>1, <2>1
    <3>. QED BY <3>1 DEF Elems
  <2>2. CASE ~(k <= Len(s))
    <3>1. k - Len(s) \in 1..Len(u) /\ (s \o u)[k] = u[k - Len(s)] BY <1>1, <2>2
    <3>. QED BY <3>1 DEF Elems
  <2>. QED BY <2>1, <2>2
<1>3. ASSUME NEW k \in 1..Len(s) PROVE s[k] \in Elems(s \o u)
  <2>1. k \in 1..Len(s \o u) /\ (s \o u)[k] = s[k] BY <1>1
  <2>. QED BY <2>1 DEF Elems
<1>4. ASSUME NEW k \in 1..Len(u) PROVE u[k] \in Elems(s \o u)
  <2>1. k + Len(s) \in 1..Len(s \o u) /\ (s \o u)[k + Len(s)] = u[k] BY <1>1
  <2>. QED BY <2>1 DEF Elems
<1>5. Elems(s \o u) \subseteq Elems(s) \cup Elems(u) BY <1>2 DEF Elems
<1>6. Elems(s) \subseteq Elems(s \o u) BY <1>3 DEF Elems
<1>7. Elems(u) \subseteq Elems(s \o u) BY <1>4 DEF Elems
<1>. QED BY <1>1, <1>5, <1>6, <1>7

-----------------------------------------------------------------------------
(* Transactions, and the two sequences P puts behind the queue *)

LEMMA TxOfBlock ==
    ASSUME NEW b \in Blocks, NEW i \in 1..NumTx[b]
    PROVE  <<b, i>> \in AllTx /\ <<b, i>> \in Txs(b)
BY DEF AllTx, Txs

LEMMA LastTxType ==
    ASSUME NEW b \in Blocks
    PROVE  /\ NumTx[b] \in Nat \ {0}
           /\ LastTx(b) \in AllTx /\ LastTx(b) \in Txs(b)
<1>1. NumTx[b] \in Nat \ {0} BY BlockIndexAssumption
<1>2. NumTx[b] \in 1..NumTx[b] BY <1>1
<1>. QED BY <1>1, <1>2, TxOfBlock DEF LastTx

LEMMA AllTxElim ==
    ASSUME NEW t \in AllTx
    PROVE  /\ t[1] \in Blocks /\ t[2] \in 1..NumTx[t[1]]
           /\ t = <<t[1], t[2]>> /\ t \in Txs(t[1])
<1>1. PICK b \in Blocks : t \in Txs(b) BY DEF AllTx
<1>2. PICK i \in 1..NumTx[b] : t = <<b, i>> BY <1>1 DEF Txs
<1>3. t[1] = b /\ t[2] = i BY <1>2
<1>. QED BY <1>1, <1>2, <1>3

LEMMA BurstSeq ==
    ASSUME NEW b \in Blocks
    PROVE  /\ Burst(b) \in Seq(AllTx)
           /\ Elems(Burst(b)) = {<<b, i>> : i \in 1..(NumTx[b] - 1)}
           /\ Len(Burst(b)) = NumTx[b] - 1
           /\ \A k \in 1..(NumTx[b] - 1) : Burst(b)[k] = <<b, k>>
<1>1. NumTx[b] \in Nat \ {0} BY BlockIndexAssumption
<1>2. \A i \in 1..(NumTx[b] - 1) : <<b, i>> \in AllTx
  BY <1>1, TxOfBlock
<1>3. Burst(b) \in [1..(NumTx[b] - 1) -> AllTx] BY <1>2 DEF Burst
<1>4. Burst(b) \in Seq(AllTx) BY <1>1, <1>3, SeqDef
<1>5. Len(Burst(b)) = NumTx[b] - 1
  BY <1>1, <1>3, <1>4, LenProperties DEF Burst
<1>. QED BY <1>4, <1>5 DEF Burst, Elems

LEMMA LastsSeq ==
    ASSUME NEW p \in Seq(Blocks)
    PROVE  LET l == [k \in 1..Len(p) |-> LastTx(p[k])]
           IN  /\ l \in Seq(AllTx) /\ Len(l) = Len(p)
               /\ Elems(l) = {LastTx(b) : b \in Elems(p)}
<1>. DEFINE l == [k \in 1..Len(p) |-> LastTx(p[k])]
<1>1. Len(p) \in Nat /\ \A k \in 1..Len(p) : p[k] \in Blocks
  BY LenProperties, ElementOfSeq
<1>2. l \in [1..Len(p) -> AllTx] BY <1>1, LastTxType
<1>3. l \in Seq(AllTx) BY <1>1, <1>2, SeqDef
<1>4. Len(l) = Len(p) BY <1>1, <1>3, LenProperties
<1>5. Elems(l) = {LastTx(b) : b \in Elems(p)} BY <1>4 DEF Elems
<1>. QED BY <1>3, <1>4, <1>5

LEMMA Finite ==
    /\ \A S : S \subseteq Blocks => Cardinality(S) \in Nat
    /\ \A b \in Blocks : \A S : S \subseteq Txs(b) => Cardinality(S) \in Nat
<1>1. IsFiniteSet(Blocks) BY BlockIndexAssumption, FS_Interval DEF Blocks
<1>2. ASSUME NEW b \in Blocks PROVE IsFiniteSet(Txs(b))
  <2>1. NumTx[b] \in Nat BY BlockIndexAssumption
  <2>2. IsFiniteSet(1..NumTx[b]) BY <2>1, FS_Interval
  <2>3. IsFiniteSet({b}) BY FS_Singleton
  <2>. QED BY <2>2, <2>3, FS_Product DEF Txs
<1>. QED BY <1>1, <1>2, FS_Subset, FS_CardinalityType
-----------------------------------------------------------------------------
(* Type correctness *)

LEMMA InitType == Init => TypeOK
<1>. SUFFICES ASSUME Init PROVE TypeOK OBVIOUS
<1>1. plast \in Seq(Blocks) /\ queue \in Seq(AllTx) /\ batch \in Seq(AllTx)
  BY EmptySeq DEF Init
<1>2. /\ rows \in [Tables -> SUBSET AllTx] /\ tleft \in [Tables -> SUBSET AllTx]
      /\ faults \in [FaultKinds -> Nat]
      /\ cread \in [Blocks -> [{"sum", "ins", "outs"} -> Int]]
  BY DEF Init, NoRead
<1>. QED BY <1>1, <1>2 DEF Init, TypeOK, Statuses, DStages, PStages, CStages

LEMMA FaultType ==
    ASSUME faults \in [FaultKinds -> Nat], NEW k \in FaultKinds, Fault(k)
    PROVE  faults' \in [FaultKinds -> Nat]
BY DEF Fault

LEMMA DType ==
    ASSUME TypeOK, DNext
    PROVE  TypeOK'
<1>. USE DEF db, disk, dvars, pvars, tvars, cvars
<1>1. CASE DCount
  <2>1. dcap' \in Nat
    <3>1. Cardinality(WithStatus({"downloaded"})) \in Nat BY Finite DEF WithStatus
    <3>2. BlockCacheNumber \in Nat BY BlockIndexAssumption
    <3>. QED BY <1>1, <3>1, <3>2 DEF DCount
  <2>. QED BY <1>1, <2>1 DEF DCount, TypeOK
<1>2. CASE DSelect
  <2>1. dstage' \in [Blocks -> DStages] BY <1>2 DEF DSelect, DStages
  <2>. QED BY <1>2, <2>1 DEF DSelect, TypeOK
<1>3. ASSUME NEW b \in Blocks, DStart(b) PROVE TypeOK'
  BY <1>3 DEF DStart, SetStatus, TypeOK, Statuses, DStages
<1>4. ASSUME NEW b \in Blocks, DRpc(b) PROVE TypeOK'
  <2>1. faults' \in [FaultKinds -> Nat]
    BY <1>4, FaultType DEF DRpc, TypeOK, FaultKinds
  <2>. QED BY <1>4, <2>1 DEF DRpc, TypeOK, DStages
<1>5. ASSUME NEW b \in Blocks, DRpcFail(b) PROVE TypeOK'
  <2>1. faults' \in [FaultKinds -> Nat]
    BY <1>5, FaultType DEF DRpcFail, TypeOK, FaultKinds
  <2>. QED BY <1>5, <2>1 DEF DRpcFail, TypeOK, DStages
<1>6. ASSUME NEW b \in Blocks, DDone(b) PROVE TypeOK'
  BY <1>6 DEF DDone, SetStatus, TypeOK, Statuses, DStages
<1>7. ASSUME NEW b \in Blocks, DFail(b) PROVE TypeOK'
  <2>1. faults' \in [FaultKinds -> Nat]
    BY <1>7, FaultType DEF DFail, TypeOK, FaultKinds
  <2>. QED BY <1>7, <2>1 DEF DFail, TypeOK, DStages
<1>. QED BY <1>1, <1>2, <1>3, <1>4, <1>5, <1>6, <1>7 DEF DNext

LEMMA PType ==
    ASSUME TypeOK, PNext
    PROVE  TypeOK'
<1>. USE DEF db, disk, dvars, pvars, tvars, cvars
<1>1. CASE PBoot BY <1>1 DEF PBoot, TypeOK, PStages
<1>2. CASE PSelect BY <1>2 DEF PSelect, TypeOK, PStages
<1>3. CASE PEnd
  <2>1. queue' \in Seq(AllTx)
    BY <1>3, LastsSeq, ElemsConcat DEF PEnd, TypeOK
  <2>. QED BY <1>3, <2>1, EmptySeq DEF PEnd, TypeOK
<1>4. ASSUME NEW b \in Blocks, PSelectAgain(b) PROVE TypeOK'
  <2>1. faults' \in [FaultKinds -> Nat]
    BY <1>4, FaultType DEF PSelectAgain, TypeOK, FaultKinds
  <2>. QED BY <1>4, <2>1 DEF PSelectAgain, TypeOK, PStages
<1>5. ASSUME NEW b \in Blocks, PStart(b) PROVE TypeOK'
  BY <1>5 DEF PStart, TypeOK, PStages
<1>6. ASSUME NEW b \in Blocks, PReset(b) PROVE TypeOK'
  BY <1>6 DEF PReset, SetStatus, TypeOK, PStages, Statuses
<1>7. ASSUME NEW b \in Blocks, PMark(b) PROVE TypeOK'
  <2>1. queue' \in Seq(AllTx) BY <1>7, BurstSeq, ElemsConcat DEF PMark, TypeOK
  <2>. QED BY <1>7, <2>1 DEF PMark, SetStatus, TypeOK, PStages, Statuses
<1>8. ASSUME NEW b \in Blocks, PSave(b) PROVE TypeOK'
  <2>1. faults' \in [FaultKinds -> Nat]
    BY <1>8, FaultType DEF PSave, TypeOK, FaultKinds
  <2>2. status' \in [Blocks -> Statuses]
    BY <1>8 DEF PSave, SetStatus, TypeOK, Statuses
  <2>3. plast' \in Seq(Blocks) /\ queue' \in Seq(AllTx)
    <3>1. Append(plast, b) \in Seq(Blocks) BY ElemsAppend DEF TypeOK
    <3>2. Append(queue, LastTx(b)) \in Seq(AllTx) BY LastTxType, ElemsAppend DEF TypeOK
    <3>. QED BY <1>8, <3>1, <3>2 DEF PSave, TypeOK
  <2>. QED BY <1>8, <2>1, <2>2, <2>3 DEF PSave, TypeOK, PStages
<1>9. ASSUME NEW b \in Blocks, PFail(b) PROVE TypeOK'
  <2>1. faults' \in [FaultKinds -> Nat]
    BY <1>9, FaultType DEF PFail, TypeOK, FaultKinds
  <2>. QED BY <1>9, <2>1 DEF PFail, TypeOK, PStages
<1>. QED BY <1>1, <1>2, <1>3, <1>4, <1>5, <1>6, <1>7, <1>8, <1>9 DEF PNext

LEMMA TType ==
    ASSUME TypeOK, TNext
    PROVE  TypeOK'
<1>. USE DEF db, disk, dvars, pvars, tvars, cvars
<1>1. CASE TTake
  <2>1. /\ batch' \in Seq(AllTx) /\ queue' \in Seq(AllTx)
    BY <1>1, ElemsTail, ElemsAppend DEF TTake, TypeOK
  <2>2. Elems(batch') \subseteq AllTx
    BY <2>1, LenProperties, ElementOfSeq DEF Elems
  <2>3. tleft' \in [Tables -> SUBSET AllTx] /\ tphase' \in {"take", "save"}
    BY <1>1, <2>2 DEF TTake, TypeOK, RowsIn
  <2>4. batch' # <<>>
    <3>1. Head(queue) \in AllTx BY <1>1, ElemsTail DEF TTake, TypeOK
    <3>. QED BY <1>1, <3>1, ElemsAppend DEF TTake, TypeOK
  <2>. QED BY <1>1, <2>1, <2>3, <2>4 DEF TTake, TypeOK
<1>2. CASE TThrow
  <2>1. faults' \in [FaultKinds -> Nat]
    BY <1>2, FaultType DEF TThrow, TypeOK, FaultKinds
  <2>2. queue' \in Seq(AllTx) /\ batch' \in Seq(AllTx)
    BY <1>2, ElemsTail, EmptySeq DEF TThrow, TypeOK
  <2>. QED BY <1>2, <2>1, <2>2 DEF TThrow, TypeOK
<1>3. CASE TFlushed
  <2>1. queue' \in Seq(AllTx) /\ batch' \in Seq(AllTx)
    <3>1. queue \o batch \in Seq(AllTx) /\ <<>> \in Seq(AllTx)
      BY ElemsConcat, EmptySeq DEF TypeOK
    <3>. QED BY <1>3, <3>1 DEF TFlushed, TypeOK
  <2>2. tphase' \in {"take", "end"} /\ (tphase' # "take" => batch' # <<>>)
    BY <1>3 DEF TFlushed, TypeOK
  <2>. QED BY <1>3, <2>1, <2>2 DEF TFlushed, TypeOK
<1>4. CASE TEnd
  <2>1. /\ Head(batch) \in AllTx /\ batch' \in Seq(AllTx)
        /\ Len(batch') = Len(batch) - 1 /\ Len(batch) \in Nat
    BY <1>4, HeadTailProperties, LenProperties DEF TEnd, TypeOK
  <2>2. Head(batch)[1] \in Blocks BY <2>1, AllTxElim
  <2>3. status' \in [Blocks -> Statuses] /\ rmPending' \subseteq Blocks
    BY <1>4, <2>2 DEF TEnd, SetStatus, TypeOK, Statuses
  <2>4. tphase' # "take" => batch' # <<>>
    <3>1. Len(batch) # 0 BY <1>4, EmptySeq DEF TEnd, TypeOK
    <3>2. batch' = <<>> => Len(batch) = 1 BY <2>1, EmptySeq
    <3>. QED BY <1>4, <3>2 DEF TEnd
  <2>. QED BY <1>4, <2>1, <2>3, <2>4 DEF TEnd, TypeOK
<1>5. CASE TEndFail
  <2>1. faults' \in [FaultKinds -> Nat]
    BY <1>5, FaultType DEF TEndFail, TypeOK, FaultKinds
  <2>. QED BY <1>5, <2>1, EmptySeq DEF TEndFail, TypeOK
<1>6. ASSUME NEW tbl \in Tables, NEW chunk \in SUBSET tleft[tbl], TChunk(tbl, chunk)
      PROVE  TypeOK'
  <2>1. faults' \in [FaultKinds -> Nat] /\ tfailed' \in BOOLEAN
    BY <1>6, FaultType DEF TChunk, TypeOK, FaultKinds
  <2>2. chunk \subseteq AllTx BY <1>6 DEF TypeOK
  <2>3. rows' \in [Tables -> SUBSET AllTx] /\ tleft' \in [Tables -> SUBSET AllTx]
    BY <1>6, <2>2 DEF TChunk, TypeOK
  <2>. QED BY <1>6, <2>1, <2>3 DEF TChunk, TypeOK
<1>. QED BY <1>1, <1>2, <1>3, <1>4, <1>5, <1>6 DEF TNext

LEMMA CType ==
    ASSUME TypeOK, CNext
    PROVE  TypeOK'
<1>. USE DEF db, disk, dvars, pvars, tvars, cvars
<1>1. CASE CGate BY <1>1 DEF CGate, TypeOK
<1>2. CASE CList BY <1>2 DEF CList, TypeOK, CStages
<1>3. ASSUME NEW b \in Blocks, CStart(b) PROVE TypeOK'
  BY <1>3 DEF CStart, TypeOK, CStages
<1>4. ASSUME NEW b \in Blocks, CDecide(b) PROVE TypeOK'
  BY <1>4 DEF CDecide, SetStatus, TypeOK, CStages, Statuses, NoRead
<1>5. ASSUME NEW b \in Blocks, CTick(b) PROVE TypeOK'
  BY <1>5 DEF CTick, TypeOK, CStages, TxRows, Tables
<1>6. ASSUME NEW b \in Blocks, CFail(b) PROVE TypeOK'
  <2>1. faults' \in [FaultKinds -> Nat]
    BY <1>6, FaultType DEF CFail, TypeOK, FaultKinds
  <2>. QED BY <1>6, <2>1 DEF CFail, TypeOK, CStages, NoRead
<1>7. ASSUME NEW b \in Blocks, NEW q \in DOMAIN NoRead, CRead(b, q) PROVE TypeOK'
  <2>1. q \in {"sum", "ins", "outs"} BY DEF NoRead
  <2>2. Cardinality(CASE q = "sum"  -> TxRows(b)
                      [] q = "ins"  -> TxRows(b) \cap rows["tx_in"]
                      [] q = "outs" -> TxRows(b) \cap rows["tx_out"]) \in Int
    <3>1. /\ TxRows(b) \subseteq Txs(b)
          /\ TxRows(b) \cap rows["tx_in"] \subseteq Txs(b)
          /\ TxRows(b) \cap rows["tx_out"] \subseteq Txs(b)
      BY DEF TxRows
    <3>2. /\ Cardinality(TxRows(b)) \in Nat
          /\ Cardinality(TxRows(b) \cap rows["tx_in"]) \in Nat
          /\ Cardinality(TxRows(b) \cap rows["tx_out"]) \in Nat
      BY <3>1, Finite
    <3>. QED BY <2>1, <3>2
  <2>3. cread' \in [Blocks -> [{"sum", "ins", "outs"} -> Int]]
    BY <1>7, <2>1, <2>2 DEF CRead, TypeOK
  <2>. QED BY <1>7, <2>3 DEF CRead, TypeOK
<1>. QED BY <1>1, <1>2, <1>3, <1>4, <1>5, <1>6, <1>7 DEF CNext

LEMMA NextType ==
    ASSUME TypeOK, [Next]_vars
    PROVE  TypeOK'
<1>1. CASE RmNext
  BY <1>1 DEF RmNext, RmFile, TypeOK, db, dvars, pvars, tvars, cvars
<1>2. CASE Crash
  <2>1. faults' \in [FaultKinds -> Nat]
    BY <1>2, FaultType DEF Crash, TypeOK, FaultKinds
  <2>2. plast' \in Seq(Blocks) /\ queue' \in Seq(AllTx) /\ batch' \in Seq(AllTx)
    BY <1>2, EmptySeq DEF Crash
  <2>3. /\ tleft' \in [Tables -> SUBSET AllTx]
        /\ cread' \in [Blocks -> [{"sum", "ins", "outs"} -> Int]]
    BY <1>2 DEF Crash, NoRead
  <2>. QED BY <1>2, <2>1, <2>2, <2>3 DEF Crash, TypeOK, db, DStages, PStages, CStages
<1>3. CASE UNCHANGED vars BY <1>3 DEF vars, TypeOK
<1>. QED BY <1>1, <1>2, <1>3, DType, PType, TType, CType DEF Next

\* Every variable stays in its type, in particular the queue and the batch hold
\* transactions of the chain and a flush runs on a batch that has items.
THEOREM TypeCorrect == Spec => []TypeOK
<1>1. Init => TypeOK BY InitType
<1>2. TypeOK /\ [Next]_vars => TypeOK' BY NextType
<1>. QED BY <1>1, <1>2, PTL DEF Spec
-----------------------------------------------------------------------------
(***************************************************************************)
(* The inductive invariants.  Both say why the last transaction of a block *)
(* may be ended by blockEndDo: wherever it is on its way, the others are   *)
(* stored or ahead of it.                                                  *)
(***************************************************************************)

Others(b) == Txs(b) \ {LastTx(b)}
Safe(t) == Fully(t) \/ t \in InMemory

\* P holds the last transaction of b, the others are queued.
LastWithP(b) == pstage[b] = "save" \/ b \in Elems(plast)

\* The row says that b is stored, or did when C listed it.
Claimed(b) == Finished(b) \/ cstage[b] # "none"

\* What a flush stored: without an error nothing of the batch is left out.
FlushInv ==
    /\ tphase = "save" /\ ~tfailed =>
         \A tbl \in Tables : RowsIn(tbl, Elems(batch)) \subseteq rows[tbl] \cup tleft[tbl]
    /\ tphase = "end" => \A t \in Elems(batch) : Fully(t)

\* Nothing that is not stored ever leaves the memory of a living process.
RecoverInv ==
    faults["crash"] = 0 /\ faults["decode"] = 0 =>
        /\ \A b \in Blocks : Claimed(b) => \A t \in Txs(b) : Safe(t)
        /\ \A b \in Blocks : LastTx(b) \in InMemory \/ LastWithP(b) =>
             \A t \in Others(b) : Safe(t)

Before(s, k) == {s[j] : j \in 1..(k - 1)}

BatchOrder ==
    \A k \in 1..Len(batch) : IsLast(batch[k]) =>
        \A t \in Others(batch[k][1]) : Fully(t) \/ t \in Before(batch, k)

QueueOrder ==
    \A k \in 1..Len(queue) : IsLast(queue[k]) =>
        \A t \in Others(queue[k][1]) :
            Fully(t) \/ t \in Elems(batch) \/ t \in Before(queue, k)

\* Without failed batches the order of the queue is never changed.
StoredInv ==
    faults["save"] = 0 /\ faults["decode"] = 0 =>
        /\ ~tfailed
        /\ \A b \in Blocks : Claimed(b) => \A t \in Txs(b) : Fully(t)
        /\ \A b \in Blocks : LastWithP(b) => \A t \in Others(b) : Safe(t)
        /\ \A t \in checked : Fully(t)
        /\ BatchOrder
        /\ QueueOrder

-----------------------------------------------------------------------------
(* What a step may change *)

LEMMA Kept ==
    ASSUME TypeOK, [Next]_vars
    PROVE  /\ \A tbl \in Tables : rows[tbl] \subseteq rows'[tbl]
           /\ \A t : Fully(t) => Fully(t)'
           /\ \A k \in FaultKinds : faults'[k] = 0 => faults[k] = 0
<1>. USE DEF db, disk, dvars, pvars, tvars, cvars
<1>1. \A tbl \in Tables : rows[tbl] \subseteq rows'[tbl]
  <2>1. CASE rows' = rows BY <2>1
  <2>2. ASSUME NEW tb \in Tables, NEW chunk, TChunk(tb, chunk)
        PROVE  \A tbl \in Tables : rows[tbl] \subseteq rows'[tbl]
    BY <2>2 DEF TChunk, TypeOK
  <2>3. CASE DNext \/ PNext
    BY <2>1, <2>3 DEF DNext, DCount, DSelect, DStart, DRpc, DRpcFail, DDone, DFail,
       PNext, PBoot, PSelect, PEnd, PSelectAgain, PStart, PReset, PMark, PSave, PFail
  <2>4. CASE CNext \/ RmNext \/ Crash \/ UNCHANGED vars
    BY <2>1, <2>4 DEF CNext, CGate, CList, CStart, CRead, CDecide, CTick, CFail,
       RmNext, RmFile, Crash, vars
  <2>5. CASE TNext
    BY <2>1, <2>2, <2>5 DEF TNext, TTake, TThrow, TFlushed, TEnd, TEndFail
  <2>. QED BY <2>3, <2>4, <2>5 DEF Next
<1>2. \A k \in FaultKinds : faults'[k] = 0 => faults[k] = 0
  <2>1. CASE faults' = faults BY <2>1
  <2>2. ASSUME NEW j \in FaultKinds, Fault(j)
        PROVE  \A k \in FaultKinds : faults'[k] = 0 => faults[k] = 0
    BY <2>2 DEF Fault, TypeOK
  <2>3. {"crash", "rpc", "bad", "stmt", "save", "decode", "early"} = FaultKinds
    BY DEF FaultKinds
  <2>4. CASE DNext
    BY <2>1, <2>2, <2>3, <2>4 DEF DNext, DCount, DSelect, DStart, DRpc, DRpcFail, DDone, DFail
  <2>5. CASE PNext
    BY <2>1, <2>2, <2>3, <2>5 DEF PNext, PBoot, PSelect, PEnd, PSelectAgain, PStart,
       PReset, PMark, PSave, PFail
  <2>6. CASE CNext \/ RmNext \/ Crash \/ UNCHANGED vars
    BY <2>1, <2>2, <2>3, <2>6 DEF CNext, CGate, CList, CStart, CRead, CDecide, CTick,
       CFail, RmNext, RmFile, Crash, vars
  <2>7. CASE TNext
    BY <2>1, <2>2, <2>3, <2>7 DEF TNext, TTake, TThrow, TFlushed, TEnd, TEndFail, TChunk
  <2>. QED BY <2>4, <2>5, <2>6, <2>7 DEF Next
<1>3. \A t : Fully(t) => Fully(t)'
  BY <1>1 DEF Fully, Tables
<1>. QED BY <1>1, <1>2, <1>3

LEMMA FlushStep ==
    ASSUME TypeOK, FlushInv, [Next]_vars
    PROVE  FlushInv'
<1>. USE DEF db, disk, dvars, pvars, tvars, cvars
<1>1. CASE UNCHANGED <<rows, tvars>> BY <1>1 DEF FlushInv, Fully
<1>2. CASE DNext \/ PNext
  BY <1>1, <1>2 DEF DNext, DCount, DSelect, DStart, DRpc, DRpcFail, DDone, DFail,
     PNext, PBoot, PSelect, PEnd, PSelectAgain, PStart, PReset, PMark, PSave, PFail
<1>3. CASE CNext \/ RmNext \/ UNCHANGED vars
  BY <1>1, <1>3 DEF CNext, CGate, CList, CStart, CRead, CDecide, CTick, CFail,
     RmNext, RmFile, vars
<1>4. CASE Crash BY <1>4 DEF Crash, FlushInv
<1>5. CASE TTake BY <1>5 DEF TTake, FlushInv
<1>6. CASE TThrow BY <1>6 DEF TThrow, FlushInv
<1>7. CASE TFlushed
  <2>1. CASE tfailed BY <1>7, <2>1 DEF TFlushed, FlushInv
  <2>2. CASE ~tfailed
    <3>1. ASSUME NEW t \in Elems(batch) PROVE Fully(t)
      <4>1. ASSUME NEW tbl \in Tables, t \in RowsIn(tbl, {t}) PROVE t \in rows[tbl]
        <5>1. t \in RowsIn(tbl, Elems(batch)) BY <3>1, <4>1 DEF RowsIn
        <5>2. tleft[tbl] = {} BY <1>7, <4>1 DEF TFlushed
        <5>. QED BY <1>7, <2>2, <4>1, <5>1, <5>2 DEF FlushInv, TFlushed
      <4>. QED BY <4>1 DEF Fully
    <3>2. /\ tphase' = "end" /\ batch' = batch /\ rows' = rows
      BY <1>7, <2>2 DEF TFlushed
    <3>. QED BY <3>1, <3>2 DEF FlushInv, Fully
  <2>. QED BY <2>1, <2>2 DEF TypeOK
<1>8. CASE TEnd
  <2>1. /\ batch # <<>> /\ batch \in Seq(AllTx) /\ rows' = rows
        /\ tphase' # "save" /\ batch' = Tail(batch)
    BY <1>8 DEF TEnd, TypeOK
  <2>2. Elems(batch') \subseteq Elems(batch) BY <2>1, ElemsTail
  <2>3. \A t \in Elems(batch) : Fully(t) BY <1>8 DEF TEnd, FlushInv
  <2>. QED BY <2>1, <2>2, <2>3 DEF FlushInv, Fully
<1>9. CASE TEndFail BY <1>9 DEF TEndFail, FlushInv
<1>10. ASSUME NEW tbl \in Tables, NEW chunk \in SUBSET tleft[tbl], TChunk(tbl, chunk)
       PROVE  FlushInv'
  BY <1>10 DEF TChunk, FlushInv, TypeOK, Fully
<1>. QED BY <1>2, <1>3, <1>4, <1>5, <1>6, <1>7, <1>8, <1>9, <1>10 DEF Next, TNext

\* Only a crash or an item that throws takes an unsaved item out of memory.
LEMMA SafeKept ==
    ASSUME TypeOK, FlushInv, [Next]_vars, ~Crash, ~TThrow,
           NEW t, Safe(t)
    PROVE  Safe(t)'
<1>. USE DEF db, disk, dvars, pvars, tvars, cvars
<1>1. Fully(t) => Fully(t)' BY Kept
<1>2. CASE InMemory \subseteq InMemory' BY <1>1, <1>2 DEF Safe
<1>3. CASE UNCHANGED <<queue, batch>> BY <1>2, <1>3 DEF InMemory
<1>4. CASE DNext \/ CNext \/ RmNext \/ UNCHANGED vars
  BY <1>3, <1>4 DEF DNext, DCount, DSelect, DStart, DRpc, DRpcFail, DDone, DFail,
     CNext, CGate, CList, CStart, CRead, CDecide, CTick, CFail, RmNext, RmFile, vars
<1>5. ASSUME NEW u \in Seq(AllTx), queue' = queue \o u, batch' = batch
      PROVE  Safe(t)'
  BY <1>2, <1>5, ElemsConcat DEF InMemory, TypeOK
<1>6. CASE PEnd BY <1>5, <1>6, LastsSeq DEF PEnd, TypeOK
<1>7. ASSUME NEW b \in Blocks, PMark(b) PROVE Safe(t)'
  BY <1>5, <1>7, BurstSeq DEF PMark
<1>8. ASSUME NEW b \in Blocks, PSave(b) PROVE Safe(t)'
  <2>1. LastTx(b) \in AllTx BY LastTxType
  <2>2. Elems(queue) \subseteq Elems(queue') /\ batch' = batch
    <3>1. Elems(Append(queue, LastTx(b))) = Elems(queue) \cup {LastTx(b)}
      BY <2>1, ElemsAppend DEF TypeOK
    <3>. QED BY <1>8, <3>1 DEF PSave
  <2>. QED BY <1>2, <2>2 DEF InMemory
<1>9. CASE PNext
  BY <1>3, <1>6, <1>7, <1>8, <1>9 DEF PNext, PBoot, PSelect, PSelectAgain, PStart, PReset, PFail
<1>10. CASE TTake
  <2>1. Elems(queue) = {Head(queue)} \cup Elems(Tail(queue)) /\ Head(queue) \in AllTx
    BY <1>10, ElemsTail DEF TTake, TypeOK
  <2>2. Elems(batch') = Elems(batch) \cup {Head(queue)}
    BY <1>10, <2>1, ElemsAppend DEF TTake, TypeOK
  <2>. QED BY <1>2, <1>10, <2>1, <2>2 DEF TTake, InMemory
<1>11. CASE TFlushed
  <2>1. CASE tfailed
    <3>1. Elems(queue \o batch) = Elems(queue) \cup Elems(batch)
      BY ElemsConcat DEF TypeOK
    <3>2. queue' = queue \o batch BY <1>11, <2>1 DEF TFlushed
    <3>. QED BY <1>2, <3>1, <3>2 DEF InMemory
  <2>2. CASE ~tfailed BY <1>3, <1>11, <2>2 DEF TFlushed
  <2>. QED BY <2>1, <2>2
<1>12. CASE TEnd
  <2>1. \A e \in Elems(batch) : Fully(e) BY <1>12 DEF TEnd, FlushInv
  <2>2. Elems(batch) = {Head(batch)} \cup Elems(batch')
    BY <1>12, ElemsTail DEF TEnd, TypeOK
  <2>3. queue' = queue BY <1>12 DEF TEnd
  <2>. QED BY <1>1, <2>1, <2>2, <2>3 DEF Safe, InMemory
<1>13. CASE TEndFail
  <2>1. \A e \in Elems(batch) : Fully(e) BY <1>13 DEF TEndFail, FlushInv
  <2>2. queue' = queue BY <1>13 DEF TEndFail
  <2>. QED BY <1>1, <2>1, <2>2 DEF Safe, InMemory
<1>14. ASSUME NEW tbl, NEW chunk, TChunk(tbl, chunk) PROVE Safe(t)'
  BY <1>3, <1>14 DEF TChunk
<1>. QED BY <1>4, <1>9, <1>10, <1>11, <1>12, <1>13, <1>14 DEF Next, TNext

-----------------------------------------------------------------------------
(* What is completed is stored or in memory *)

\* A block is newly claimed only by blockEndDo of its last transaction.
LEMMA ClaimedStep ==
    ASSUME TypeOK, [Next]_vars, NEW b \in Blocks, Claimed(b)', ~Claimed(b)
    PROVE  TEnd /\ Head(batch) = LastTx(b)
<1>. USE DEF db, disk, dvars, pvars, tvars, cvars
<1>1. CASE UNCHANGED <<status, cstage>> BY <1>1 DEF Claimed, Finished
<1>2. CASE DNext
  <2>1. cstage' = cstage
    BY <1>2 DEF DNext, DCount, DSelect, DStart, DRpc, DRpcFail, DDone, DFail
  <2>2. Finished(b)' => Finished(b)
    BY <1>2 DEF DNext, DCount, DSelect, DStart, DRpc, DRpcFail, DDone, DFail,
       SetStatus, Finished, TypeOK
  <2>. QED BY <2>1, <2>2 DEF Claimed
<1>3. CASE PNext
  <2>1. cstage' = cstage
    BY <1>3 DEF PNext, PBoot, PSelect, PEnd, PSelectAgain, PStart, PReset, PMark, PSave, PFail
  <2>2. Finished(b)' => Finished(b)
    BY <1>3 DEF PNext, PBoot, PSelect, PEnd, PSelectAgain, PStart, PReset, PMark,
       PSave, PFail, SetStatus, Finished, TypeOK
  <2>. QED BY <2>1, <2>2 DEF Claimed
<1>4. CASE CGate BY <1>1, <1>4 DEF CGate
<1>5. CASE CList
  BY <1>5 DEF CList, Claimed, Finished, TypeOK
<1>6. ASSUME NEW c \in Blocks,
             \/ CStart(c) \/ CDecide(c) \/ CTick(c) \/ CFail(c)
             \/ \E q \in DOMAIN NoRead : CRead(c, q)
      PROVE  FALSE
  <2>1. cstage[c] # "none"
    BY <1>6 DEF CStart, CDecide, CTick, CFail, CRead, Lowest
  <2>2. status' = status \/ CDecide(c)
    BY <1>6 DEF CStart, CTick, CFail, CRead
  <2>3. b # c BY <2>1 DEF Claimed
  <2>4. cstage'[b] = cstage[b]
    BY <1>6, <2>3 DEF CStart, CDecide, CTick, CFail, CRead, TypeOK
  <2>5. status'[b] = status[b]
    BY <2>2, <2>3 DEF CDecide, SetStatus, TypeOK
  <2>. QED BY <2>4, <2>5 DEF Claimed, Finished
<1>7. CASE CNext BY <1>4, <1>5, <1>6, <1>7 DEF CNext
<1>8. CASE RmNext \/ UNCHANGED vars BY <1>1, <1>8 DEF RmNext, RmFile, vars
<1>9. CASE Crash BY <1>9 DEF Crash, Claimed, Finished
<1>10. CASE TEnd
  <2>1. Head(batch) \in AllTx BY <1>10, ElemsTail DEF TEnd, TypeOK
  <2>2. Head(batch)[1] \in Blocks BY <2>1, AllTxElim
  <2>3. CASE Head(batch) = LastTx(b) BY <1>10, <2>3
  <2>4. CASE Head(batch) # LastTx(b)
    <3>1. cstage' = cstage BY <1>10 DEF TEnd
    <3>2. status'[b] = status[b]
      BY <1>10, <2>2, <2>4 DEF TEnd, IsLast, SetStatus, TypeOK
    <3>. QED BY <3>1, <3>2 DEF Claimed, Finished
  <2>. QED BY <2>3, <2>4
<1>11. CASE TTake BY <1>1, <1>11 DEF TTake
<1>12. CASE TThrow BY <1>1, <1>12 DEF TThrow
<1>13. CASE TFlushed BY <1>1, <1>13 DEF TFlushed
<1>14. CASE TEndFail BY <1>1, <1>14 DEF TEndFail
<1>15. ASSUME NEW tbl, NEW chunk, TChunk(tbl, chunk) PROVE FALSE
  <2>1. UNCHANGED <<status, cstage>> BY <1>15 DEF TChunk
  <2>. QED BY <2>1 DEF Claimed, Finished
<1>. QED BY <1>2, <1>3, <1>7, <1>8, <1>9, <1>10, <1>11, <1>12, <1>13, <1>14, <1>15 DEF Next, TNext

\* P takes over a last transaction only when it queues the others.
LEMMA LastWithPStep ==
    ASSUME TypeOK, [Next]_vars, NEW b \in Blocks, LastWithP(b)', ~LastWithP(b)
    PROVE  PMark(b)
<1>. USE DEF db, disk, dvars, pvars, tvars, cvars
<1>1. CASE UNCHANGED pvars BY <1>1 DEF LastWithP, Elems
<1>2. CASE DNext \/ CNext \/ RmNext \/ UNCHANGED vars
  BY <1>1, <1>2 DEF DNext, DCount, DSelect, DStart, DRpc, DRpcFail, DDone, DFail,
     CNext, CGate, CList, CStart, CRead, CDecide, CTick, CFail, RmNext, RmFile, vars
<1>3. CASE TNext
  BY <1>1, <1>3 DEF TNext, TTake, TThrow, TFlushed, TEnd, TEndFail, TChunk
<1>4. CASE Crash
  <2>1. Elems(<<>>) = {} BY DEF Elems
  <2>. QED BY <1>4, <2>1 DEF Crash, LastWithP
<1>5. CASE PBoot BY <1>5 DEF PBoot, LastWithP, Elems
<1>6. CASE PSelect BY <1>6 DEF PSelect, LastWithP, Elems
<1>7. CASE PEnd
  <2>1. Elems(<<>>) = {} BY DEF Elems
  <2>. QED BY <1>7, <2>1 DEF PEnd, LastWithP
<1>8. ASSUME NEW c \in Blocks, PSelectAgain(c) \/ PStart(c) \/ PReset(c) \/ PFail(c)
      PROVE  FALSE
  BY <1>8 DEF PSelectAgain, PStart, PReset, PFail, LastWithP, Elems, TypeOK
<1>9. ASSUME NEW c \in Blocks, PMark(c) PROVE PMark(b)
  BY <1>9 DEF PMark, LastWithP, Elems, TypeOK
<1>10. ASSUME NEW c \in Blocks, PSave(c) PROVE FALSE
  <2>1. Elems(Append(plast, c)) = Elems(plast) \cup {c}
    BY ElemsAppend DEF TypeOK
  <2>2. plast' = Append(plast, c) \/ plast' = plast BY <1>10 DEF PSave
  <2>3. pstage[c] = "save" BY <1>10 DEF PSave
  <2>4. b \in Elems(plast') => b \in Elems(plast) \/ b = c
    BY <2>1, <2>2
  <2>5. pstage'[b] = "save" => pstage[b] = "save"
    BY <1>10 DEF PSave, TypeOK
  <2>. QED BY <2>3, <2>4, <2>5 DEF LastWithP, Elems
<1>. QED BY <1>2, <1>3, <1>4, <1>5, <1>6, <1>7, <1>8, <1>9, <1>10 DEF Next, PNext

\* Only P brings a last transaction into memory, one it held before.
LEMMA LastHeldStep ==
    ASSUME TypeOK, [Next]_vars, NEW b \in Blocks,
           LastTx(b) \in InMemory', LastTx(b) \notin InMemory
    PROVE  LastWithP(b)
<1>. USE DEF db, disk, dvars, pvars, tvars, cvars
<1>1. CASE UNCHANGED <<queue, batch>> BY <1>1 DEF InMemory
<1>2. CASE DNext \/ CNext \/ RmNext \/ UNCHANGED vars
  BY <1>1, <1>2 DEF DNext, DCount, DSelect, DStart, DRpc, DRpcFail, DDone, DFail,
     CNext, CGate, CList, CStart, CRead, CDecide, CTick, CFail, RmNext, RmFile, vars
<1>3. Elems(<<>>) = {} BY DEF Elems
<1>4. CASE Crash BY <1>3, <1>4 DEF Crash, InMemory
<1>5. CASE TTake
  <2>1. Elems(queue) = {Head(queue)} \cup Elems(Tail(queue)) /\ Head(queue) \in AllTx
    BY <1>5, ElemsTail DEF TTake, TypeOK
  <2>2. Elems(batch') = Elems(batch) \cup {Head(queue)}
    BY <1>5, <2>1, ElemsAppend DEF TTake, TypeOK
  <2>. QED BY <1>5, <2>1, <2>2 DEF TTake, InMemory
<1>6. CASE TThrow
  <2>1. Elems(Tail(queue)) \subseteq Elems(queue)
    BY <1>6, ElemsTail DEF TThrow, TypeOK
  <2>. QED BY <1>3, <1>6, <2>1 DEF TThrow, InMemory
<1>7. CASE TFlushed
  <2>1. CASE tfailed
    <3>1. Elems(queue \o batch) = Elems(queue) \cup Elems(batch)
      BY ElemsConcat DEF TypeOK
    <3>2. queue' = queue \o batch /\ batch' = <<>> BY <1>7, <2>1 DEF TFlushed
    <3>. QED BY <1>3, <3>1, <3>2 DEF InMemory
  <2>2. CASE ~tfailed BY <1>1, <1>7, <2>2 DEF TFlushed
  <2>. QED BY <2>1, <2>2
<1>8. CASE TEnd
  <2>1. Elems(Tail(batch)) \subseteq Elems(batch)
    BY <1>8, ElemsTail DEF TEnd, TypeOK
  <2>. QED BY <1>8, <2>1 DEF TEnd, InMemory
<1>9. CASE TEndFail BY <1>3, <1>9 DEF TEndFail, InMemory
<1>10. ASSUME NEW tbl, NEW chunk, TChunk(tbl, chunk) PROVE FALSE
  <2>1. UNCHANGED <<queue, batch>> BY <1>10 DEF TChunk
  <2>. QED BY <2>1 DEF InMemory
<1>11. CASE PEnd
  <2>. DEFINE l == [k \in 1..Len(plast) |-> LastTx(plast[k])]
  <2>1. /\ l \in Seq(AllTx) /\ Elems(l) = {LastTx(c) : c \in Elems(plast)}
    BY LastsSeq DEF TypeOK
  <2>. HIDE DEF l
  <2>2. Elems(queue \o l) = Elems(queue) \cup Elems(l)
    BY <2>1, ElemsConcat DEF TypeOK
  <2>3. queue' = queue \o l /\ batch' = batch BY <1>11 DEF PEnd, l
  <2>4. LastTx(b) \in Elems(l) BY <2>2, <2>3 DEF InMemory
  <2>5. PICK c \in Elems(plast) : LastTx(b) = LastTx(c) BY <2>1, <2>4
  <2>6. c = b BY <2>5 DEF LastTx
  <2>. QED BY <2>5, <2>6 DEF LastWithP
<1>12. ASSUME NEW c \in Blocks, PMark(c) PROVE FALSE
  <2>1. Elems(queue \o Burst(c)) = Elems(queue) \cup Elems(Burst(c))
    BY BurstSeq, ElemsConcat DEF TypeOK
  <2>2. queue' = queue \o Burst(c) /\ batch' = batch BY <1>12 DEF PMark
  <2>3. LastTx(b) \in Elems(Burst(c)) BY <2>1, <2>2 DEF InMemory
  <2>4. PICK i \in 1..(NumTx[c] - 1) : LastTx(b) = <<c, i>> BY <2>3, BurstSeq
  <2>5. b = c /\ NumTx[b] = i BY <2>4 DEF LastTx
  <2>6. NumTx[b] \in Nat BY LastTxType
  <2>. QED BY <2>5, <2>6
<1>13. ASSUME NEW c \in Blocks, PSave(c) PROVE LastWithP(b)
  <2>1. LastTx(c) \in AllTx BY LastTxType
  <2>2. Elems(Append(queue, LastTx(c))) = Elems(queue) \cup {LastTx(c)}
    BY <2>1, ElemsAppend DEF TypeOK
  <2>3. (queue' = Append(queue, LastTx(c)) \/ queue' = queue) /\ batch' = batch
    BY <1>13 DEF PSave
  <2>4. LastTx(b) = LastTx(c)
    <3>1. CASE queue' = queue BY <1>1, <2>3, <3>1 DEF InMemory
    <3>2. CASE queue' = Append(queue, LastTx(c)) BY <2>2, <2>3, <3>2 DEF InMemory
    <3>. QED BY <2>3, <3>1, <3>2
  <2>5. b = c BY <2>4 DEF LastTx
  <2>. QED BY <1>13, <2>5 DEF PSave, LastWithP
<1>14. CASE PNext
  BY <1>1, <1>11, <1>12, <1>13, <1>14 DEF PNext, PBoot, PSelect, PSelectAgain, PStart, PReset, PFail
<1>. QED BY <1>2, <1>4, <1>5, <1>6, <1>7, <1>8, <1>9, <1>10, <1>14 DEF Next, TNext

LEMMA OthersElim ==
    ASSUME NEW b \in Blocks
    PROVE  /\ \A t \in Txs(b) : t \in Others(b) \/ t = LastTx(b)
           /\ \A t \in Others(b) : t \in Elems(Burst(b))
<1>1. NumTx[b] \in Nat \ {0} BY LastTxType
<1>2. ASSUME NEW t \in Others(b) PROVE t \in Elems(Burst(b))
  <2>1. PICK i \in 1..NumTx[b] : t = <<b, i>> BY <1>2 DEF Others, Txs
  <2>2. i # NumTx[b] BY <1>2, <2>1 DEF Others, LastTx
  <2>3. i \in 1..(NumTx[b] - 1) BY <1>1, <2>2
  <2>. QED BY <2>1, <2>3, BurstSeq
<1>. QED BY <1>2 DEF Others

LEMMA RecoverStep ==
    ASSUME TypeOK, FlushInv, RecoverInv, [Next]_vars
    PROVE  RecoverInv'
<1>. SUFFICES ASSUME faults'["crash"] = 0, faults'["decode"] = 0
              PROVE  /\ \A b \in Blocks : Claimed(b)' => \A t \in Txs(b) : Safe(t)'
                     /\ \A b \in Blocks : (LastTx(b) \in InMemory \/ LastWithP(b))' =>
                           \A t \in Others(b) : Safe(t)'
  BY DEF RecoverInv
<1>1. faults["crash"] = 0 /\ faults["decode"] = 0
  BY Kept DEF FaultKinds
<1>2. ~Crash /\ ~TThrow
  BY DEF Crash, TThrow, Fault, TypeOK, FaultKinds
<1>3. \A t : Safe(t) => Safe(t)' BY <1>2, SafeKept
<1>4. /\ \A b \in Blocks : Claimed(b) => \A t \in Txs(b) : Safe(t)
      /\ \A b \in Blocks : LastTx(b) \in InMemory \/ LastWithP(b) =>
             \A t \in Others(b) : Safe(t)
  BY <1>1 DEF RecoverInv
<1>5. ASSUME NEW b \in Blocks, Claimed(b)', NEW t \in Txs(b) PROVE Safe(t)'
  <2>1. CASE Claimed(b) BY <1>3, <1>4, <2>1
  <2>2. CASE ~Claimed(b)
    <3>1. TEnd /\ Head(batch) = LastTx(b) BY <1>5, <2>2, ClaimedStep
    <3>2. Head(batch) \in Elems(batch) BY <3>1, ElemsTail DEF TEnd, TypeOK
    <3>3. Fully(LastTx(b)) BY <3>1, <3>2 DEF TEnd, FlushInv
    <3>4. LastTx(b) \in InMemory BY <3>1, <3>2 DEF InMemory
    <3>5. Safe(t) BY <1>4, <3>3, <3>4, OthersElim DEF Safe
    <3>. QED BY <1>3, <3>5
  <2>. QED BY <2>1, <2>2
<1>6. ASSUME NEW b \in Blocks, (LastTx(b) \in InMemory \/ LastWithP(b))', NEW t \in Others(b)
      PROVE  Safe(t)'
  <2>1. CASE LastTx(b) \in InMemory \/ LastWithP(b) BY <1>3, <1>4, <2>1
  <2>2. CASE ~(LastTx(b) \in InMemory \/ LastWithP(b))
    <3>1. LastTx(b) \notin InMemory' BY <2>2, LastHeldStep
    <3>2. PMark(b) BY <1>6, <2>2, <3>1, LastWithPStep
    <3>3. Elems(queue \o Burst(b)) = Elems(queue) \cup Elems(Burst(b))
      BY BurstSeq, ElemsConcat DEF TypeOK
    <3>4. t \in Elems(queue') BY <3>2, <3>3, OthersElim DEF PMark
    <3>. QED BY <3>4 DEF Safe, InMemory
  <2>. QED BY <2>1, <2>2
<1>. QED BY <1>5, <1>6

LEMMA InitInv == Init => FlushInv /\ RecoverInv /\ StoredInv
<1>1. Elems(<<>>) = {} /\ Len(<<>>) = 0 BY DEF Elems
<1>. QED BY <1>1 DEF Init, FlushInv, RecoverInv, StoredInv, Claimed, Finished, InMemory,
        LastWithP, BatchOrder, QueueOrder

\* While the process lives and no item throws, a block reported completed has
\* each transaction stored or in memory, whatever batches fail.  RecoverInv, the
\* inductive form, also covers a block whose last transaction is on its way.
THEOREM CompletedRecoverable == Spec => []CompletedIsRecoverable
<1>1. TypeOK /\ FlushInv /\ RecoverInv => CompletedIsRecoverable
  BY DEF RecoverInv, CompletedIsRecoverable, Claimed, Safe
<1>2. Init => TypeOK /\ FlushInv /\ RecoverInv BY InitType, InitInv
<1>3. TypeOK /\ FlushInv /\ RecoverInv /\ [Next]_vars => (TypeOK /\ FlushInv /\ RecoverInv)'
  BY NextType, FlushStep, RecoverStep
<1>. QED BY <1>1, <1>2, <1>3, PTL DEF Spec

-----------------------------------------------------------------------------
(* Without failing batches, what is completed is stored *)

\* The queue keeps its order when u comes behind it and T does nothing.
LEMMA QueueExtended ==
    ASSUME TypeOK, QueueOrder, [Next]_vars,
           NEW u \in Seq(AllTx), queue' = queue \o u, batch' = batch,
           \A m \in 1..Len(u) : IsLast(u[m]) =>
              \A t \in Others(u[m][1]) : Safe(t)
    PROVE  QueueOrder'
<1>1. /\ Len(queue') = Len(queue) + Len(u) /\ Len(queue) \in Nat /\ Len(u) \in Nat
      /\ \A i \in 1..Len(queue) + Len(u) :
           queue'[i] = IF i <= Len(queue) THEN queue[i] ELSE u[i - Len(queue)]
  BY ConcatProperties, LenProperties DEF TypeOK
<1>2. \A t : Fully(t) => Fully(t)' BY Kept
<1>3. ASSUME NEW k \in 1..Len(queue'), IsLast(queue'[k]), NEW t \in Others(queue'[k][1])
      PROVE  Fully(t)' \/ t \in Elems(batch') \/ t \in Before(queue', k)
  <2>1. CASE k <= Len(queue)
    <3>1. k \in 1..Len(queue) /\ queue'[k] = queue[k] BY <1>1, <2>1
    <3>2. Fully(t) \/ t \in Elems(batch) \/ t \in Before(queue, k)
      BY <1>3, <3>1 DEF QueueOrder
    <3>3. ASSUME NEW j \in 1..(k - 1) PROVE queue'[j] = queue[j]
      BY <1>1, <2>1, <3>1
    <3>. QED BY <1>2, <3>2, <3>3 DEF Before
  <2>2. CASE ~(k <= Len(queue))
    <3>1. k - Len(queue) \in 1..Len(u) /\ queue'[k] = u[k - Len(queue)]
      BY <1>1, <2>2
    <3>2. Safe(t) BY <1>3, <3>1
    <3>3. ASSUME NEW j \in 1..Len(queue) PROVE queue[j] \in Before(queue', k)
      <4>1. j \in 1..(k - 1) /\ queue'[j] = queue[j] BY <1>1, <2>2
      <4>. QED BY <4>1 DEF Before
    <3>4. Elems(queue) \subseteq Before(queue', k) BY <3>3 DEF Elems
    <3>. QED BY <1>2, <3>2, <3>4 DEF Safe, InMemory
  <2>. QED BY <2>1, <2>2
<1>. QED BY <1>3 DEF QueueOrder

\* Dropping the head of a sequence moves everything one place forward.
LEMMA TailPlaces ==
    ASSUME NEW S, NEW s \in Seq(S), s # <<>>, NEW k \in 1..Len(Tail(s))
    PROVE  /\ k + 1 \in 1..Len(s) /\ Tail(s)[k] = s[k + 1]
           /\ Before(s, k + 1) \subseteq {Head(s)} \cup Before(Tail(s), k)
<1>1. /\ Len(Tail(s)) = Len(s) - 1 /\ Len(s) \in Nat /\ Head(s) = s[1]
      /\ \A i \in 1..Len(Tail(s)) : Tail(s)[i] = s[i + 1]
  BY HeadTailProperties, LenProperties
<1>2. ASSUME NEW j \in 1..k PROVE s[j] \in {Head(s)} \cup Before(Tail(s), k)
  <2>1. CASE j = 1 BY <1>1, <2>1
  <2>2. CASE j # 1
    <3>1. j - 1 \in 1..(k - 1) /\ j - 1 \in 1..Len(Tail(s)) BY <1>1, <2>2
    <3>2. Tail(s)[j - 1] = s[j] BY <1>1, <3>1
    <3>. QED BY <3>1, <3>2 DEF Before
  <2>. QED BY <2>1, <2>2
<1>3. Before(s, k + 1) = {s[j] : j \in 1..k} BY <1>1 DEF Before
<1>. QED BY <1>1, <1>2, <1>3

LEMMA QueueOrderStep ==
    ASSUME TypeOK, FlushInv, [Next]_vars, ~Crash, ~TThrow, ~tfailed, QueueOrder,
           \A b \in Blocks : LastWithP(b) => \A t \in Others(b) : Safe(t)
    PROVE  QueueOrder'
<1>. USE DEF db, disk, dvars, pvars, tvars, cvars
<1>1. \A t : Fully(t) => Fully(t)' BY Kept
<1>2. CASE UNCHANGED queue /\ \A t \in Elems(batch) : t \in Elems(batch') \/ Fully(t)
  BY <1>1, <1>2 DEF QueueOrder, Before
<1>3. CASE DNext \/ CNext \/ RmNext \/ UNCHANGED vars
  BY <1>2, <1>3 DEF DNext, DCount, DSelect, DStart, DRpc, DRpcFail, DDone, DFail,
     CNext, CGate, CList, CStart, CRead, CDecide, CTick, CFail, RmNext, RmFile, vars
<1>4. CASE TTake
  <2>1. /\ Head(queue) \in AllTx /\ queue \in Seq(AllTx) /\ queue # <<>>
        /\ queue' = Tail(queue)
    BY <1>4, ElemsTail DEF TTake, TypeOK
  <2>2. Elems(batch') = Elems(batch) \cup {Head(queue)}
    BY <1>4, <2>1, ElemsAppend DEF TTake, TypeOK
  <2>3. ASSUME NEW k \in 1..Len(queue'), IsLast(queue'[k]), NEW t \in Others(queue'[k][1])
        PROVE  Fully(t)' \/ t \in Elems(batch') \/ t \in Before(queue', k)
    <3>1. /\ k + 1 \in 1..Len(queue) /\ queue'[k] = queue[k + 1]
          /\ Before(queue, k + 1) \subseteq {Head(queue)} \cup Before(queue', k)
      BY <2>1, TailPlaces
    <3>2. Fully(t) \/ t \in Elems(batch) \/ t \in Before(queue, k + 1)
      BY <2>3, <3>1 DEF QueueOrder
    <3>. QED BY <1>1, <2>2, <3>1, <3>2
  <2>. QED BY <2>3 DEF QueueOrder
<1>5. CASE TFlushed BY <1>2, <1>5 DEF TFlushed
<1>6. CASE TEnd \/ TEndFail
  <2>1. UNCHANGED queue /\ tphase = "end" BY <1>6 DEF TEnd, TEndFail
  <2>2. \A t \in Elems(batch) : Fully(t) BY <2>1 DEF FlushInv
  <2>. QED BY <1>2, <2>1, <2>2
<1>7. ASSUME NEW tbl, NEW chunk, TChunk(tbl, chunk) PROVE QueueOrder'
  BY <1>2, <1>7 DEF TChunk
<1>8. CASE PEnd
  <2>. DEFINE l == [k \in 1..Len(plast) |-> LastTx(plast[k])]
  <2>1. l \in Seq(AllTx) /\ Len(l) = Len(plast) BY LastsSeq DEF TypeOK
  <2>2. queue' = queue \o l /\ batch' = batch BY <1>8 DEF PEnd
  <2>3. ASSUME NEW m \in 1..Len(l), NEW t \in Others(l[m][1]) PROVE Safe(t)
    <3>1. l[m] = LastTx(plast[m]) /\ plast[m] \in Elems(plast)
      BY <2>1 DEF Elems
    <3>2. plast[m] \in Blocks BY <2>1, ElementOfSeq DEF TypeOK
    <3>3. l[m][1] = plast[m] BY <3>1 DEF LastTx
    <3>. QED BY <2>3, <3>1, <3>2, <3>3 DEF LastWithP
  <2>. HIDE DEF l
  <2>. QED BY <2>1, <2>2, <2>3, QueueExtended
<1>9. ASSUME NEW c \in Blocks, PMark(c) PROVE QueueOrder'
  <2>1. /\ Burst(c) \in Seq(AllTx) /\ Len(Burst(c)) = NumTx[c] - 1
        /\ \A k \in 1..(NumTx[c] - 1) : Burst(c)[k] = <<c, k>>
    BY BurstSeq
  <2>2. queue' = queue \o Burst(c) /\ batch' = batch BY <1>9 DEF PMark
  <2>3. ASSUME NEW m \in 1..Len(Burst(c)), IsLast(Burst(c)[m]) PROVE FALSE
    <3>1. Burst(c)[m] = <<c, m>> /\ m < NumTx[c] BY <2>1, LastTxType
    <3>. QED BY <2>3, <3>1 DEF IsLast, LastTx
  <2>. QED BY <2>1, <2>2, <2>3, QueueExtended
<1>10. ASSUME NEW c \in Blocks, PSave(c) PROVE QueueOrder'
  <2>1. LastTx(c) \in AllTx BY LastTxType
  <2>2. batch' = batch /\ (queue' = queue \/ queue' = Append(queue, LastTx(c)))
    BY <1>10 DEF PSave
  <2>3. CASE queue' = queue BY <1>2, <2>2, <2>3
  <2>4. CASE queue' = Append(queue, LastTx(c))
    <3>1. queue' = queue \o <<LastTx(c)>> BY <2>1, <2>4, AppendIsConcat DEF TypeOK
    <3>2. <<LastTx(c)>> \in Seq(AllTx) BY <2>1
    <3>3. LastWithP(c) BY <1>10 DEF PSave, LastWithP
    <3>4. ASSUME NEW m \in 1..Len(<<LastTx(c)>>), NEW t \in Others(<<LastTx(c)>>[m][1])
          PROVE  Safe(t)
      <4>1. m = 1 OBVIOUS
      <4>2. t \in Others(c) BY <3>4, <4>1 DEF LastTx
      <4>. QED BY <3>3, <4>2
    <3>. QED BY <2>2, <3>1, <3>2, <3>4, QueueExtended
  <2>. QED BY <2>2, <2>3, <2>4
<1>11. CASE PNext
  BY <1>2, <1>8, <1>9, <1>10, <1>11 DEF PNext, PBoot, PSelect, PSelectAgain, PStart, PReset, PFail
<1>. QED BY <1>3, <1>4, <1>5, <1>6, <1>7, <1>11 DEF Next, TNext

LEMMA BatchOrderStep ==
    ASSUME TypeOK, FlushInv, [Next]_vars, ~tfailed, BatchOrder, QueueOrder
    PROVE  BatchOrder'
<1>. USE DEF db, disk, dvars, pvars, tvars, cvars
<1>1. \A t : Fully(t) => Fully(t)' BY Kept
<1>2. CASE UNCHANGED batch BY <1>1, <1>2 DEF BatchOrder, Before
<1>3. CASE batch' = <<>>
  <2>1. Len(batch') = 0 BY <1>3, EmptySeq
  <2>. QED BY <2>1 DEF BatchOrder
<1>4. CASE TTake
  <2>1. Head(queue) \in AllTx /\ Head(queue) = queue[1] /\ 1 \in 1..Len(queue)
    BY <1>4, HeadTailProperties, EmptySeq DEF TTake, TypeOK
  <2>2. /\ Len(batch') = Len(batch) + 1 /\ Len(batch) \in Nat
        /\ batch'[Len(batch) + 1] = Head(queue)
        /\ \A i \in 1..Len(batch) : batch'[i] = batch[i]
    BY <1>4, <2>1, AppendProperties, LenProperties DEF TTake, TypeOK
  <2>3. ASSUME NEW k \in 1..Len(batch'), IsLast(batch'[k]), NEW t \in Others(batch'[k][1])
        PROVE  Fully(t)' \/ t \in Before(batch', k)
    <3>1. \A j \in 1..(k - 1) : batch'[j] = batch[j] BY <2>2
    <3>2. CASE k \in 1..Len(batch)
      <4>1. Fully(t) \/ t \in Before(batch, k) BY <2>2, <2>3, <3>2 DEF BatchOrder
      <4>. QED BY <1>1, <3>1, <4>1 DEF Before
    <3>3. CASE k = Len(batch) + 1
      <4>1. batch'[k] = queue[1] BY <2>1, <2>2, <3>3
      <4>2. Before(queue, 1) = {} BY DEF Before
      <4>3. Fully(t) \/ t \in Elems(batch) BY <2>1, <2>3, <4>1, <4>2 DEF QueueOrder
      <4>4. k - 1 = Len(batch) BY <2>2, <3>3
      <4>5. Before(batch', k) = Elems(batch) BY <2>2, <4>4 DEF Before, Elems
      <4>. QED BY <1>1, <4>3, <4>5
    <3>. QED BY <2>2, <3>2, <3>3
  <2>. QED BY <2>3 DEF BatchOrder
<1>5. CASE TEnd
  <2>1. batch # <<>> /\ batch \in Seq(AllTx) /\ batch' = Tail(batch)
    BY <1>5 DEF TEnd, TypeOK
  <2>2. Fully(Head(batch)) BY <1>5, <2>1, ElemsTail DEF TEnd, FlushInv
  <2>3. ASSUME NEW k \in 1..Len(batch'), IsLast(batch'[k]), NEW t \in Others(batch'[k][1])
        PROVE  Fully(t)' \/ t \in Before(batch', k)
    <3>1. /\ k + 1 \in 1..Len(batch) /\ batch'[k] = batch[k + 1]
          /\ Before(batch, k + 1) \subseteq {Head(batch)} \cup Before(batch', k)
      BY <2>1, TailPlaces
    <3>2. Fully(t) \/ t \in Before(batch, k + 1) BY <2>3, <3>1 DEF BatchOrder
    <3>. QED BY <1>1, <2>2, <3>1, <3>2
  <2>. QED BY <2>3 DEF BatchOrder
<1>6. CASE TFlushed BY <1>2, <1>6 DEF TFlushed
<1>7. CASE TThrow \/ TEndFail \/ Crash BY <1>3, <1>7 DEF TThrow, TEndFail, Crash
<1>8. ASSUME NEW tbl, NEW chunk, TChunk(tbl, chunk) PROVE BatchOrder'
  BY <1>2, <1>8 DEF TChunk
<1>9. CASE DNext \/ PNext
  BY <1>2, <1>9 DEF DNext, DCount, DSelect, DStart, DRpc, DRpcFail, DDone, DFail,
     PNext, PBoot, PSelect, PEnd, PSelectAgain, PStart, PReset, PMark, PSave, PFail
<1>10. CASE CNext \/ RmNext \/ UNCHANGED vars
  BY <1>2, <1>10 DEF CNext, CGate, CList, CStart, CRead, CDecide, CTick, CFail,
     RmNext, RmFile, vars
<1>. QED BY <1>4, <1>5, <1>6, <1>7, <1>8, <1>9, <1>10 DEF Next, TNext

LEMMA StoredStep ==
    ASSUME TypeOK, FlushInv, StoredInv, [Next]_vars
    PROVE  StoredInv'
<1>. USE DEF db, disk, dvars, pvars, tvars, cvars
<1>. SUFFICES ASSUME faults'["save"] = 0, faults'["decode"] = 0
              PROVE  /\ ~tfailed'
                     /\ \A b \in Blocks : Claimed(b)' => \A t \in Txs(b) : Fully(t)'
                     /\ \A b \in Blocks : LastWithP(b)' => \A t \in Others(b) : Safe(t)'
                     /\ \A t \in checked' : Fully(t)'
                     /\ BatchOrder'
                     /\ QueueOrder'
  BY DEF StoredInv
<1>1. faults["save"] = 0 /\ faults["decode"] = 0
  BY Kept DEF FaultKinds
<1>2. ~TThrow BY DEF TThrow, Fault, TypeOK, FaultKinds
<1>3. /\ ~tfailed /\ BatchOrder /\ QueueOrder
      /\ \A b \in Blocks : Claimed(b) => \A t \in Txs(b) : Fully(t)
      /\ \A b \in Blocks : LastWithP(b) => \A t \in Others(b) : Safe(t)
      /\ \A t \in checked : Fully(t)
  BY <1>1 DEF StoredInv
<1>4. \A t : Fully(t) => Fully(t)' BY Kept
<1>5. ~tfailed'
  <2>1. CASE UNCHANGED tfailed BY <1>3, <2>1
  <2>2. ASSUME NEW tbl, NEW chunk, TChunk(tbl, chunk) PROVE ~tfailed'
    BY <1>3, <2>2 DEF TChunk, Fault, TypeOK, FaultKinds
  <2>3. CASE TNext
    BY <1>3, <2>1, <2>2, <2>3 DEF TNext, TTake, TThrow, TFlushed, TEnd, TEndFail
  <2>4. CASE DNext \/ PNext
    BY <2>1, <2>4 DEF DNext, DCount, DSelect, DStart, DRpc, DRpcFail, DDone, DFail,
       PNext, PBoot, PSelect, PEnd, PSelectAgain, PStart, PReset, PMark, PSave, PFail
  <2>5. CASE CNext \/ RmNext \/ Crash \/ UNCHANGED vars
    BY <2>1, <2>5 DEF CNext, CGate, CList, CStart, CRead, CDecide, CTick, CFail,
       RmNext, RmFile, Crash, vars
  <2>. QED BY <2>3, <2>4, <2>5 DEF Next
<1>6. ASSUME NEW b \in Blocks, Claimed(b)', NEW t \in Txs(b) PROVE Fully(t)'
  <2>1. CASE Claimed(b) BY <1>3, <1>4, <2>1
  <2>2. CASE ~Claimed(b)
    <3>1. TEnd /\ Head(batch) = LastTx(b) BY <1>6, <2>2, ClaimedStep
    <3>2. /\ Head(batch) = batch[1] /\ 1 \in 1..Len(batch)
          /\ Head(batch) \in Elems(batch)
      BY <3>1, ElemsTail, HeadTailProperties, EmptySeq DEF TEnd, TypeOK
    <3>3. Fully(LastTx(b)) BY <3>1, <3>2 DEF TEnd, FlushInv
    <3>4. IsLast(batch[1]) /\ batch[1][1] = b BY <3>1, <3>2 DEF IsLast, LastTx
    <3>5. Before(batch, 1) = {} BY DEF Before
    <3>6. \A u \in Others(b) : Fully(u) BY <1>3, <3>2, <3>4, <3>5 DEF BatchOrder
    <3>. QED BY <1>4, <3>3, <3>6, OthersElim
  <2>. QED BY <2>1, <2>2
<1>7. ASSUME NEW b \in Blocks, LastWithP(b)', NEW t \in Others(b) PROVE Safe(t)'
  <2>1. ~Crash
    <3>1. Elems(<<>>) = {} BY DEF Elems
    <3>. QED BY <1>7, <3>1 DEF Crash, LastWithP
  <2>2. CASE LastWithP(b) BY <1>2, <1>3, <2>1, <2>2, SafeKept
  <2>3. CASE ~LastWithP(b)
    <3>1. PMark(b) BY <1>7, <2>3, LastWithPStep
    <3>2. Elems(queue \o Burst(b)) = Elems(queue) \cup Elems(Burst(b))
      BY BurstSeq, ElemsConcat DEF TypeOK
    <3>3. t \in Elems(queue') BY <3>1, <3>2, OthersElim DEF PMark
    <3>. QED BY <3>3 DEF Safe, InMemory
  <2>. QED BY <2>2, <2>3
<1>8. ASSUME NEW t \in checked' PROVE Fully(t)'
  <2>1. CASE checked' = checked BY <1>3, <1>4, <2>1
  <2>2. ASSUME NEW b \in Blocks, CTick(b) PROVE Fully(t)'
    <3>1. Claimed(b) BY <2>2 DEF CTick, Claimed
    <3>2. t \in checked \/ t \in Txs(b) BY <2>2 DEF CTick, TxRows
    <3>. QED BY <1>3, <1>4, <3>1, <3>2
  <2>3. CASE CNext
    BY <2>1, <2>2, <2>3 DEF CNext, CGate, CList, CStart, CRead, CDecide, CFail
  <2>4. CASE DNext \/ PNext
    BY <2>1, <2>4 DEF DNext, DCount, DSelect, DStart, DRpc, DRpcFail, DDone, DFail,
       PNext, PBoot, PSelect, PEnd, PSelectAgain, PStart, PReset, PMark, PSave, PFail
  <2>5. CASE TNext \/ RmNext \/ Crash \/ UNCHANGED vars
    BY <2>1, <2>5 DEF TNext, TTake, TThrow, TFlushed, TEnd, TEndFail, TChunk,
       RmNext, RmFile, Crash, vars
  <2>. QED BY <2>3, <2>4, <2>5 DEF Next
<1>9. BatchOrder' BY <1>3, BatchOrderStep
<1>10. QueueOrder'
  <2>1. CASE Crash
    <3>1. Len(queue') = 0 BY <2>1, EmptySeq DEF Crash
    <3>. QED BY <3>1 DEF QueueOrder
  <2>2. CASE ~Crash BY <1>2, <1>3, <2>2, QueueOrderStep
  <2>. QED BY <2>1, <2>2
<1>. QED BY <1>5, <1>6, <1>7, <1>8, <1>9, <1>10

LEMMA StoredAlways == Spec => [](TypeOK /\ FlushInv /\ StoredInv)
<1>1. Init => TypeOK /\ FlushInv /\ StoredInv BY InitType, InitInv
<1>2. TypeOK /\ FlushInv /\ StoredInv /\ [Next]_vars => (TypeOK /\ FlushInv /\ StoredInv)'
  BY NextType, FlushStep, StoredStep
<1>. QED BY <1>1, <1>2, PTL DEF Spec

\* Without a failing chunk or a throwing item, a block reported completed has all
\* its rows, for every number of crashes and repeated picks.
THEOREM CompletedStored == Spec => []CompletedIsStored
<1>1. TypeOK /\ FlushInv /\ StoredInv => CompletedIsStored
  BY DEF StoredInv, CompletedIsStored, Claimed
<1>. QED BY <1>1, StoredAlways, PTL

\* Under the same condition is_completed_check is never set on a transaction
\* that lacks a row.
THEOREM CheckedStored == Spec => []CheckedIsStored
<1>1. TypeOK /\ FlushInv /\ StoredInv => CheckedIsStored
  BY DEF StoredInv, CheckedIsStored
<1>. QED BY <1>1, StoredAlways, PTL

=============================================================================
