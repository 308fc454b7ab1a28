--------------------------- MODULE TxStore_proofs ---------------------------
(***************************************************************************)
(* Proofs about TxStore, for every set of transactions, whatever they      *)
(* spend and create, every number of blocks and of faults.                 *)
(***************************************************************************)
EXTENDS TxStore, TLAPS

-----------------------------------------------------------------------------
(* Types.                                                                  *)

\* Each table and each daemon has its part.  The row of an outpoint belongs to a
\* transaction that spends it.
TxInv ==
    /\ tx \in [row : SUBSET Tx, conf : SUBSET Tx, del : SUBSET Tx, chk : SUBSET Tx,
               old : SUBSET Tx]
    /\ tx.conf \cup tx.del \cup tx.chk \cup tx.old \subseteq tx.row

InInv ==
    /\ txin \in [by : [Coin -> Tx \cup {0}], del : SUBSET Coin, done : SUBSET Coin]
    /\ txin.del \cup txin.done \subseteq {c \in Coin : txin.by[c] # 0}
    /\ \A c \in Coin : txin.by[c] # 0 => c \in Ins[txin.by[c]]

OutInv ==
    /\ txout \in [row : SUBSET Coin, del : SUBSET Coin, used : SUBSET Coin]
    /\ txout.del \cup txout.used \subseteq txout.row

MpInv == mp \in [Source \X Tx -> {"idle", "todo", "tx", "both", "in", "out", "mark"}]

FlInv ==
    fl \in [Blocks -> [pc : {"idle", "save", "done", "pass", "final"},
                       todo : SUBSET Tables, bad : BOOLEAN]]

CkInv ==
    /\ ck \in [pc : {"idle", "ins", "outs", "del", "pass"}, recs : SUBSET Tx,
               bad : SUBSET Tx, todo : SUBSET Tables]
    /\ ck.bad \subseteq ck.recs /\ ck.recs \subseteq tx.row

TmInv ==
    /\ tm \in [recs : SUBSET Tx, todo : SUBSET Tables]
    /\ tm.recs \subseteq tx.row

RestInv ==
    /\ mempool \subseteq Tx /\ height \in 0..NBlocks /\ blurred \in BOOLEAN
    /\ faults \in [{"crash", "stmt", "evict"} -> Nat]

TypeInv ==
    TxInv /\ InInv /\ OutInv /\ MpInv /\ FlInv /\ CkInv /\ TmInv /\ RestInv

LEMMA TypeInvOK == TypeInv => TypeOK
BY DEF TypeInv, TxInv, InInv, OutInv, MpInv, FlInv, CkInv, TmInv, RestInv, TypeOK

-----------------------------------------------------------------------------
(* What the statements do to the tables: no row ever disappears.           *)

TxGrows == tx.row \subseteq tx'.row
InGrows == \A c \in Coin : txin.by[c] # 0 => txin'.by[c] # 0
OutGrows == txout.row \subseteq txout'.row

LEMMA InBlockTx == \A b : InBlock(b) \subseteq Tx
BY DEF InBlock

LEMMA NotZero == 0 \notin Tx
BY TxStoreAssumption

LEMMA TxRowsEffect ==
    ASSUME TxInv, NEW T \in SUBSET Tx, tx' = TxRows(T)
    PROVE  /\ TxInv' /\ TxGrows
           /\ tx'.conf = tx.conf /\ tx'.chk = tx.chk /\ tx'.old = tx.old
           /\ T \subseteq tx'.row
BY DEF TxInv, TxRows, TxGrows

LEMMA TxSaveEffect ==
    ASSUME TxInv, NEW T \in SUBSET Tx, tx' = [TxRows(T) EXCEPT !.conf = @ \cup T]
    PROVE  /\ TxInv' /\ TxGrows
           /\ tx'.conf = tx.conf \cup T /\ tx'.chk = tx.chk /\ tx'.old = tx.old
BY DEF TxInv, TxRows, TxGrows

LEMMA InRowsEffect ==
    ASSUME InInv, NEW T \in SUBSET Tx, txin' = InRows(T)
    PROVE  /\ InInv' /\ InGrows
           /\ \A t \in T : \A c \in Ins[t] : txin'.by[c] # 0
           /\ txin'.del \subseteq txin.del
<1> DEFINE C == UNION {Ins[t] : t \in T}
           Pick(c) == CHOOSE t \in T : c \in Ins[t]
           by == [c \in Coin |-> IF c \in C THEN Pick(c) ELSE txin.by[c]]
<1>1. \A t \in T : Ins[t] \subseteq Coin
  BY TxStoreAssumption
<1>2. \A c \in C : Pick(c) \in T /\ c \in Ins[Pick(c)]
  OBVIOUS
<1>3. \A c \in C : Pick(c) \in Tx /\ Pick(c) # 0 /\ c \in Ins[Pick(c)]
  BY <1>2, NotZero
<1>4. txin' = [txin EXCEPT !.by = by, !.del = @ \ C]
  BY DEF InRows, InInv
<1>5. txin'.by = by /\ txin'.del = txin.del \ C /\ txin'.done = txin.done
  BY <1>4 DEF InInv
<1>6. txin' \in [by : [Coin -> Tx \cup {0}], del : SUBSET Coin, done : SUBSET Coin]
  <2>1. by \in [Coin -> Tx \cup {0}]
    BY <1>3 DEF InInv
  <2> HIDE DEF by, C
  <2> QED
    BY <1>4, <2>1 DEF InInv
<1> HIDE DEF Pick
<1>7. InGrows
  BY <1>3, <1>5 DEF InGrows
<1>8. \A c \in Coin : txin'.by[c] # 0 => c \in Ins[txin'.by[c]]
  BY <1>3, <1>5 DEF InInv
<1>9. txin'.del \cup txin'.done \subseteq {c \in Coin : txin'.by[c] # 0}
  BY <1>5, <1>7 DEF InInv, InGrows
<1>10. \A t \in T : \A c \in Ins[t] : txin'.by[c] # 0
  BY <1>1, <1>3, <1>5
<1> QED
  BY <1>5, <1>6, <1>7, <1>8, <1>9, <1>10 DEF InInv

LEMMA OutRowsEffect ==
    ASSUME OutInv, NEW T \in SUBSET Tx, txout' = OutRows(T)
    PROVE  /\ OutInv' /\ OutGrows
           /\ \A t \in T : Outs[t] \subseteq txout'.row
           /\ txout'.used = txout.used /\ txout'.del \subseteq txout.del
<1> DEFINE C == UNION {Outs[t] : t \in T}
<1>1. C \subseteq Coin
  BY TxStoreAssumption
<1>2. txout' = [txout EXCEPT !.row = @ \cup C, !.del = @ \ C]
  BY DEF OutRows
<1>3. txout'.row = txout.row \cup C /\ txout'.del = txout.del \ C /\ txout'.used = txout.used
  BY <1>2 DEF OutInv
<1>4. \A t \in T : Outs[t] \subseteq C
  OBVIOUS
<1> HIDE DEF C
<1> QED
  BY <1>1, <1>2, <1>3, <1>4 DEF OutInv, OutGrows

LEMMA SpentEffect ==
    ASSUME OutInv, NEW T \in SUBSET Tx, txout' = Spent(T)
    PROVE  /\ OutInv' /\ OutGrows
           /\ txout'.row = txout.row /\ txout'.del = txout.del
           /\ txout'.used = txout.used \cup ((UNION {Ins[t] : t \in T}) \cap (txout.row \ txout.del))
<1> DEFINE U == UNION {Ins[t] : t \in T}
           C == U \cap (txout.row \ txout.del)
<1>1. txout' = [txout EXCEPT !.used = @ \cup C]
  BY DEF Spent
<1> HIDE DEF U
<1>2. C \subseteq txout.row
  OBVIOUS
<1> HIDE DEF C
<1>3. /\ OutInv' /\ OutGrows
      /\ txout'.row = txout.row /\ txout'.del = txout.del /\ txout'.used = txout.used \cup C
  BY <1>1, <1>2 DEF OutInv, OutGrows
<1> QED
  BY <1>3 DEF C, U

LEMMA DeleteEffect ==
    ASSUME TxInv, InInv, OutInv, NEW T \in SUBSET Tx, NEW k, Delete(T, k)
    PROVE  /\ TxInv' /\ InInv' /\ OutInv' /\ TxGrows /\ InGrows /\ OutGrows
           /\ tx'.conf = tx.conf /\ tx'.chk = tx.chk /\ tx'.row = tx.row /\ tx'.old = tx.old
<1>1. CASE tx' = DelTx(T) /\ UNCHANGED <<txin, txout>>
  BY <1>1 DEF DelTx, TxInv, InInv, OutInv, TxGrows, InGrows, OutGrows
<1>2. CASE txin' = DelIns(T) /\ UNCHANGED <<tx, txout>>
  <2>1. {c \in Coin : txin.by[c] \in T} \subseteq {c \in Coin : txin.by[c] # 0}
    BY NotZero
  <2>2. /\ txin'.by = txin.by /\ txin'.done = txin.done
        /\ txin'.del = txin.del \cup {c \in Coin : txin.by[c] \in T}
    BY <1>2 DEF DelIns, InInv
  <2>3. txin' \in [by : [Coin -> Tx \cup {0}], del : SUBSET Coin, done : SUBSET Coin]
    BY <1>2, <2>1 DEF DelIns, InInv
  <2> QED
    BY <1>2, <2>1, <2>2, <2>3 DEF TxInv, InInv, OutInv, TxGrows, InGrows, OutGrows
<1>3. CASE txout' = DelOuts(T) /\ UNCHANGED <<tx, txin>>
  <2> DEFINE U == UNION {Outs[t] : t \in T}
             C == U \cap txout.row
  <2>1. txout' = [txout EXCEPT !.del = @ \cup C]
    BY <1>3 DEF DelOuts
  <2> HIDE DEF U
  <2>2. C \subseteq txout.row
    OBVIOUS
  <2> HIDE DEF C
  <2> QED
    BY <1>3, <2>1, <2>2 DEF TxInv, InInv, OutInv, TxGrows, InGrows, OutGrows
<1> QED
  BY <1>1, <1>2, <1>3 DEF Delete

-----------------------------------------------------------------------------
(* The invariant TypeInv.                                                  *)

LEMMA TypeInit == Init => TypeInv
<1> SUFFICES ASSUME Init PROVE TypeInv
  OBVIOUS
<1>1. TxInv
  BY DEF Init, TxInv
<1>2. InInv
  <2>1. txin.by = [c \in Coin |-> 0] /\ \A c \in Coin : txin.by[c] = 0
    BY DEF Init
  <2> QED
    BY <2>1 DEF Init, InInv
<1>3. OutInv
  BY DEF Init, OutInv
<1>4. MpInv /\ FlInv
  BY DEF Init, MpInv, FlInv
<1>5. CkInv /\ TmInv
  BY DEF Init, CkInv, TmInv
<1>6. RestInv
  <2>1. faults \in [{"crash", "stmt", "evict"} -> Nat]
    BY DEF Init
  <2>2. mempool = {} /\ height = 0 /\ blurred = FALSE
    BY DEF Init
  <2>3. 0 \in 0..NBlocks
    BY TxStoreAssumption
  <2> QED
    BY <2>1, <2>2, <2>3 DEF RestInv
<1> QED
  BY <1>1, <1>2, <1>3, <1>4, <1>5, <1>6 DEF TypeInv

\* What the node does.
LEMMA TypeNode ==
    ASSUME TypeInv, \/ \E t \in Tx : Accept(t) \/ Evict(t) \/ Age(t) \/ SyncGone(t)
                    \/ Mine \/ SyncStart
    PROVE  TypeInv' /\ TxGrows /\ InGrows /\ OutGrows
<1> USE DEF TypeInv, tables, node, TxGrows, InGrows, OutGrows
<1>1. ASSUME NEW t \in Tx, Accept(t) PROVE TypeInv' /\ TxGrows /\ InGrows /\ OutGrows
  <2>1. PICK S \in SUBSET (Source \ {"sync"}) :
          mp' = [p \in DOMAIN mp |->
                   IF p[2] = t /\ p[1] \in S /\ mp[p] = "idle" THEN "todo" ELSE mp[p]]
    BY <1>1 DEF Accept
  <2>2. MpInv'
    BY <2>1 DEF MpInv
  <2> QED
    BY <1>1, <2>2 DEF Accept, TxInv, InInv, OutInv, FlInv, CkInv, TmInv, RestInv
<1>2. ASSUME NEW t \in Tx, Evict(t) PROVE TypeInv' /\ TxGrows /\ InGrows /\ OutGrows
  BY <1>2 DEF Evict, TxInv, InInv, OutInv, MpInv, FlInv, CkInv, TmInv, RestInv
<1>3. ASSUME NEW t \in Tx, Age(t) PROVE TypeInv' /\ TxGrows /\ InGrows /\ OutGrows
  BY <1>3 DEF Age, TxInv, InInv, OutInv, MpInv, FlInv, CkInv, TmInv, RestInv
<1>4. ASSUME NEW t \in Tx, SyncGone(t) PROVE TypeInv' /\ TxGrows /\ InGrows /\ OutGrows
  BY <1>4 DEF SyncGone, TxInv, InInv, OutInv, MpInv, FlInv, CkInv, TmInv, RestInv
<1>5. CASE Mine
  <2>1. mempool' \subseteq mempool /\ height' \in 0..NBlocks
    BY <1>5, TxStoreAssumption DEF Mine, RestInv
  <2> QED
    BY <1>5, <2>1 DEF Mine, TxInv, InInv, OutInv, MpInv, FlInv, CkInv, TmInv, RestInv
<1>6. CASE SyncStart
  BY <1>6 DEF SyncStart, TxInv, InInv, OutInv, MpInv, FlInv, CkInv, TmInv, RestInv
<1> QED
  BY <1>1, <1>2, <1>3, <1>4, <1>5, <1>6

\* Transactions of the mempool.
LEMMA TypeMem ==
    ASSUME TypeInv, NEW s \in Source, NEW t \in Tx, MemStep(s, t) \/ MemFail(s, t)
    PROVE  TypeInv' /\ TxGrows /\ InGrows /\ OutGrows
<1> USE DEF TypeInv, tables, node
<1>1. CASE Begin(s, t)
  BY <1>1 DEF Begin, TxInv, InInv, OutInv, MpInv, FlInv, CkInv, TmInv, RestInv,
     TxGrows, InGrows, OutGrows
<1>2. CASE UpsertTx(s, t)
  <2>1. TxInv' /\ TxGrows
    BY <1>2, TxRowsEffect DEF UpsertTx
  <2> QED
    BY <1>2, <2>1 DEF UpsertTx, InInv, OutInv, MpInv, FlInv, CkInv, TmInv, RestInv,
       TxGrows, InGrows, OutGrows
<1>3. CASE UpsertIn(s, t)
  <2>1. InInv' /\ InGrows
    BY <1>3, InRowsEffect DEF UpsertIn
  <2> QED
    BY <1>3, <2>1 DEF UpsertIn, TxInv, OutInv, MpInv, FlInv, CkInv, TmInv, RestInv,
       TxGrows, OutGrows
<1>4. CASE UpsertOut(s, t)
  <2>1. OutInv' /\ OutGrows
    BY <1>4, OutRowsEffect DEF UpsertOut
  <2> QED
    BY <1>4, <2>1 DEF UpsertOut, TxInv, InInv, MpInv, FlInv, CkInv, TmInv, RestInv,
       TxGrows, InGrows
<1>5. CASE Mark(s, t)
  <2>1. OutInv' /\ OutGrows
    BY <1>5, SpentEffect DEF Mark
  <2> QED
    BY <1>5, <2>1 DEF Mark, TxInv, InInv, MpInv, FlInv, CkInv, TmInv, RestInv,
       TxGrows, InGrows
<1>6. CASE MemFail(s, t)
  <2>1. MpInv'
    BY <1>6 DEF MemFail, MpInv
  <2> QED
    BY <1>6, <2>1 DEF MemFail, TxInv, InInv, OutInv, FlInv, CkInv, TmInv, RestInv,
       TxGrows, InGrows, OutGrows
<1> QED
  BY <1>1, <1>2, <1>3, <1>4, <1>5, <1>6 DEF MemStep

\* Transactions of a block.
LEMMA TypeBlock ==
    ASSUME TypeInv, NEW b \in Blocks,
           BlockStep(b) \/ BMarkFail(b) \/ \E k \in Tables : BFail(b, k)
    PROVE  TypeInv' /\ TxGrows /\ InGrows /\ OutGrows
<1> USE DEF TypeInv, tables, node
<1>1. CASE BTake(b)
  BY <1>1 DEF BTake, TxInv, InInv, OutInv, MpInv, FlInv, CkInv, TmInv, RestInv,
     TxGrows, InGrows, OutGrows
<1>2. ASSUME NEW k \in Tables, BSave(b, k) PROVE TypeInv' /\ TxGrows /\ InGrows /\ OutGrows
  <2>1. FlInv' /\ MpInv' /\ RestInv' /\ ck' = ck /\ tm' = tm
    BY <1>2 DEF BSave, FlInv, MpInv, RestInv
  <2>2. TxInv' /\ InInv' /\ OutInv' /\ TxGrows /\ InGrows /\ OutGrows
    <3>1. CASE /\ tx' = [TxRows(InBlock(b)) EXCEPT !.conf = @ \cup InBlock(b)]
               /\ UNCHANGED <<txin, txout>>
      <4>1. TxInv' /\ TxGrows
        BY <3>1, TxSaveEffect, InBlockTx
      <4> QED
        BY <3>1, <4>1 DEF InInv, OutInv, InGrows, OutGrows
    <3>2. CASE txin' = InRows(InBlock(b)) /\ UNCHANGED <<tx, txout>>
      <4>1. InInv' /\ InGrows
        BY <3>2, InRowsEffect, InBlockTx
      <4> QED
        BY <3>2, <4>1 DEF TxInv, OutInv, TxGrows, OutGrows
    <3>3. CASE txout' = OutRows(InBlock(b)) /\ UNCHANGED <<tx, txin>>
      <4>1. OutInv' /\ OutGrows
        BY <3>3, OutRowsEffect, InBlockTx
      <4> QED
        BY <3>3, <4>1 DEF TxInv, InInv, TxGrows, InGrows
    <3> QED
      BY <1>2, <3>1, <3>2, <3>3 DEF BSave
  <2> QED
    BY <2>1, <2>2 DEF CkInv, TmInv, TxGrows
<1>3. ASSUME NEW k \in Tables, BFail(b, k) PROVE TypeInv' /\ TxGrows /\ InGrows /\ OutGrows
  <2>1. FlInv'
    <3> DEFINE new == [fl[b] EXCEPT !.todo = @ \ {k}, !.bad = TRUE]
    <3>1. new \in [pc : {"idle", "save", "done", "pass", "final"},
                   todo : SUBSET Tables, bad : BOOLEAN]
      BY DEF FlInv
    <3>2. fl' = [fl EXCEPT ![b] = new]
      BY <1>3 DEF BFail, FlInv
    <3> HIDE DEF new
    <3> QED
      BY <3>1, <3>2 DEF FlInv
  <2> QED
    BY <1>3, <2>1 DEF BFail, TxInv, InInv, OutInv, MpInv, CkInv, TmInv, RestInv,
       TxGrows, InGrows, OutGrows
<1>4. ASSUME Settle(b) PROVE FlInv'
  BY <1>4 DEF Settle, FlInv
<1>5. CASE BMark(b)
  <2>1. OutInv' /\ OutGrows
    BY <1>5, SpentEffect, InBlockTx DEF BMark
  <2> QED
    BY <1>4, <1>5, <2>1 DEF BMark, TxInv, InInv, MpInv, CkInv, TmInv, RestInv,
       TxGrows, InGrows
<1>6. CASE BMarkFail(b)
  BY <1>4, <1>6 DEF BMarkFail, TxInv, InInv, OutInv, MpInv, CkInv, TmInv, RestInv,
     TxGrows, InGrows, OutGrows
<1>7. CASE BCheck(b)
  <2>1. FlInv'
    BY <1>7 DEF BCheck, FlInv
  <2> QED
    BY <1>7, <2>1 DEF BCheck, TxInv, InInv, OutInv, MpInv, CkInv, TmInv, RestInv,
       TxGrows, InGrows, OutGrows
<1>8. CASE BChecked(b)
  <2>1. FlInv' /\ TxInv' /\ tx'.row = tx.row
    BY <1>8 DEF BChecked, FlInv, TxInv
  <2> QED
    BY <1>8, <2>1 DEF BChecked, InInv, OutInv, MpInv, CkInv, TmInv, RestInv,
       TxGrows, InGrows, OutGrows
<1> QED
  BY <1>1, <1>2, <1>3, <1>5, <1>6, <1>7, <1>8 DEF BlockStep

\* checkMemPool.
LEMMA TypeCheck ==
    ASSUME TypeInv, CheckStep \/ CFail
    PROVE  TypeInv' /\ TxGrows /\ InGrows /\ OutGrows
<1> USE DEF TypeInv, tables, node
<1>1. CASE CList
  BY <1>1 DEF CList, Live, TxInv, InInv, OutInv, MpInv, FlInv, CkInv, TmInv, RestInv,
     TxGrows, InGrows, OutGrows
<1>2. CASE CIns
  BY <1>2 DEF CIns, TxInv, InInv, OutInv, MpInv, FlInv, CkInv, TmInv, RestInv,
     TxGrows, InGrows, OutGrows
<1>3. CASE COuts
  <2> DEFINE bad == ck.bad \cup {t \in ck.recs : ~(Outs[t] \subseteq txout.row \ txout.del)}
  <2>1. bad \subseteq ck.recs
    BY DEF CkInv
  <2> HIDE DEF bad
  <2>2. ck' = IF bad = {} THEN [ck EXCEPT !.pc = "pass"]
              ELSE [ck EXCEPT !.pc = "del", !.bad = bad, !.todo = Tables]
    BY <1>3 DEF COuts, bad
  <2>3. CkInv'
    BY <1>3, <2>1, <2>2 DEF COuts, CkInv
  <2> QED
    BY <1>3, <2>3 DEF COuts, TxInv, InInv, OutInv, MpInv, FlInv, TmInv, RestInv,
       TxGrows, InGrows, OutGrows
<1>4. ASSUME NEW k \in Tables, CDelete(k) PROVE TypeInv' /\ TxGrows /\ InGrows /\ OutGrows
  <2>1. TxInv' /\ InInv' /\ OutInv' /\ TxGrows /\ InGrows /\ OutGrows
    BY <1>4, DeleteEffect DEF CDelete, CkInv
  <2> QED
    BY <1>4, <2>1 DEF CDelete, MpInv, FlInv, CkInv, TmInv, RestInv, TxGrows
<1>5. CASE CPass
  <2>1. TxInv' /\ tx'.row = tx.row
    BY <1>5 DEF CPass, TxInv, CkInv
  <2> QED
    BY <1>5, <2>1 DEF CPass, CIdle, InInv, OutInv, MpInv, FlInv, CkInv, TmInv, RestInv,
       TxGrows, InGrows, OutGrows
<1>6. CASE CFail
  BY <1>6 DEF CFail, CIdle, TxInv, InInv, OutInv, MpInv, FlInv, CkInv, TmInv, RestInv,
     TxGrows, InGrows, OutGrows
<1> QED
  BY <1>1, <1>2, <1>3, <1>4, <1>5, <1>6 DEF CheckStep

\* checkTxTimeout, useTxo, and a crash.
LEMMA TypeOthers ==
    ASSUME TypeInv, TimeoutStep \/ UseTxo \/ Crash
    PROVE  TypeInv' /\ TxGrows /\ InGrows /\ OutGrows
<1> USE DEF TypeInv, tables, node
<1>1. CASE TList
  BY <1>1 DEF TList, Live, TxInv, InInv, OutInv, MpInv, FlInv, CkInv, TmInv, RestInv, Tables,
     TxGrows, InGrows, OutGrows
<1>2. ASSUME NEW k \in Tables, TDelete(k) PROVE TypeInv' /\ TxGrows /\ InGrows /\ OutGrows
  <2>1. TxInv' /\ InInv' /\ OutInv' /\ TxGrows /\ InGrows /\ OutGrows
    BY <1>2, DeleteEffect DEF TDelete, TmInv
  <2> QED
    BY <1>2, <2>1 DEF TDelete, TIdle, MpInv, FlInv, CkInv, TmInv, RestInv, TxGrows
<1>3. CASE UseTxo
  <2>1. Unprocessed \subseteq txout.row /\ Unprocessed \subseteq {c \in Coin : txin.by[c] # 0}
    BY DEF Unprocessed, OutInv
  <2> QED
    BY <1>3, <2>1 DEF UseTxo, TxInv, InInv, OutInv, MpInv, FlInv, CkInv, TmInv, RestInv,
       TxGrows, InGrows, OutGrows
<1>4. CASE Crash
  <2>1. FlInv' /\ MpInv'
    BY <1>4 DEF Crash, FlInv, MpInv
  <2> QED
    BY <1>4, <2>1 DEF Crash, CIdle, TIdle, TxInv, InInv, OutInv, CkInv, TmInv, RestInv,
       TxGrows, InGrows, OutGrows
<1> QED
  BY <1>1, <1>2, <1>3, <1>4 DEF TimeoutStep

LEMMA TypeStep ==
    ASSUME TypeInv, [Next]_vars
    PROVE  TypeInv' /\ TxGrows /\ InGrows /\ OutGrows
<1>1. CASE UNCHANGED vars
  BY <1>1 DEF vars, TypeInv, TxInv, InInv, OutInv, MpInv, FlInv, CkInv, TmInv, RestInv,
     TxGrows, InGrows, OutGrows
<1> QED
  BY <1>1, TypeNode, TypeMem, TypeBlock, TypeCheck, TypeOthers DEF Next

\* Every variable of TxStore stays in its type, and every flag is on a row.
THEOREM TypeCorrect == Spec => []TypeOK
<1>1. TypeInv /\ [Next]_vars => TypeInv'
  BY TypeStep
<1> QED
  BY <1>1, TypeInit, TypeInvOK, PTL DEF Spec

-----------------------------------------------------------------------------
(* What is_completed_check promises.                                       *)

\* Each outpoint has a row, and so has each output.
InsHere(t) == \A c \in Ins[t] : txin.by[c] # 0
Whole(t) == Outs[t] \subseteq txout.row /\ InsHere(t)

\* What the two checks know between reading and writing.
WholeInv ==
    /\ \A t \in tx.chk : Whole(t)
    /\ \A b \in Blocks : fl[b].pc = "pass" => \A t \in InBlock(b) \cap tx.conf : Whole(t)
    /\ ck.pc = "outs" => \A t \in ck.recs \ ck.bad : InsHere(t)
    /\ ck.pc \in {"del", "pass"} => \A t \in ck.recs \ ck.bad : Whole(t)

\* Rows never disappear, so neither does a whole transaction.
LEMMA WholeStays ==
    ASSUME TypeInv, InGrows, OutGrows, NEW t \in Tx
    PROVE  (InsHere(t) => InsHere(t)') /\ (Whole(t) => Whole(t)')
BY TxStoreAssumption DEF InsHere, Whole, InGrows, OutGrows

\* The steps that write none of what WholeInv reads but the rows.
WholeFrame ==
    /\ tx'.chk = tx.chk /\ tx'.conf = tx.conf
    /\ \A b \in Blocks : fl'[b].pc = "pass" => fl[b].pc = "pass"
    /\ UNCHANGED ck

LEMMA WholeFramed ==
    ASSUME TypeInv, WholeInv, WholeFrame, InGrows, OutGrows
    PROVE  WholeInv'
<1>1. \A t \in tx.chk : Whole(t)'
  BY WholeStays DEF WholeInv, TypeInv, TxInv
<1>2. \A b \in Blocks : fl'[b].pc = "pass" =>
         \A t \in InBlock(b) \cap tx.conf : Whole(t)'
  BY WholeStays, InBlockTx DEF WholeInv, WholeFrame
<1>3. \A t \in ck.recs \ ck.bad : (InsHere(t) => InsHere(t)') /\ (Whole(t) => Whole(t)')
  BY WholeStays DEF TypeInv, CkInv
<1>4. /\ ck'.pc = "outs" => \A t \in ck.recs \ ck.bad : InsHere(t)'
      /\ ck'.pc \in {"del", "pass"} => \A t \in ck.recs \ ck.bad : Whole(t)'
  BY <1>3 DEF WholeInv, WholeFrame
<1>5. \A b : InBlock(b)' = InBlock(b)
  BY DEF InBlock
<1> QED
  BY <1>1, <1>2, <1>4, <1>5 DEF WholeInv, WholeFrame

LEMMA WholeStep ==
    ASSUME TypeInv, WholeInv, [Next]_vars
    PROVE  WholeInv'
<1>1. TypeInv' /\ InGrows /\ OutGrows
  BY TypeStep
<1> SUFFICES ASSUME ~WholeFrame PROVE WholeInv'
  BY <1>1, WholeFramed
<1>2. CASE UNCHANGED vars
  BY <1>2 DEF vars, WholeFrame
<1>3. ASSUME NEW t \in Tx, Accept(t) \/ Evict(t) \/ Age(t) \/ SyncGone(t) PROVE WholeInv'
  BY <1>3 DEF Accept, Evict, Age, SyncGone, tables, node, WholeFrame, TypeInv, TxInv
<1>4. CASE Mine \/ SyncStart
  BY <1>4 DEF Mine, SyncStart, tables, node, WholeFrame
<1>5. ASSUME NEW s \in Source, NEW t \in Tx, MemStep(s, t) \/ MemFail(s, t) PROVE WholeInv'
  <2>1. CASE UpsertTx(s, t)
    BY <2>1, TxRowsEffect DEF UpsertTx, node, WholeFrame, TypeInv
  <2> QED
    BY <1>5, <2>1 DEF MemStep, Begin, UpsertIn, UpsertOut, Mark, MemFail, tables, node, WholeFrame
<1>6. ASSUME NEW b \in Blocks,
             BlockStep(b) \/ BMarkFail(b) \/ \E k \in Tables : BFail(b, k)
      PROVE  WholeInv'
  <2>1. CASE BTake(b)
    BY <2>1 DEF BTake, tables, node, WholeFrame, TypeInv, FlInv
  <2>2. ASSUME NEW k \in Tables, BSave(b, k) PROVE WholeInv'
    \* Its block is not the one that passes.
    <3>1. PICK C \in {{}, InBlock(b)} : tx'.chk = tx.chk /\ tx'.conf = tx.conf \cup C
      BY <2>2, TxSaveEffect, InBlockTx DEF BSave, TypeInv
    <3>2. \A d \in Blocks : fl'[d].pc = "pass" => d # b /\ fl[d].pc = "pass"
      BY <2>2 DEF BSave, TypeInv, FlInv
    <3>3. \A d \in Blocks : d # b => InBlock(d) \cap tx'.conf = InBlock(d) \cap tx.conf
      BY <3>1 DEF InBlock
    <3>4. \A t \in tx'.chk : Whole(t)'
      BY <1>1, <3>1, WholeStays DEF WholeInv, TypeInv, TxInv
    <3>5. \A d \in Blocks : fl'[d].pc = "pass" =>
             \A t \in InBlock(d) \cap tx'.conf : Whole(t)'
      BY <1>1, <3>2, <3>3, WholeStays, InBlockTx DEF WholeInv
    <3>6. \A t \in ck.recs \ ck.bad : (InsHere(t) => InsHere(t)') /\ (Whole(t) => Whole(t)')
      BY <1>1, WholeStays DEF TypeInv, CkInv
    <3>7. ck' = ck
      BY <2>2 DEF BSave
    <3>8. \A d : InBlock(d)' = InBlock(d)
      BY DEF InBlock
    <3> QED
      BY <3>4, <3>5, <3>6, <3>7, <3>8 DEF WholeInv
  <2>3. ASSUME NEW k \in Tables, BFail(b, k) PROVE WholeInv'
    BY <2>3 DEF BFail, tables, node, WholeFrame, TypeInv, FlInv
  <2>4. CASE BMark(b) \/ BMarkFail(b)
    BY <2>4 DEF BMark, BMarkFail, Settle, tables, node, WholeFrame, TypeInv, FlInv
  <2>5. CASE BCheck(b)
    \* What it counted is there.
    <3>1. /\ UNCHANGED <<tx, txin, txout, ck>>
          /\ fl' = [fl EXCEPT ![b].pc =
                      IF WholeIns(InBlock(b) \cap tx.conf) /\ WholeOuts(InBlock(b) \cap tx.conf)
                      THEN "pass" ELSE "idle"]
      BY <2>5 DEF BCheck, tables
    <3>2. fl'[b].pc = "pass" => \A t \in InBlock(b) \cap tx.conf : Whole(t)
      <4>1. fl'[b].pc = "pass" => WholeIns(InBlock(b) \cap tx.conf)
                                  /\ WholeOuts(InBlock(b) \cap tx.conf)
        BY <3>1 DEF TypeInv, FlInv
      <4> QED
        BY <4>1, NotZero, InBlockTx DEF WholeIns, WholeOuts, Whole, InsHere
    <3>3. \A d \in Blocks \ {b} : fl'[d] = fl[d]
      BY <3>1 DEF TypeInv, FlInv
    <3>4. \A t : (Whole(t)' <=> Whole(t)) /\ (InsHere(t)' <=> InsHere(t))
      BY <3>1 DEF Whole, InsHere
    <3>5. \A d : InBlock(d)' = InBlock(d)
      BY DEF InBlock
    <3> QED
      BY <3>1, <3>2, <3>3, <3>4, <3>5 DEF WholeInv
  <2>6. CASE BChecked(b)
    <3>1. /\ UNCHANGED <<txin, txout, ck>> /\ fl[b].pc = "pass"
          /\ tx'.chk = tx.chk \cup (InBlock(b) \cap tx.conf) /\ tx'.conf = tx.conf
          /\ \A d \in Blocks : fl'[d].pc = "pass" => fl[d].pc = "pass"
      BY <2>6 DEF BChecked, TypeInv, TxInv, FlInv
    <3>2. \A t : (Whole(t)' <=> Whole(t)) /\ (InsHere(t)' <=> InsHere(t))
      BY <3>1 DEF Whole, InsHere
    <3>3. \A d : InBlock(d)' = InBlock(d)
      BY DEF InBlock
    <3> QED
      BY <3>1, <3>2, <3>3 DEF WholeInv
  <2> QED
    BY <1>6, <2>1, <2>2, <2>3, <2>4, <2>5, <2>6 DEF BlockStep
<1>7. ASSUME UNCHANGED <<txin, txout, fl>>, tx'.conf = tx.conf,
             \A t \in tx'.chk : Whole(t),
             ck'.pc = "outs" => \A t \in ck'.recs \ ck'.bad : InsHere(t),
             ck'.pc \in {"del", "pass"} => \A t \in ck'.recs \ ck'.bad : Whole(t)
      PROVE  WholeInv'
  <2>1. \A t : (Whole(t)' <=> Whole(t)) /\ (InsHere(t)' <=> InsHere(t))
    BY <1>7 DEF Whole, InsHere
  <2>2. \A d : InBlock(d)' = InBlock(d)
    BY DEF InBlock
  <2> QED
    BY <1>7, <2>1, <2>2 DEF WholeInv
<1>8. CASE CheckStep \/ CFail
  <2>1. CASE CList
    BY <1>7, <2>1 DEF CList, tables, WholeInv
  <2>2. CASE CIns
    <3>1. /\ UNCHANGED <<tx, txin, txout, fl>> /\ ck'.recs = ck.recs
          /\ ck'.pc = "outs" /\ ck'.bad = {t \in ck.recs : CountIn(t) # Ins[t]}
      BY <2>2 DEF CIns, tables, TypeInv, CkInv
    <3>2. ASSUME NEW t \in ck.recs \ ck'.bad PROVE InsHere(t)
      <4>1. CountIn(t) = Ins[t] /\ t \in Tx
        BY <3>1 DEF TypeInv, CkInv
      <4>2. \A c \in Ins[t] : txin.by[c] = t
        BY <4>1 DEF CountIn
      <4> QED
        BY <4>1, <4>2, NotZero DEF InsHere
    <3> QED
      BY <1>7, <3>1, <3>2 DEF WholeInv
  <2>3. CASE COuts
    <3> DEFINE bad == ck.bad \cup {t \in ck.recs : ~(Outs[t] \subseteq txout.row \ txout.del)}
    <3>1. /\ UNCHANGED <<tx, txin, txout, fl>> /\ ck.pc = "outs"
          /\ ck' = IF bad = {} THEN [ck EXCEPT !.pc = "pass"]
                   ELSE [ck EXCEPT !.pc = "del", !.bad = bad, !.todo = Tables]
      BY <2>3 DEF COuts, tables
    <3>2. \A t \in ck.recs \ bad : Outs[t] \subseteq txout.row /\ t \in ck.recs \ ck.bad
      OBVIOUS
    <3>3. bad = {} => ck.bad = {}
      OBVIOUS
    <3> HIDE DEF bad
    <3>4. ck'.pc # "outs" /\ ck'.recs = ck.recs /\ ck'.bad = bad
      BY <3>1, <3>3 DEF TypeInv, CkInv
    <3>5. \A t \in ck.recs \ bad : Whole(t)
      BY <3>1, <3>2 DEF WholeInv, Whole
    <3> QED
      BY <1>7, <3>1, <3>4, <3>5 DEF WholeInv
  <2>4. ASSUME NEW k \in Tables, CDelete(k) PROVE WholeInv'
    <3>1. /\ tx'.chk = tx.chk /\ tx'.conf = tx.conf
      BY <2>4, DeleteEffect DEF CDelete, TypeInv, CkInv
    <3>2. /\ ck.pc = "del" /\ ck'.pc \in {"del", "pass"} /\ fl' = fl
          /\ ck'.recs = ck.recs /\ ck'.bad = ck.bad
      BY <2>4 DEF CDelete, TypeInv, CkInv
    <3>3. \A t \in tx.chk : Whole(t)'
      BY <1>1, WholeStays DEF WholeInv, TypeInv, TxInv
    <3>4. \A b \in Blocks : fl[b].pc = "pass" =>
             \A t \in InBlock(b) \cap tx.conf : Whole(t)'
      BY <1>1, WholeStays, InBlockTx DEF WholeInv
    <3>5. \A t \in ck.recs \ ck.bad : Whole(t)'
      BY <1>1, <3>2, WholeStays DEF WholeInv, TypeInv, CkInv
    <3>6. \A b : InBlock(b)' = InBlock(b)
      BY DEF InBlock
    <3> QED
      BY <3>1, <3>2, <3>3, <3>4, <3>5, <3>6 DEF WholeInv
  <2>5. CASE CPass
    <3>1. /\ UNCHANGED <<txin, txout, fl>> /\ ck.pc = "pass" /\ ck'.pc = "idle"
          /\ tx'.conf = tx.conf /\ tx'.chk = tx.chk \cup (ck.recs \ ck.bad)
      BY <2>5 DEF CPass, CIdle, TypeInv, TxInv
    <3> QED
      BY <1>7, <3>1 DEF WholeInv
  <2>6. CASE CFail
    BY <1>7, <2>6 DEF CFail, CIdle, tables, WholeInv
  <2> QED
    BY <1>8, <2>1, <2>2, <2>3, <2>4, <2>5, <2>6 DEF CheckStep
<1>9. CASE TimeoutStep
  <2>1. CASE TList
    BY <2>1 DEF TList, tables, node, WholeFrame
  <2>2. ASSUME NEW k \in Tables, TDelete(k) PROVE WholeInv'
    <3>1. tx'.chk = tx.chk /\ tx'.conf = tx.conf
      BY <2>2, DeleteEffect DEF TDelete, TypeInv, TmInv
    <3> QED
      BY <2>2, <3>1 DEF TDelete, node, WholeFrame
  <2> QED
    BY <1>9, <2>1, <2>2 DEF TimeoutStep
<1>10. CASE UseTxo
  BY <1>10 DEF UseTxo, node, WholeFrame
<1>11. CASE Crash
  <2>1. \A b \in Blocks : fl'[b].pc # "pass"
    BY <1>11 DEF Crash, TypeInv, FlInv
  <2>2. UNCHANGED <<tx, txin, txout>> /\ ck'.pc = "idle"
    BY <1>11 DEF Crash, CIdle, tables
  <2>3. \A t : Whole(t)' <=> Whole(t)
    BY <2>2 DEF Whole, InsHere
  <2> QED
    BY <2>1, <2>2, <2>3 DEF WholeInv
<1> QED
  BY <1>2, <1>3, <1>4, <1>5, <1>6, <1>8, <1>9, <1>10, <1>11 DEF Next

\* A transaction with is_completed_check has all its rows: the rows of outpoints that
\* are not its own belong to a transaction that spends the same output.
THEOREM CheckedWhole == Spec => []CheckedIsWhole
<1>1. Init => WholeInv
  BY DEF Init, WholeInv
<1>2. TypeInv /\ WholeInv /\ [Next]_vars => TypeInv' /\ WholeInv'
  BY TypeStep, WholeStep
<1>3. TypeInv /\ WholeInv => CheckedIsWhole
  <2> SUFFICES ASSUME TypeInv, WholeInv, NEW t \in tx.chk
               PROVE  /\ Outs[t] \subseteq txout.row
                      /\ \A c \in Ins[t] : txin.by[c] = t
                                            \/ \E u \in Tx : Conflict(t, u) /\ txin.by[c] = u
    BY DEF CheckedIsWhole
  <2>1. Whole(t) /\ t \in Tx
    BY DEF WholeInv, TypeInv, TxInv
  <2>2. ASSUME NEW c \in Ins[t], txin.by[c] # t
        PROVE  \E u \in Tx : Conflict(t, u) /\ txin.by[c] = u
    <3>1. c \in Coin
      BY <2>1, TxStoreAssumption
    <3>2. txin.by[c] \in Tx /\ c \in Ins[txin.by[c]]
      BY <2>1, <3>1 DEF Whole, InsHere, TypeInv, InInv
    <3>3. Conflict(t, txin.by[c])
      BY <2>2, <3>2 DEF Conflict
    <3> QED
      BY <3>2, <3>3
  <2> QED
    BY <2>1, <2>2 DEF Whole
<1> QED
  BY <1>1, <1>2, <1>3, TypeInit, PTL DEF Spec

-----------------------------------------------------------------------------
(* A chain that is created and spent in one block.                         *)

\* Nothing is deleted before blurred, so what a batch has saved is there when it
\* marks; a batch with a statement that failed is not the last one of its block.
MarkInv ==
    ~blurred =>
        /\ txout.del = {}
        /\ \A b \in Blocks :
              fl[b].pc = "save" /\ ~fl[b].bad /\ "out" \notin fl[b].todo =>
                  \A t \in InBlock(b) : Outs[t] \subseteq txout.row
        /\ \A b \in Completed : \A t, u \in InBlock(b) : Outs[t] \cap Ins[u] \subseteq txout.used

\* The steps that do not touch the batches.
MarkFrame ==
    /\ fl' = fl /\ (blurred => blurred')
    /\ ~blurred' => /\ txout'.del \subseteq txout.del /\ txout.row \subseteq txout'.row
                    /\ txout.used \subseteq txout'.used

LEMMA MarkFramed ==
    ASSUME TypeInv, MarkInv, MarkFrame
    PROVE  MarkInv'
<1> SUFFICES ASSUME ~blurred' PROVE MarkInv'
  BY DEF MarkInv
<1>1. ~blurred /\ fl' = fl /\ Completed' = Completed
  BY DEF MarkFrame, TypeInv, RestInv, Completed
<1>2. \A b : InBlock(b)' = InBlock(b)
  BY DEF InBlock
<1> QED
  BY <1>1, <1>2 DEF MarkInv, MarkFrame

LEMMA MarkStep ==
    ASSUME TypeInv, MarkInv, [Next]_vars
    PROVE  MarkInv'
<1> SUFFICES ASSUME ~MarkFrame PROVE MarkInv'
  BY MarkFramed
<1>1. CASE UNCHANGED vars
  BY <1>1 DEF vars, MarkFrame
<1>2. ASSUME NEW t \in Tx, Accept(t) \/ Evict(t) \/ Age(t) \/ SyncGone(t) PROVE MarkInv'
  BY <1>2 DEF Accept, Evict, Age, SyncGone, tables, node, MarkFrame
<1>3. CASE Mine \/ SyncStart
  BY <1>3 DEF Mine, SyncStart, tables, node, MarkFrame
<1>4. ASSUME NEW s \in Source, NEW t \in Tx, MemStep(s, t) \/ MemFail(s, t) PROVE MarkInv'
  <2>1. CASE UpsertOut(s, t)
    BY <2>1, OutRowsEffect DEF UpsertOut, node, MarkFrame, TypeInv, OutGrows
  <2>2. CASE Mark(s, t)
    BY <2>2, SpentEffect DEF Mark, node, MarkFrame, TypeInv
  <2> QED
    BY <1>4, <2>1, <2>2 DEF MemStep, Begin, UpsertTx, UpsertIn, MemFail, tables, node, MarkFrame
<1>5. ASSUME NEW b \in Blocks,
             BlockStep(b) \/ BMarkFail(b) \/ \E k \in Tables : BFail(b, k)
      PROVE  MarkInv'
  <2> SUFFICES ASSUME ~blurred, ~blurred' PROVE MarkInv'
    BY <1>5 DEF MarkInv, BlockStep, BTake, BSave, BMark, BMarkFail, BCheck, BChecked, BFail,
       TypeInv, RestInv
  <2>1. \A d : InBlock(d)' = InBlock(d)
    BY DEF InBlock
  <2>2. \A d \in Blocks \ {b} : fl'[d] = fl[d]
    BY <1>5 DEF BlockStep, BTake, BSave, BMark, BMarkFail, BCheck, BChecked, BFail, Settle,
       TypeInv, FlInv
  <2>3. ASSUME txout'.del = {}, OutGrows, txout.used \subseteq txout'.used,
               fl'[b].pc = "save" /\ ~fl'[b].bad /\ "out" \notin fl'[b].todo =>
                  \A t \in InBlock(b) : Outs[t] \subseteq txout'.row,
               b \in Completed' =>
                  \A t, u \in InBlock(b) : Outs[t] \cap Ins[u] \subseteq txout'.used
        PROVE  MarkInv'
    <3>1. \A d \in Blocks \ {b} : d \in Completed' => d \in Completed
      BY <2>2 DEF Completed
    <3> QED
      BY <2>1, <2>2, <2>3, <3>1 DEF MarkInv, OutGrows, Completed
  <2>4. CASE BTake(b)
    <3>1. txout' = txout /\ fl'[b].pc = "save" /\ fl'[b].todo = Tables
      BY <2>4 DEF BTake, tables, TypeInv, FlInv
    <3> QED
      BY <2>3, <3>1 DEF MarkInv, OutGrows, Completed, Tables
  <2>5. ASSUME NEW k \in Tables, BSave(b, k) PROVE MarkInv'
    <3>1. /\ fl[b].pc = "save" /\ fl'[b].pc = "save" /\ fl'[b].bad = fl[b].bad
          /\ fl'[b].todo = fl[b].todo \ {k}
      BY <2>5 DEF BSave, TypeInv, FlInv
    <3>2. CASE k = "out"
      <4>1. /\ OutGrows /\ txout'.del = {} /\ txout'.used = txout.used
            /\ \A t \in InBlock(b) : Outs[t] \subseteq txout'.row
        BY <2>5, <3>2, OutRowsEffect, InBlockTx DEF BSave, TypeInv, MarkInv
      <4> QED
        BY <2>3, <3>1, <4>1 DEF Completed
    <3>3. CASE k # "out"
      <4>1. txout' = txout
        BY <2>5, <3>3 DEF BSave
      <4> QED
        BY <2>3, <3>1, <3>3, <4>1 DEF MarkInv, OutGrows, Completed
    <3> QED
      BY <3>2, <3>3
  <2>6. ASSUME NEW k \in Tables, BFail(b, k) PROVE MarkInv'
    <3>1. txout' = txout /\ fl'[b].pc = "save" /\ fl'[b].bad
      BY <2>6 DEF BFail, tables, TypeInv, FlInv
    <3> QED
      BY <2>3, <3>1 DEF MarkInv, OutGrows, Completed
  <2>7. CASE BMark(b)
    <3>1. /\ OutGrows /\ txout'.row = txout.row /\ txout'.del = txout.del
          /\ txout'.used = txout.used
                \cup ((UNION {Ins[t] : t \in InBlock(b)}) \cap (txout.row \ txout.del))
      BY <2>7, SpentEffect, InBlockTx DEF BMark, TypeInv
    <3>2. fl[b].pc = "save" /\ fl[b].todo = {}
      BY <2>7 DEF BMark
    <3>3. CASE fl[b].bad
      <4>1. fl'[b].pc = "save" /\ fl'[b].todo = Tables
        BY <2>7, <3>3 DEF BMark, Settle, TypeInv, FlInv
      <4> QED
        BY <2>3, <3>1, <4>1 DEF MarkInv, Completed, Tables
    <3>4. CASE ~fl[b].bad
      <4>1. fl'[b].pc = "done"
        BY <2>7, <3>4 DEF BMark, Settle, TypeInv, FlInv
      <4>2. \A t \in InBlock(b) : Outs[t] \subseteq txout.row \ txout.del
        BY <3>2, <3>4 DEF MarkInv
      <4>3. \A t, u \in InBlock(b) : Outs[t] \cap Ins[u] \subseteq txout'.used
        BY <3>1, <4>2
      <4> QED
        BY <2>3, <3>1, <4>1, <4>3 DEF MarkInv
    <3> QED
      BY <3>3, <3>4
  <2>8. CASE BMarkFail(b)
    BY <2>8 DEF BMarkFail
  <2>9. CASE BCheck(b)
    <3>1. txout' = txout /\ b \in Completed /\ fl'[b].pc # "save"
      BY <2>9 DEF BCheck, tables, Completed, TypeInv, FlInv
    <3> QED
      BY <2>3, <3>1 DEF MarkInv, OutGrows
  <2>10. CASE BChecked(b)
    <3>1. txout' = txout /\ b \in Completed /\ fl'[b].pc # "save"
      BY <2>10 DEF BChecked, Completed, TypeInv, FlInv
    <3> QED
      BY <2>3, <3>1 DEF MarkInv, OutGrows
  <2> QED
    BY <1>5, <2>4, <2>5, <2>6, <2>7, <2>8, <2>9, <2>10 DEF BlockStep
<1>6. CASE CheckStep \/ CFail
  BY <1>6 DEF CheckStep, CList, CIns, COuts, CDelete, CPass, CFail, tables, node, MarkFrame
<1>7. CASE TimeoutStep
  BY <1>7 DEF TimeoutStep, TList, TDelete, tables, node, MarkFrame
<1>8. CASE UseTxo
  <2>1. txout' = [txout EXCEPT !.used = @ \cup Unprocessed]
    BY <1>8 DEF UseTxo
  <2> QED
    BY <1>8, <2>1 DEF UseTxo, node, MarkFrame, TypeInv, OutInv
<1>9. CASE Crash
  <2> SUFFICES ASSUME ~blurred' PROVE MarkInv'
    BY DEF MarkInv
  <2>1. txout' = txout /\ ~blurred
    BY <1>9 DEF Crash, tables
  <2>2. \A b \in Blocks : fl'[b].pc # "save" /\ (b \in Completed' => b \in Completed)
    BY <1>9 DEF Crash, Completed, TypeInv, FlInv
  <2>3. \A d : InBlock(d)' = InBlock(d)
    BY DEF InBlock
  <2> QED
    BY <2>1, <2>2, <2>3 DEF MarkInv, Completed
<1> QED
  BY <1>1, <1>2, <1>3, <1>4, <1>5, <1>6, <1>7, <1>8, <1>9 DEF Next

\* What is created and spent within a completed block is is_used, unless an update
\* that marks has failed or rows were deleted meanwhile.
THEOREM ChainMarked == Spec => []ChainIsMarked
<1>1. Init => MarkInv
  BY DEF Init, MarkInv, Completed
<1>2. TypeInv /\ MarkInv /\ [Next]_vars => TypeInv' /\ MarkInv'
  BY TypeStep, MarkStep
<1>3. MarkInv => ChainIsMarked
  BY DEF MarkInv, ChainIsMarked
<1> QED
  BY <1>1, <1>2, <1>3, TypeInit, PTL DEF Spec
-----------------------------------------------------------------------------
(* What checkMemPool has passed is not shown as unspent.                   *)

\* No other transaction spends c that the tables or the chain have.
Alone(u, c) == \A w \in tx.row \cup Mined : c \in Ins[w] => w = u

Kept(u, c) == txin.by[c] = u /\ c \notin txin.del

\* Transactions whose inputs checkMemPool has counted, now or before.
Passed ==
    (tx.chk \ tx.conf)
      \cup (IF ck.pc \in {"outs", "del", "pass"} THEN ck.recs \ ck.bad ELSE {})

\* Rows of tx_in are only written for transactions of the tables or the chain, and
\* only deleted for those that were not passed before.
WriterInv ==
    /\ \A s \in Source, t \in Tx :
          mp[<<s, t>>] \in {"both", "in", "out", "mark"} => t \in tx.row
    /\ \A b \in Blocks : fl[b].pc # "idle" => b <= height
    /\ tm.recs \subseteq tx.old
    /\ \A u \in tx.chk \ tx.conf : u \notin ck.recs

HideInv ==
    tx.old = {} => \A u \in Passed : \A c \in Ins[u] : Alone(u, c) => Kept(u, c)

\* The steps that write none of what these two read.
HideFrame ==
    /\ UNCHANGED <<txin, ck, tm>>
    /\ tx.row \subseteq tx'.row /\ tx.conf \subseteq tx'.conf /\ tx'.chk = tx.chk
    /\ tx.old \subseteq tx'.old /\ height <= height'

WriterFrame ==
    /\ \A s \in Source, t \in Tx :
          mp'[<<s, t>>] \in {"both", "in", "out", "mark"} =>
              mp[<<s, t>>] \in {"both", "in", "out", "mark"}
    /\ \A b \in Blocks : fl'[b].pc # "idle" => fl[b].pc # "idle"

LEMMA AloneBefore ==
    ASSUME TypeInv, TypeInv', TxGrows, height <= height', NEW u \in Tx, NEW c \in Ins[u],
           Alone(u, c)'
    PROVE  Alone(u, c)
<1>1. Mined \subseteq Mined'
  BY TxStoreAssumption DEF Mined, TypeInv, RestInv
<1> QED
  BY <1>1 DEF Alone, TxGrows

\* It is enough that what was kept is kept.
LEMMA HideKept ==
    ASSUME TypeInv, TypeInv', TxGrows, HideInv, height <= height', tx.old \subseteq tx'.old,
           tx.old = {} => \A u \in Passed' : \A c \in Ins[u] :
              Alone(u, c) /\ (u \in Passed => Kept(u, c)) => Kept(u, c)'
    PROVE  HideInv'
<1>1. Passed' \subseteq Tx
  BY DEF Passed, TypeInv, TxInv, CkInv
<1>2. \A u \in Passed' : \A c \in Ins[u] : Alone(u, c)' => Alone(u, c)
  BY <1>1, AloneBefore
<1> QED
  BY <1>2 DEF HideInv

LEMMA HideFramed ==
    ASSUME TypeInv, TypeInv', TxGrows, HideInv, HideFrame
    PROVE  HideInv'
<1>1. Passed' \subseteq Passed
  BY DEF HideFrame, Passed
<1>2. \A u, c : Kept(u, c)' <=> Kept(u, c)
  BY DEF HideFrame, Kept
<1> QED
  BY <1>1, <1>2, HideKept DEF HideFrame

LEMMA WriterFramed ==
    ASSUME TypeInv, TypeInv', WriterInv, HideFrame, WriterFrame
    PROVE  WriterInv'
<1>1. \A b \in Blocks : fl'[b].pc # "idle" => b <= height'
  BY TxStoreAssumption DEF WriterInv, HideFrame, WriterFrame, TypeInv, RestInv, Blocks
<1> QED
  BY <1>1 DEF WriterInv, HideFrame, WriterFrame

\* A write of tx_in for transactions of which only u spends c leaves u its row.
LEMMA InRowsKeeps ==
    ASSUME InInv, NEW T \in SUBSET Tx, txin' = InRows(T), NEW u \in Tx, NEW c \in Ins[u],
           \A w \in T : c \in Ins[w] => w = u, Kept(u, c)
    PROVE  Kept(u, c)'
<1> DEFINE C == UNION {Ins[t] : t \in T}
           Pick(d) == CHOOSE t \in T : d \in Ins[t]
<1>1. c \in Coin
  BY TxStoreAssumption
<1>2. c \in C => Pick(c) \in T /\ c \in Ins[Pick(c)]
  OBVIOUS
<1>3. txin' = [txin EXCEPT !.by = [d \in Coin |-> IF d \in C THEN Pick(d) ELSE txin.by[d]],
                           !.del = @ \ C]
  BY DEF InRows, InInv
<1> HIDE DEF C, Pick
<1>4. txin'.by[c] = (IF c \in C THEN Pick(c) ELSE txin.by[c]) /\ txin'.del = txin.del \ C
  BY <1>1, <1>3 DEF InInv
<1> QED
  BY <1>2, <1>4 DEF Kept

LEMMA HideMem ==
    ASSUME TypeInv, TypeInv', TxGrows, WriterInv, HideInv, NEW s \in Source, NEW t \in Tx,
           MemStep(s, t) \/ MemFail(s, t)
    PROVE  WriterInv' /\ HideInv'
<1>1. HideFrame /\ WriterFrame => WriterInv' /\ HideInv'
  BY HideFramed, WriterFramed
<1>2. height <= height
  BY TxStoreAssumption DEF TypeInv, RestInv
<1>3. CASE Begin(s, t) \/ UpsertOut(s, t) \/ Mark(s, t) \/ MemFail(s, t)
  <2>1. /\ HideFrame /\ fl' = fl
    BY <1>2, <1>3 DEF Begin, UpsertOut, Mark, MemFail, tables, node, HideFrame
  <2>2. \A u \in Source, v \in Tx :
            mp'[<<u, v>>] \in {"both", "in", "out", "mark"} =>
                mp[<<u, v>>] \in {"both", "in", "out", "mark"}
    BY <1>3 DEF Begin, UpsertOut, Mark, MemFail, TypeInv, MpInv
  <2> QED
    BY <1>1, <2>1, <2>2 DEF WriterFrame
<1>4. CASE UpsertTx(s, t)
  <2>1. /\ UNCHANGED <<txin, ck, tm, fl, height>> /\ t \in tx'.row
        /\ tx'.conf = tx.conf /\ tx'.chk = tx.chk /\ tx'.old = tx.old
    BY <1>4, TxRowsEffect DEF UpsertTx, node, TypeInv
  <2>2. HideFrame
    BY <1>2, <2>1 DEF HideFrame, TxGrows
  <2>3. \A u \in Source, v \in Tx : <<u, v>> # <<s, t>> => mp'[<<u, v>>] = mp[<<u, v>>]
    BY <1>4 DEF UpsertTx, TypeInv, MpInv
  <2>4. \A u \in Source, v \in Tx :
            mp'[<<u, v>>] \in {"both", "in", "out", "mark"} => v \in tx'.row
    BY <2>1, <2>3 DEF WriterInv, TxGrows
  <2> QED
    BY <2>1, <2>2, <2>4, HideFramed DEF WriterInv
<1>5. CASE UpsertIn(s, t)
  <2>1. /\ UNCHANGED <<tx, ck, tm, fl, height>> /\ txin' = InRows({t})
    BY <1>5 DEF UpsertIn, node
  <2>2. \A u \in Source, v \in Tx :
            mp'[<<u, v>>] \in {"both", "in", "out", "mark"} =>
                mp[<<u, v>>] \in {"both", "in", "out", "mark"}
    BY <1>5 DEF UpsertIn, TypeInv, MpInv
  <2>3. t \in tx.row
    BY <1>5 DEF UpsertIn, WriterInv
  <2>4. ASSUME NEW u \in Tx, NEW c \in Ins[u], Alone(u, c), Kept(u, c) PROVE Kept(u, c)'
    <3>1. \A w \in {t} : c \in Ins[w] => w = u
      BY <2>3, <2>4 DEF Alone
    <3> QED
      BY <2>1, <2>4, <3>1, InRowsKeeps DEF TypeInv
  <2>5. Passed' = Passed /\ Passed \subseteq Tx
    BY <2>1 DEF Passed, TypeInv, TxInv, CkInv
  <2>6. HideInv'
    BY <1>2, <2>1, <2>4, <2>5, HideKept
  <2> QED
    BY <2>1, <2>2, <2>6 DEF WriterInv
<1> QED
  BY <1>3, <1>4, <1>5 DEF MemStep

LEMMA HideBlock ==
    ASSUME TypeInv, TypeInv', TxGrows, WriterInv, HideInv, NEW b \in Blocks,
           BlockStep(b) \/ BMarkFail(b) \/ \E k \in Tables : BFail(b, k)
    PROVE  WriterInv' /\ HideInv'
<1>1. HideFrame /\ WriterFrame => WriterInv' /\ HideInv'
  BY HideFramed, WriterFramed
<1>2. height <= height
  BY TxStoreAssumption DEF TypeInv, RestInv
<1>3. CASE BTake(b)
  <2>1. HideFrame /\ mp' = mp /\ b <= height'
    BY <1>2, <1>3 DEF BTake, node, tables, HideFrame
  <2>2. \A d \in Blocks : d # b => fl'[d] = fl[d]
    BY <1>3 DEF BTake, TypeInv, FlInv
  <2> QED
    BY <1>3, <2>1, <2>2, HideFramed DEF WriterInv, HideFrame, BTake, node, tables
<1>4. CASE BMark(b) \/ BMarkFail(b) \/ BCheck(b) \/ \E k \in Tables : BFail(b, k)
  <2>1. HideFrame /\ mp' = mp
    BY <1>2, <1>4 DEF BMark, BMarkFail, BCheck, BFail, node, tables, HideFrame
  <2>2. fl[b].pc # "idle"
    BY <1>4 DEF BMark, BMarkFail, BCheck, BFail
  <2>3. \A d \in Blocks : d # b => fl'[d] = fl[d]
    BY <1>4 DEF BMark, BMarkFail, BCheck, BFail, Settle, TypeInv, FlInv
  <2> QED
    BY <1>1, <2>1, <2>2, <2>3 DEF WriterFrame
<1>5. ASSUME NEW k \in Tables, BSave(b, k) PROVE WriterInv' /\ HideInv'
  <2>1. UNCHANGED <<height, mp, ck, tm>> /\ fl[b].pc = "save"
    BY <1>5 DEF BSave, node
  <2>2. \A d \in Blocks : fl'[d].pc = fl[d].pc
    BY <1>5 DEF BSave, TypeInv, FlInv
  <2>3. WriterFrame
    BY <2>1, <2>2 DEF WriterFrame
  <2>4. CASE tx' = [TxRows(InBlock(b)) EXCEPT !.conf = @ \cup InBlock(b)] /\ txin' = txin
    <3>1. tx'.conf = tx.conf \cup InBlock(b) /\ tx'.chk = tx.chk /\ tx'.old = tx.old
      BY <2>4, TxSaveEffect, InBlockTx DEF TypeInv
    <3>2. HideFrame
      BY <1>2, <2>1, <2>4, <3>1 DEF HideFrame, TxGrows
    <3> QED
      BY <1>1, <2>3, <3>2
  <2>5. CASE txin' = InRows(InBlock(b)) /\ tx' = tx
    <3>1. b <= height
      BY <2>1 DEF WriterInv
    <3>2. InBlock(b) \subseteq Mined
      BY <3>1, TxStoreAssumption DEF InBlock, Mined, Blocks, TypeInv, RestInv
    <3>3. ASSUME NEW u \in Tx, NEW c \in Ins[u], Alone(u, c), Kept(u, c) PROVE Kept(u, c)'
      <4>1. \A w \in InBlock(b) : c \in Ins[w] => w = u
        BY <3>2, <3>3 DEF Alone
      <4> QED
        BY <2>5, <3>3, <4>1, InRowsKeeps, InBlockTx DEF TypeInv
    <3>4. Passed' = Passed /\ Passed \subseteq Tx
      BY <2>1, <2>5 DEF Passed, TypeInv, TxInv, CkInv
    <3>5. HideInv'
      BY <1>2, <2>1, <2>5, <3>3, <3>4, HideKept
    <3> QED
      BY <2>1, <2>2, <2>5, <3>5 DEF WriterInv
  <2>6. CASE UNCHANGED <<tx, txin>>
    <3>1. HideFrame
      BY <1>2, <2>1, <2>6 DEF HideFrame
    <3> QED
      BY <1>1, <2>3, <3>1
  <2> QED
    BY <1>5, <2>4, <2>5, <2>6 DEF BSave
<1>6. CASE BChecked(b)
  <2>1. /\ UNCHANGED <<height, mp, txin, ck, tm>> /\ fl[b].pc = "pass"
        /\ tx'.conf = tx.conf /\ tx'.old = tx.old /\ tx'.row = tx.row
        /\ tx'.chk = tx.chk \cup (InBlock(b) \cap tx.conf)
    BY <1>6 DEF BChecked, node, TypeInv, TxInv
  <2>2. \A d \in Blocks : fl'[d].pc # "idle" => fl[d].pc # "idle"
    BY <1>6 DEF BChecked, TypeInv, FlInv
  <2>3. tx'.chk \ tx'.conf = tx.chk \ tx.conf
    BY <2>1
  <2>4. Passed' = Passed
    BY <2>1, <2>3 DEF Passed
  <2>5. \A u, c : Kept(u, c)' <=> Kept(u, c)
    BY <2>1 DEF Kept
  <2>6. HideInv'
    BY <1>2, <2>1, <2>4, <2>5, HideKept
  <2> QED
    BY <2>1, <2>2, <2>3, <2>6 DEF WriterInv
<1> QED
  BY <1>3, <1>4, <1>5, <1>6 DEF BlockStep

\* A deletion for transactions other than u leaves u its row.
LEMMA DeleteKeeps ==
    ASSUME TypeInv, NEW T \in SUBSET Tx, NEW k \in Tables, Delete(T, k), NEW u \in Tx \ T,
           NEW c \in Ins[u], Kept(u, c)
    PROVE  Kept(u, c)'
<1>1. CASE txin' = DelIns(T)
  <2>1. txin'.by = txin.by /\ txin'.del = txin.del \cup {d \in Coin : txin.by[d] \in T}
    BY <1>1 DEF DelIns, TypeInv, InInv
  <2> QED
    BY <2>1 DEF Kept
<1>2. CASE txin' = txin
  BY <1>2 DEF Kept
<1> QED
  BY <1>1, <1>2 DEF Delete

LEMMA HideCheck ==
    ASSUME TypeInv, TypeInv', TxGrows, WriterInv, HideInv, CheckStep \/ CFail
    PROVE  WriterInv' /\ HideInv'
<1>1. height <= height
  BY TxStoreAssumption DEF TypeInv, RestInv
<1>2. UNCHANGED <<height, mp, fl, tm>>
  BY DEF CheckStep, CList, CIns, COuts, CDelete, CPass, CFail, node
<1>3. /\ tx'.row = tx.row /\ tx'.conf = tx.conf /\ tx'.old = tx.old
  <2>1. ASSUME NEW k \in Tables, CDelete(k)
        PROVE  tx'.row = tx.row /\ tx'.conf = tx.conf /\ tx'.old = tx.old
    BY <2>1, DeleteEffect DEF CDelete, TypeInv, CkInv
  <2> QED
    BY <2>1 DEF CheckStep, CList, CIns, COuts, CPass, CFail, tables, TypeInv, TxInv
<1>4. ASSUME \A u \in tx'.chk \ tx'.conf : u \notin ck'.recs PROVE WriterInv'
  BY <1>2, <1>3, <1>4 DEF WriterInv
<1>5. ASSUME UNCHANGED txin, Passed' \subseteq Passed PROVE HideInv'
  <2>1. \A u, c : Kept(u, c)' <=> Kept(u, c)
    BY <1>5 DEF Kept
  <2> QED
    BY <1>1, <1>2, <1>3, <1>5, <2>1, HideKept
<1>6. CASE CList
  <2>1. UNCHANGED <<tx, txin>> /\ ck'.pc = "ins" /\ ck'.recs \cap tx.chk = {}
    BY <1>6 DEF CList, tables
  <2>2. Passed' \subseteq Passed
    BY <2>1 DEF Passed
  <2> QED
    BY <1>4, <1>5, <2>1, <2>2
<1>7. CASE CIns
  <2>1. /\ UNCHANGED <<tx, txin>> /\ ck'.recs = ck.recs
        /\ ck'.bad = {t \in ck.recs : CountIn(t) # Ins[t]}
    BY <1>7 DEF CIns, tables, TypeInv, CkInv
  <2>2. ASSUME NEW u \in ck.recs \ ck'.bad, NEW c \in Ins[u] PROVE Kept(u, c)'
    BY <2>1, <2>2 DEF CountIn, Kept
  <2>3. \A u \in Passed' : u \in Passed \/ u \in ck.recs \ ck'.bad
    BY <2>1 DEF Passed
  <2>4. \A u, c : Kept(u, c)' <=> Kept(u, c)
    BY <2>1 DEF Kept
  <2>5. HideInv'
    BY <1>1, <1>2, <1>3, <2>2, <2>3, <2>4, HideKept
  <2> QED
    BY <1>4, <2>1, <2>5 DEF WriterInv
<1>8. CASE COuts
  <2> DEFINE bad == ck.bad \cup {t \in ck.recs : ~(Outs[t] \subseteq txout.row \ txout.del)}
  <2>1. /\ UNCHANGED <<tx, txin>> /\ ck.pc = "outs"
        /\ ck' = IF bad = {} THEN [ck EXCEPT !.pc = "pass"]
                 ELSE [ck EXCEPT !.pc = "del", !.bad = bad, !.todo = Tables]
    BY <1>8 DEF COuts, tables
  <2>2. ck.bad \subseteq bad
    OBVIOUS
  <2> HIDE DEF bad
  <2>3. ck'.recs = ck.recs /\ ck.bad \subseteq ck'.bad
    BY <2>1, <2>2 DEF TypeInv, CkInv
  <2>4. Passed' \subseteq Passed
    BY <2>1, <2>3 DEF Passed
  <2> QED
    BY <1>4, <1>5, <2>1, <2>3, <2>4 DEF WriterInv
<1>9. ASSUME NEW k \in Tables, CDelete(k) PROVE WriterInv' /\ HideInv'
  <2>1. /\ tx'.chk = tx.chk /\ Delete(ck.bad, k)
        /\ ck.pc = "del" /\ ck'.recs = ck.recs /\ ck'.bad = ck.bad
        /\ ck.bad \in SUBSET Tx
    BY <1>9, DeleteEffect DEF CDelete, TypeInv, CkInv
  <2>2. Passed' \subseteq Passed
    BY <1>3, <2>1 DEF Passed
  <2>3. Passed \cap ck.bad = {} /\ Passed \subseteq Tx
    BY DEF Passed, WriterInv, TypeInv, CkInv, TxInv
  <2>4. \A u \in Passed' : \A c \in Ins[u] : Kept(u, c) => Kept(u, c)'
    BY <2>1, <2>2, <2>3, DeleteKeeps
  <2>5. HideInv'
    BY <1>1, <1>2, <1>3, <2>2, <2>4, HideKept
  <2> QED
    BY <1>3, <1>4, <2>1, <2>5 DEF WriterInv
<1>10. CASE CPass
  <2>1. /\ UNCHANGED txin /\ ck.pc = "pass" /\ ck'.pc = "idle" /\ ck'.recs = {}
        /\ tx'.chk = tx.chk \cup (ck.recs \ ck.bad)
    BY <1>10 DEF CPass, CIdle, TypeInv, TxInv
  <2>2. Passed' \subseteq Passed
    BY <1>3, <2>1 DEF Passed
  <2> QED
    BY <1>4, <1>5, <2>1, <2>2
<1>11. CASE CFail
  <2>1. UNCHANGED <<tx, txin>> /\ ck'.pc = "idle" /\ ck'.recs = {}
    BY <1>11 DEF CFail, CIdle, tables
  <2>2. Passed' \subseteq Passed
    BY <2>1 DEF Passed
  <2> QED
    BY <1>4, <1>5, <2>1, <2>2
<1> QED
  BY <1>6, <1>7, <1>8, <1>9, <1>10, <1>11 DEF CheckStep

LEMMA HideStep ==
    ASSUME TypeInv, WriterInv, HideInv, [Next]_vars
    PROVE  WriterInv' /\ HideInv'
<1>1. TypeInv' /\ TxGrows
  BY TypeStep
<1>2. HideFrame /\ WriterFrame => WriterInv' /\ HideInv'
  BY <1>1, HideFramed, WriterFramed
<1>3. height <= height
  BY TxStoreAssumption DEF TypeInv, RestInv
<1>4. CASE UNCHANGED vars
  BY <1>2, <1>3, <1>4 DEF vars, HideFrame, WriterFrame
<1>5. ASSUME NEW t \in Tx, Accept(t) \/ Evict(t) \/ Age(t) \/ SyncGone(t)
      PROVE  WriterInv' /\ HideInv'
  <2>1. HideFrame /\ fl' = fl
    BY <1>3, <1>5 DEF Accept, Evict, Age, SyncGone, tables, node, HideFrame, TypeInv, TxInv
  <2>2. \A s \in Source, u \in Tx :
            mp'[<<s, u>>] \in {"both", "in", "out", "mark"} => mp'[<<s, u>>] = mp[<<s, u>>]
    BY <1>5 DEF Accept, Evict, Age, SyncGone, TypeInv, MpInv
  <2> QED
    BY <1>2, <2>1, <2>2 DEF WriterFrame
<1>6. CASE Mine \/ SyncStart
  <2>1. HideFrame /\ fl' = fl
    BY <1>3, <1>6, TxStoreAssumption
       DEF Mine, SyncStart, tables, node, HideFrame, TypeInv, RestInv
  <2>2. \A s \in Source, u \in Tx :
            mp'[<<s, u>>] \in {"both", "in", "out", "mark"} => mp'[<<s, u>>] = mp[<<s, u>>]
    BY <1>6 DEF Mine, SyncStart, TypeInv, MpInv
  <2> QED
    BY <1>2, <2>1, <2>2 DEF WriterFrame
<1>7. CASE TimeoutStep
  <2>1. UNCHANGED <<height, mp, fl, ck>>
    BY <1>7 DEF TimeoutStep, TList, TDelete, node
  <2>2. CASE TList
    <3>1. UNCHANGED <<tx, txin>> /\ tm'.recs \subseteq tx.old
      BY <2>2 DEF TList, tables
    <3>2. Passed' = Passed /\ \A u, c : Kept(u, c)' <=> Kept(u, c)
      BY <2>1, <3>1 DEF Passed, Kept
    <3>3. HideInv'
      BY <1>1, <1>3, <2>1, <3>1, <3>2, HideKept
    <3> QED
      BY <2>1, <3>1, <3>3 DEF WriterInv
  <2>3. ASSUME NEW k \in Tables, TDelete(k) PROVE WriterInv' /\ HideInv'
    <3>1. /\ tx'.row = tx.row /\ tx'.conf = tx.conf /\ tx'.old = tx.old /\ tx'.chk = tx.chk
          /\ Delete(tm.recs, k) /\ tm'.recs \subseteq tm.recs /\ tm.recs \in SUBSET Tx
      BY <2>3, DeleteEffect DEF TDelete, TIdle, TypeInv, TmInv, TxInv
    <3>2. Passed' = Passed /\ Passed \subseteq Tx
      BY <2>1, <3>1 DEF Passed, TypeInv, TxInv, CkInv
    <3>3. tx.old = {} => \A u \in Passed : \A c \in Ins[u] : Kept(u, c) => Kept(u, c)'
      BY <3>1, <3>2, DeleteKeeps DEF WriterInv
    <3>4. HideInv'
      BY <1>1, <1>3, <2>1, <3>1, <3>2, <3>3, HideKept
    <3> QED
      BY <2>1, <3>1, <3>4 DEF WriterInv
  <2> QED
    BY <1>7, <2>2, <2>3 DEF TimeoutStep
<1>8. CASE UseTxo
  <2>1. /\ UNCHANGED <<height, tx, mp, fl, ck, tm>>
        /\ txin'.by = txin.by /\ txin'.del = txin.del
    BY <1>8 DEF UseTxo, node, TypeInv, InInv
  <2>2. Passed' = Passed /\ \A u, c : Kept(u, c)' <=> Kept(u, c)
    BY <2>1 DEF Passed, Kept
  <2>3. HideInv'
    BY <1>1, <1>3, <2>1, <2>2, HideKept
  <2> QED
    BY <2>1, <2>3 DEF WriterInv
<1>9. CASE Crash
  <2>1. /\ UNCHANGED <<height, tx, txin>> /\ ck'.pc = "idle" /\ ck'.recs = {} /\ tm'.recs = {}
    BY <1>9 DEF Crash, CIdle, TIdle, tables, node
  <2>2. \A s \in Source, u \in Tx : mp'[<<s, u>>] = "idle"
    BY <1>9 DEF Crash, TypeInv, MpInv
  <2>3. \A b \in Blocks : fl'[b].pc # "idle" => fl[b].pc # "idle"
    BY <1>9 DEF Crash, TypeInv, FlInv
  <2>4. Passed' \subseteq Passed /\ \A u, c : Kept(u, c)' <=> Kept(u, c)
    BY <2>1 DEF Passed, Kept
  <2>5. HideInv'
    BY <1>1, <1>3, <2>1, <2>4, HideKept
  <2> QED
    BY <2>1, <2>2, <2>3, <2>5 DEF WriterInv
<1> QED
  BY <1>1, <1>4, <1>5, <1>6, <1>7, <1>8, <1>9, HideMem, HideBlock, HideCheck DEF Next

\* An outpoint that only one stored or mined transaction spends is not shown as unspent
\* once that transaction has passed checkMemPool, also when it was not marked.
THEOREM SpendHidden == Spec => []SpendIsHidden
<1>1. Init => WriterInv /\ HideInv
  BY DEF Init, WriterInv, HideInv, Passed
<1>2. TypeInv /\ WriterInv /\ HideInv /\ [Next]_vars => TypeInv' /\ WriterInv' /\ HideInv'
  BY TypeStep, HideStep
<1>3. TypeInv /\ HideInv => SpendIsHidden
  <2> SUFFICES ASSUME TypeInv, HideInv, tx.old = {},
                      NEW u \in (Live \cap tx.chk) \ tx.conf, NEW c \in Ins[u], Alone(u, c)
               PROVE  c \notin Unspent
    BY DEF SpendIsHidden, Alone
  <2>1. Kept(u, c)
    BY DEF HideInv, Passed
  <2>2. u \in Tx /\ u # 0
    BY NotZero DEF TypeInv, TxInv
  <2> QED
    BY <2>1, <2>2 DEF Kept, Unspent
<1> QED
  BY <1>1, <1>2, <1>3, TypeInit, PTL DEF Spec

-----------------------------------------------------------------------------
(* What nothing spends is shown as unspent.                                *)

Stored == tx.row \cup Mined
Spender(c) == \E w \in Stored : c \in Ins[w]

\* A mark and a row of tx_in are only written for what is stored or mined.
ShownInv ==
    /\ \A c \in txout.used : Spender(c)
    /\ \A c \in Coin : txin.by[c] # 0 => txin.by[c] \in Stored

LEMMA StoredGrows ==
    ASSUME TypeInv, TypeInv', TxGrows, height <= height'
    PROVE  Stored \subseteq Stored'
BY TxStoreAssumption DEF Stored, Mined, TxGrows, TypeInv, RestInv

LEMMA HeightGrows ==
    ASSUME TypeInv, [Next]_vars
    PROVE  height <= height'
<1>1. ASSUME height' = height \/ height' = height + 1 PROVE height <= height'
  BY <1>1, TxStoreAssumption DEF TypeInv, RestInv
<1>2. CASE UNCHANGED vars
  BY <1>1, <1>2 DEF vars
<1>3. ASSUME NEW t \in Tx, Accept(t) \/ Evict(t) \/ Age(t) \/ SyncGone(t)
      PROVE  height <= height'
  BY <1>1, <1>3 DEF Accept, Evict, Age, SyncGone, node
<1>4. CASE Mine \/ SyncStart
  BY <1>1, <1>4 DEF Mine, SyncStart, node
<1>5. ASSUME NEW s \in Source, NEW t \in Tx, MemStep(s, t) \/ MemFail(s, t)
      PROVE  height <= height'
  BY <1>1, <1>5 DEF MemStep, Begin, UpsertTx, UpsertIn, UpsertOut, Mark, MemFail, node
<1>6. ASSUME NEW b \in Blocks,
             BlockStep(b) \/ BMarkFail(b) \/ \E k \in Tables : BFail(b, k)
      PROVE  height <= height'
  BY <1>1, <1>6 DEF BlockStep, BTake, BSave, BMark, BCheck, BChecked, BMarkFail, BFail, node
<1>7. CASE CheckStep \/ CFail \/ TimeoutStep \/ UseTxo \/ Crash
  BY <1>1, <1>7 DEF CheckStep, CList, CIns, COuts, CDelete, CPass, CFail, TimeoutStep, TList,
     TDelete, UseTxo, Crash, node
<1> QED
  BY <1>2, <1>3, <1>4, <1>5, <1>6, <1>7 DEF Next

\* It is enough to look at the marks and the rows that are new.
LEMMA ShownKept ==
    ASSUME TypeInv, TypeInv', TxGrows, height <= height', ShownInv,
           \A c \in txout'.used \ txout.used : Spender(c),
           \A c \in Coin : txin'.by[c] \in Stored \cup {txin.by[c]}
    PROVE  ShownInv'
<1>1. Stored \subseteq Stored'
  BY StoredGrows
<1>2. \A c : Spender(c) => Spender(c)'
  BY <1>1 DEF Spender
<1> QED
  BY <1>1, <1>2 DEF ShownInv

LEMMA InRowsWriter ==
    ASSUME InInv, NEW T \in SUBSET Tx, txin' = InRows(T)
    PROVE  \A c \in Coin : txin'.by[c] \in T \cup {txin.by[c]}
<1> DEFINE C == UNION {Ins[t] : t \in T}
           Pick(d) == CHOOSE t \in T : d \in Ins[t]
<1>1. \A c \in C : Pick(c) \in T
  OBVIOUS
<1>2. txin' = [txin EXCEPT !.by = [d \in Coin |-> IF d \in C THEN Pick(d) ELSE txin.by[d]],
                           !.del = @ \ C]
  BY DEF InRows, InInv
<1> HIDE DEF C, Pick
<1>3. \A c \in Coin : txin'.by[c] = IF c \in C THEN Pick(c) ELSE txin.by[c]
  BY <1>2 DEF InInv
<1> QED
  BY <1>1, <1>3

LEMMA SpentBySome ==
    ASSUME OutInv, NEW T \in SUBSET Tx, txout' = Spent(T), T \subseteq Stored
    PROVE  \A c \in txout'.used \ txout.used : Spender(c)
BY SpentEffect DEF Spender

\* Deletions only set flags.
LEMMA DeleteFlags ==
    ASSUME TypeInv, NEW T, NEW k, Delete(T, k)
    PROVE  txin'.by = txin.by /\ txout'.used = txout.used
BY DEF Delete, DelTx, DelIns, DelOuts, TypeInv, InInv, OutInv

LEMMA ShownStep ==
    ASSUME TypeInv, WriterInv, ShownInv, [Next]_vars
    PROVE  ShownInv'
<1>1. TypeInv' /\ TxGrows
  BY TypeStep
<1>2. height <= height'
  BY HeightGrows
<1>3. ASSUME txout'.used = txout.used, txin'.by = txin.by PROVE ShownInv'
  BY <1>1, <1>2, <1>3, ShownKept
<1>4. CASE UNCHANGED vars
  BY <1>3, <1>4 DEF vars
<1>5. ASSUME NEW t \in Tx, Accept(t) \/ Evict(t) \/ Age(t) \/ SyncGone(t) PROVE ShownInv'
  BY <1>3, <1>5 DEF Accept, Evict, Age, SyncGone, tables
<1>6. CASE Mine \/ SyncStart
  BY <1>3, <1>6 DEF Mine, SyncStart, tables
<1>7. ASSUME NEW s \in Source, NEW t \in Tx, MemStep(s, t) \/ MemFail(s, t) PROVE ShownInv'
  <2>1. CASE Begin(s, t) \/ UpsertTx(s, t) \/ MemFail(s, t)
    BY <1>3, <2>1 DEF Begin, UpsertTx, MemFail, tables
  <2>2. CASE UpsertIn(s, t)
    <3>1. txin' = InRows({t}) /\ txout' = txout /\ {t} \subseteq Stored
      BY <2>2 DEF UpsertIn, WriterInv, Stored
    <3>2. \A c \in Coin : txin'.by[c] \in {t} \cup {txin.by[c]}
      BY <3>1, InRowsWriter DEF TypeInv
    <3> QED
      BY <1>1, <1>2, <3>1, <3>2, ShownKept
  <2>3. CASE UpsertOut(s, t)
    BY <1>3, <2>3, OutRowsEffect DEF UpsertOut, TypeInv
  <2>4. CASE Mark(s, t)
    <3>1. txout' = Spent({t}) /\ txin' = txin /\ {t} \subseteq Stored
      BY <2>4 DEF Mark, WriterInv, Stored
    <3>2. \A c \in txout'.used \ txout.used : Spender(c)
      BY <3>1, SpentBySome DEF TypeInv
    <3> QED
      BY <1>1, <1>2, <3>1, <3>2, ShownKept
  <2> QED
    BY <1>7, <2>1, <2>2, <2>3, <2>4 DEF MemStep
<1>8. ASSUME NEW b \in Blocks,
             BlockStep(b) \/ BMarkFail(b) \/ \E k \in Tables : BFail(b, k)
      PROVE  ShownInv'
  <2>1. fl[b].pc # "idle" => InBlock(b) \subseteq Stored
    BY TxStoreAssumption DEF WriterInv, InBlock, Stored, Mined, Blocks, TypeInv, RestInv
  <2>2. CASE BTake(b) \/ BCheck(b) \/ BChecked(b) \/ BMarkFail(b) \/ \E k \in Tables : BFail(b, k)
    BY <1>3, <2>2 DEF BTake, BCheck, BChecked, BMarkFail, BFail, tables
  <2>3. ASSUME NEW k \in Tables, BSave(b, k) PROVE ShownInv'
    <3>1. fl[b].pc = "save"
      BY <2>3 DEF BSave
    <3>2. CASE txin' = InRows(InBlock(b)) /\ txout' = txout
      <4>1. \A c \in Coin : txin'.by[c] \in InBlock(b) \cup {txin.by[c]}
        BY <3>2, InRowsWriter, InBlockTx DEF TypeInv
      <4> QED
        BY <1>1, <1>2, <2>1, <3>1, <3>2, <4>1, ShownKept
    <3>3. CASE txout' = OutRows(InBlock(b)) /\ txin' = txin
      BY <1>3, <3>3, OutRowsEffect, InBlockTx DEF TypeInv
    <3>4. CASE UNCHANGED <<txin, txout>>
      BY <1>3, <3>4
    <3> QED
      BY <2>3, <3>2, <3>3, <3>4 DEF BSave
  <2>4. CASE BMark(b)
    <3>1. txout' = Spent(InBlock(b)) /\ txin' = txin /\ fl[b].pc = "save"
      BY <2>4 DEF BMark
    <3>2. \A c \in txout'.used \ txout.used : Spender(c)
      BY <2>1, <3>1, SpentBySome, InBlockTx DEF TypeInv
    <3> QED
      BY <1>1, <1>2, <3>1, <3>2, ShownKept
  <2> QED
    BY <1>8, <2>2, <2>3, <2>4 DEF BlockStep
<1>9. CASE CheckStep \/ CFail
  <2>1. ASSUME NEW k \in Tables, CDelete(k) PROVE ShownInv'
    BY <1>3, <2>1, DeleteFlags DEF CDelete
  <2> QED
    BY <1>3, <1>9, <2>1 DEF CheckStep, CList, CIns, COuts, CPass, CFail, tables
<1>10. CASE TimeoutStep
  <2>1. ASSUME NEW k \in Tables, TDelete(k) PROVE ShownInv'
    BY <1>3, <2>1, DeleteFlags DEF TDelete
  <2> QED
    BY <1>3, <1>10, <2>1 DEF TimeoutStep, TList, tables
<1>11. CASE UseTxo
  <2>1. txin'.by = txin.by /\ txout'.used = txout.used \cup Unprocessed
    BY <1>11 DEF UseTxo, TypeInv, InInv, OutInv
  <2>2. ASSUME NEW c \in Unprocessed PROVE Spender(c)
    <3>1. c \in Coin /\ txin.by[c] # 0
      BY DEF Unprocessed, TypeInv, OutInv
    <3> QED
      BY <3>1 DEF ShownInv, Spender, TypeInv, InInv
  <2> QED
    BY <1>1, <1>2, <2>1, <2>2, ShownKept
<1>12. CASE Crash
  BY <1>3, <1>12 DEF Crash, tables
<1> QED
  BY <1>4, <1>5, <1>6, <1>7, <1>8, <1>9, <1>10, <1>11, <1>12 DEF Next

\* An output that no stored or mined transaction spends is shown as unspent, whichever
\* statements failed, in whatever order processors, batches and useTxo wrote.
THEOREM UnspentShown == Spec => []UnspentIsShown
<1>1. Init => WriterInv /\ HideInv /\ ShownInv
  BY DEF Init, WriterInv, HideInv, Passed, ShownInv
<1>2. TypeInv /\ WriterInv /\ HideInv /\ ShownInv /\ [Next]_vars =>
        TypeInv' /\ WriterInv' /\ HideInv' /\ ShownInv'
  BY TypeStep, HideStep, ShownStep
<1>3. TypeInv /\ ShownInv => UnspentIsShown
  <2> SUFFICES ASSUME TypeInv, ShownInv, NEW t \in tx.row,
                      NEW c \in Outs[t] \cap (txout.row \ txout.del),
                      \A w \in Stored : c \notin Ins[w]
               PROVE  c \in Unspent
    BY DEF UnspentIsShown, Stored
  <2>1. c \in Coin /\ c \notin txout.used
    BY DEF ShownInv, Spender, TypeInv, OutInv
  <2>2. txin.by[c] = 0
    BY <2>1 DEF ShownInv, TypeInv, InInv
  <2> QED
    BY <2>1, <2>2 DEF Unspent
<1> QED
  BY <1>1, <1>2, <1>3, TypeInit, PTL DEF Spec
=============================================================================
