------------------------------- MODULE TxStore ------------------------------
(***************************************************************************)
(* The tables tx, tx_in and tx_out and everything in transaction.service   *)
(* that writes them at the same time:                                      *)
(*                                                                         *)
(*   Begin .. Mark     oneMempoolTxProcessor, run for a transaction by     *)
(*                     ZMQ (one after the other), by the comparison with   *)
(*                     getrawmempool (five at a time) and by the HTTP      *)
(*                     route that broadcasts                               *)
(*   BSave .. BMark    the batch of a block (BlockIndex has its queue)     *)
(*   BCheck, BChecked  the double check of a block                         *)
(*   CList .. CPass    checkMemPool                                        *)
(*   TList, TDelete    checkTxTimeout                                      *)
(*   UseTxo            useTxo                                              *)
(*                                                                         *)
(* Every SQL statement is one step.  tx_in has one row for each outpoint,  *)
(* so the last upsert decides which transaction spends it.  Coinbase       *)
(* transactions and reorganisations are in ChainSync.                      *)
(***************************************************************************)
EXTENDS Integers, FiniteSets

CONSTANTS
    Tx,         \* transactions
    Coin,       \* outpoints
    Ins,        \* the outpoints each transaction spends
    Outs,       \* the outpoints it creates
    NBlocks,    \* blocks the node may mine, in this order
    Block,      \* the block each transaction would be mined in, 0 for none
    Ageing,     \* bound: transactions that may stay unconfirmed for 14 days
    Source,     \* who asks for a transaction: subset of {"zmq", "http", "sync"}
    MaxFault,   \* bound: crashes of the process and statements that throw
    MaxEvict    \* transactions the node drops

Blocks == 1..NBlocks
Tables == {"tx", "in", "out"}

ASSUME TxStoreAssumption ==
    /\ Tx \subseteq Nat \ {0} /\ IsFiniteSet(Tx) /\ IsFiniteSet(Coin)
    /\ Ins \in [Tx -> SUBSET Coin] /\ Outs \in [Tx -> SUBSET Coin]
    /\ NBlocks \in Nat /\ Block \in [Tx -> 0..NBlocks]
    /\ Ageing \subseteq Tx /\ Source \subseteq {"zmq", "http", "sync"}
    /\ {MaxFault, MaxEvict} \subseteq Nat

VARIABLES
    mempool,  \* the node's mempool
    height,   \* the node has mined the blocks 1..height
    tx,       \* rows, and those of them with block_hash, is_deleted,
              \* is_completed_check, created_at more than 14 days ago
    txin,     \* txid of the row of an outpoint, 0 if it has none;
              \* is_deleted, is_processed
    txout,    \* rows, is_deleted, is_used
    mp,       \* the next statement of each oneMempoolTxProcessor
    fl,       \* the batch of each block: pc, statements that are out, any failed
    ck,       \* checkMemPool: pc, records, noCompletedTxidMap, statements that are out
    tm,       \* checkTxTimeout: timeOutTxidList, statements that are out
    blurred,  \* history: one of these two has deleted something, or the
              \* marks of a batch were lost
    faults    \* history: crashes, failing statements, dropped transactions

tables == <<tx, txin, txout>>
node == <<mempool, height>>
vars == <<mempool, height, tx, txin, txout, mp, fl, ck, tm, blurred, faults>>

InBlock(b) == {t \in Tx : Block[t] = b}
Mined == {t \in Tx : Block[t] \in 1..height}
Live == tx.row \ tx.del
Faulty == faults.crash + faults.stmt < MaxFault

Init ==
    /\ mempool = {} /\ height = 0
    /\ tx = [row |-> {}, conf |-> {}, del |-> {}, chk |-> {}, old |-> {}]
    /\ txin = [by |-> [c \in Coin |-> 0], del |-> {}, done |-> {}]
    /\ txout = [row |-> {}, del |-> {}, used |-> {}]
    /\ mp = [p \in Source \X Tx |-> "idle"]
    /\ fl = [b \in Blocks |-> [pc |-> "idle", todo |-> {}, bad |-> FALSE]]
    /\ ck = [pc |-> "idle", recs |-> {}, bad |-> {}, todo |-> {}]
    /\ tm = [recs |-> {}, todo |-> {}]
    /\ blurred = FALSE
    /\ faults = [crash |-> 0, stmt |-> 0, evict |-> 0]

\* Mutant of TxRows: an update, which inserts no row.
TxRowsUpdate(T) == [tx EXCEPT !.del = @ \ T]

\* What an upsert of each table writes for a set of transactions.
TxRows(T) == [tx EXCEPT !.row = @ \cup T, !.del = @ \ T]

InRows(T) ==
    LET C == UNION {Ins[t] : t \in T} IN
    [txin EXCEPT !.by = [c \in Coin |-> IF c \in C THEN CHOOSE t \in T : c \in Ins[t]
                                        ELSE @[c]],
                 !.del = @ \ C]

OutRows(T) ==
    LET C == UNION {Outs[t] : t \in T} IN
    [txout EXCEPT !.row = @ \cup C, !.del = @ \ C]

\* markSpentUtxos
Spent(T) ==
    [txout EXCEPT !.used = @ \cup ((UNION {Ins[t] : t \in T}) \cap (txout.row \ txout.del))]

\* is_deleted becomes true for all rows of a set of transactions.
DelTx(T) == [tx EXCEPT !.del = @ \cup (T \cap tx.row)]
DelIns(T) == [txin EXCEPT !.del = @ \cup {c \in Coin : txin.by[c] \in T}]
DelOuts(T) == [txout EXCEPT !.del = @ \cup ((UNION {Outs[t] : t \in T}) \cap txout.row)]

Delete(T, k) ==
    \/ k = "tx" /\ tx' = DelTx(T) /\ UNCHANGED <<txin, txout>>
    \/ k = "in" /\ txin' = DelIns(T) /\ UNCHANGED <<tx, txout>>
    \/ k = "out" /\ txout' = DelOuts(T) /\ UNCHANGED <<tx, txin>>

-----------------------------------------------------------------------------
(* The node *)

Conflict(t, u) == t # u /\ Ins[t] \cap Ins[u] # {}
Child(t, u) == Outs[t] \cap Ins[u] # {}

\* The node accepts a transaction and tells some of the sources about it.
Accept(t) ==
    /\ t \notin mempool \cup Mined
    /\ \A u \in mempool \cup Mined : ~Conflict(t, u)
    /\ \A u \in Tx : Child(u, t) => u \in mempool \cup Mined
    /\ mempool' = mempool \cup {t}
    /\ \E S \in SUBSET (Source \ {"sync"}) :
         mp' = [p \in DOMAIN mp |->
                  IF p[2] = t /\ p[1] \in S /\ mp[p] = "idle" THEN "todo" ELSE mp[p]]
    /\ UNCHANGED <<height, tables, fl, ck, tm, faults, blurred>>

\* A block is mined; its transactions and what they contradict leave the mempool.
Mine ==
    /\ height < NBlocks
    /\ height' = height + 1
    /\ LET T == InBlock(height + 1)
           D == {u \in Tx : \E t \in T : Conflict(t, u)}
       IN mempool' = mempool \ (T \cup D \cup {u \in Tx : \E t \in D : Child(t, u)})
    /\ UNCHANGED <<tables, mp, fl, ck, tm, faults, blurred>>

Evict(t) ==
    /\ t \in mempool /\ \A u \in mempool : ~Child(t, u)
    /\ faults.evict < MaxEvict /\ faults' = [faults EXCEPT !.evict = @ + 1]
    /\ mempool' = mempool \ {t}
    /\ UNCHANGED <<height, tables, mp, fl, ck, tm, blurred>>

\* Fourteen days pass for a row without a block.
Age(t) ==
    /\ t \in (tx.row \cap Ageing) \ (tx.conf \cup tx.old)
    /\ tx' = [tx EXCEPT !.old = @ \cup {t}]
    /\ UNCHANGED <<node, txin, txout, mp, fl, ck, tm, faults, blurred>>

-----------------------------------------------------------------------------
(* Transactions of the mempool: oneMempoolTxProcessor *)

\* syncMemPool: its map of known transactions is always empty (the rows of
\* getrawmempool are strings), so it processes every transaction of the mempool.
SyncStart ==
    /\ \A p \in DOMAIN mp : p[1] = "sync" => mp[p] = "idle"
    /\ mp' = [p \in DOMAIN mp |->
                IF p[1] = "sync" /\ p[2] \in mempool THEN "todo" ELSE mp[p]]
    /\ UNCHANGED <<node, tables, fl, ck, tm, faults, blurred>>

\* getRawTxByRest fails for a transaction the node has dropped.
SyncGone(t) ==
    /\ "sync" \in Source /\ mp[<<"sync", t>>] = "todo" /\ t \notin mempool
    /\ mp' = [mp EXCEPT ![<<"sync", t>>] = "idle"]
    /\ UNCHANGED <<node, tables, fl, ck, tm, faults, blurred>>

\* ZMQ takes one transaction after the other.
MayBegin(s) == s = "zmq" => \A u \in Tx : mp[<<s, u>>] \in {"idle", "todo"}

\* Mutant of Begin: findOne also finds rows that are is_deleted.
BeginSeesDeleted(s, t) ==
    /\ mp[<<s, t>>] = "todo" /\ MayBegin(s)
    /\ mp' = [mp EXCEPT ![<<s, t>>] = IF t \in tx.row THEN "idle" ELSE "tx"]
    /\ UNCHANGED <<node, tables, fl, ck, tm, faults, blurred>>

\* findOne: a transaction that has a row and is not is_deleted is known.
Begin(s, t) ==
    /\ mp[<<s, t>>] = "todo" /\ MayBegin(s)
    /\ mp' = [mp EXCEPT ![<<s, t>>] = IF t \in Live THEN "idle" ELSE "tx"]
    /\ UNCHANGED <<node, tables, fl, ck, tm, faults, blurred>>

UpsertTx(s, t) ==
    /\ mp[<<s, t>>] = "tx"
    /\ tx' = TxRows({t})
    /\ mp' = [mp EXCEPT ![<<s, t>>] = "both"]
    /\ UNCHANGED <<node, txin, txout, fl, ck, tm, faults, blurred>>

\* The rows of both tables are written at the same time.
UpsertIn(s, t) ==
    /\ mp[<<s, t>>] \in {"both", "in"}
    /\ txin' = InRows({t})
    /\ mp' = [mp EXCEPT ![<<s, t>>] = IF @ = "both" THEN "out" ELSE "mark"]
    /\ UNCHANGED <<node, tx, txout, fl, ck, tm, faults, blurred>>

UpsertOut(s, t) ==
    /\ mp[<<s, t>>] \in {"both", "out"}
    /\ txout' = OutRows({t})
    /\ mp' = [mp EXCEPT ![<<s, t>>] = IF @ = "both" THEN "in" ELSE "mark"]
    /\ UNCHANGED <<node, tx, txin, fl, ck, tm, faults, blurred>>

Mark(s, t) ==
    /\ mp[<<s, t>>] = "mark"
    /\ txout' = Spent({t})
    /\ mp' = [mp EXCEPT ![<<s, t>>] = "idle"]
    /\ UNCHANGED <<node, tx, txin, fl, ck, tm, faults, blurred>>

\* Mutant of MemFail: the processor goes on without a tx row.
MemFailGoesOn(s, t) ==
    /\ Faulty /\ faults' = [faults EXCEPT !.stmt = @ + 1]
    /\ mp[<<s, t>>] = "tx" /\ mp' = [mp EXCEPT ![<<s, t>>] = "both"]
    /\ UNCHANGED <<node, tables, fl, ck, tm, blurred>>

\* A statement throws.  Only the upsert of the tx row ends the processor.
MemFail(s, t) ==
    /\ Faulty /\ faults' = [faults EXCEPT !.stmt = @ + 1]
    /\ LET at == mp[<<s, t>>] IN
         \E next \in CASE at \in {"tx", "mark"} -> {"idle"}
                       [] at = "both" -> {"in", "out"}
                       [] at \in {"in", "out"} -> {"mark"}
                       [] OTHER -> {} :
           mp' = [mp EXCEPT ![<<s, t>>] = next]
    /\ UNCHANGED <<node, tables, fl, ck, tm, blurred>>

-----------------------------------------------------------------------------
(* Transactions of a block: txBlockProcessDaemon and the double check *)

BTake(b) ==
    /\ b <= height /\ fl[b].pc = "idle"
    /\ fl' = [fl EXCEPT ![b] = [pc |-> "save", todo |-> Tables, bad |-> FALSE]]
    /\ UNCHANGED <<node, tables, mp, ck, tm, faults, blurred>>

BSave(b, k) ==
    /\ fl[b].pc = "save" /\ k \in fl[b].todo
    /\ LET T == InBlock(b) IN
         \/ /\ k = "tx" /\ tx' = [TxRows(T) EXCEPT !.conf = @ \cup T]
            /\ UNCHANGED <<txin, txout>>
         \/ k = "in" /\ txin' = InRows(T) /\ UNCHANGED <<tx, txout>>
         \/ k = "out" /\ txout' = OutRows(T) /\ UNCHANGED <<tx, txin>>
    /\ fl' = [fl EXCEPT ![b].todo = @ \ {k}]
    /\ UNCHANGED <<node, mp, ck, tm, faults, blurred>>

BFail(b, k) ==
    /\ fl[b].pc = "save" /\ k \in fl[b].todo
    /\ Faulty /\ faults' = [faults EXCEPT !.stmt = @ + 1]
    /\ fl' = [fl EXCEPT ![b].todo = @ \ {k}, ![b].bad = TRUE]
    /\ UNCHANGED <<node, tables, mp, ck, tm, blurred>>

Settle(b) ==
    fl' = [fl EXCEPT ![b] = IF fl[b].bad
                            THEN [pc |-> "save", todo |-> Tables, bad |-> FALSE]
                            ELSE [@ EXCEPT !.pc = "done"]]

\* Mutant of BMark: a batch of a block marks nothing.
BMarkNothing(b) ==
    /\ fl[b].pc = "save" /\ fl[b].todo = {}
    /\ Settle(b)
    /\ UNCHANGED <<node, tables, mp, ck, tm, faults, blurred>>

\* markSpentUtxos, then the block is completed or the batch is queued again.
BMark(b) ==
    /\ fl[b].pc = "save" /\ fl[b].todo = {}
    /\ txout' = Spent(InBlock(b))
    /\ Settle(b)
    /\ UNCHANGED <<node, tx, txin, mp, ck, tm, faults, blurred>>

\* The update of markSpentUtxos throws: nobody hears of it.
BMarkFail(b) ==
    /\ fl[b].pc = "save" /\ fl[b].todo = {}
    /\ Faulty /\ faults' = [faults EXCEPT !.stmt = @ + 1]
    /\ Settle(b)
    /\ blurred' = TRUE
    /\ UNCHANGED <<node, tables, mp, ck, tm>>

\* The tx_in and tx_out rows of the transactions T that still are theirs.
WholeIns(T) == \A t \in T : \A c \in Ins[t] : txin.by[c] = t
WholeOuts(T) == \A t \in T : Outs[t] \subseteq txout.row

\* doubleCheckBlock compares the number of these rows with what the stored tx rows
\* of the block say; also deleted ones count.  The block is then in doubleCheck, or
\* in nostart again; its transactions get is_completed_check in a later statement.
BCheck(b) ==
    /\ fl[b].pc = "done"
    /\ LET T == InBlock(b) \cap tx.conf IN
         fl' = [fl EXCEPT ![b].pc = IF WholeIns(T) /\ WholeOuts(T) THEN "pass" ELSE "idle"]
    /\ UNCHANGED <<node, tables, mp, ck, tm, faults, blurred>>

BChecked(b) ==
    /\ fl[b].pc = "pass"
    /\ tx' = [tx EXCEPT !.chk = @ \cup (InBlock(b) \cap tx.conf)]
    /\ fl' = [fl EXCEPT ![b].pc = "final"]
    /\ UNCHANGED <<node, txin, txout, mp, ck, tm, faults, blurred>>

-----------------------------------------------------------------------------
(* checkMemPool *)

CList ==
    /\ ck.pc = "idle" /\ Live \ (tx.conf \cup tx.chk) # {}
    /\ ck' = [pc |-> "ins", recs |-> Live \ (tx.conf \cup tx.chk), bad |-> {}, todo |-> {}]
    /\ UNCHANGED <<node, tables, mp, fl, tm, faults, blurred>>

CountIn(t) == {c \in Coin : txin.by[c] = t /\ c \notin txin.del}

\* Mutant of CIns: the inputs are not counted.
CInsIgnored ==
    /\ ck.pc = "ins"
    /\ ck' = [ck EXCEPT !.pc = "outs"]
    /\ UNCHANGED <<node, tables, mp, fl, tm, faults, blurred>>

CIns ==
    /\ ck.pc = "ins"
    /\ ck' = [ck EXCEPT !.pc = "outs", !.bad = {t \in ck.recs : CountIn(t) # Ins[t]}]
    /\ UNCHANGED <<node, tables, mp, fl, tm, faults, blurred>>

\* Mutant of COuts: only the inputs are counted.
COutsIgnored ==
    /\ ck.pc = "outs"
    /\ ck' = IF ck.bad = {} THEN [ck EXCEPT !.pc = "pass"]
             ELSE [ck EXCEPT !.pc = "del", !.todo = Tables]
    /\ UNCHANGED <<node, tables, mp, fl, tm, faults, blurred>>

COuts ==
    /\ ck.pc = "outs"
    /\ LET bad == ck.bad \cup {t \in ck.recs : ~(Outs[t] \subseteq txout.row \ txout.del)} IN
         ck' = IF bad = {} THEN [ck EXCEPT !.pc = "pass"]
               ELSE [ck EXCEPT !.pc = "del", !.bad = bad, !.todo = Tables]
    /\ UNCHANGED <<node, tables, mp, fl, tm, faults, blurred>>

\* noCompletedTxidList: three updates at the same time.
CDelete(k) ==
    /\ ck.pc = "del" /\ k \in ck.todo
    /\ Delete(ck.bad, k)
    /\ ck' = [ck EXCEPT !.todo = @ \ {k}, !.pc = IF ck.todo = {k} THEN "pass" ELSE @]
    /\ blurred' = TRUE
    /\ UNCHANGED <<node, mp, fl, tm, faults>>

CIdle == [pc |-> "idle", recs |-> {}, bad |-> {}, todo |-> {}]

\* completedTxidList
CPass ==
    /\ ck.pc = "pass"
    /\ tx' = [tx EXCEPT !.chk = @ \cup (ck.recs \ ck.bad)]
    /\ ck' = CIdle
    /\ UNCHANGED <<node, txin, txout, mp, fl, tm, faults, blurred>>

CFail ==
    /\ ck.pc # "idle"
    /\ Faulty /\ faults' = [faults EXCEPT !.stmt = @ + 1]
    /\ ck' = CIdle
    /\ UNCHANGED <<node, tables, mp, fl, tm, blurred>>

-----------------------------------------------------------------------------
(* checkTxTimeout and useTxo *)

TIdle == [recs |-> {}, todo |-> {}]

\* Mutant of TList: what checkMemPool has passed is not looked at.
TListUnchecked ==
    LET recs == (Live \cap tx.old) \ (tx.conf \cup tx.chk) IN
    /\ tm.todo = {} /\ recs # {}
    /\ tm' = [recs |-> recs, todo |-> Tables]
    /\ UNCHANGED <<node, tables, mp, fl, ck, faults, blurred>>

TList ==
    /\ tm.todo = {} /\ (Live \cap tx.old) \ tx.conf # {}
    /\ tm' = [recs |-> (Live \cap tx.old) \ tx.conf, todo |-> Tables]
    /\ UNCHANGED <<node, tables, mp, fl, ck, faults, blurred>>

TDelete(k) ==
    /\ k \in tm.todo
    /\ Delete(tm.recs, k)
    /\ tm' = IF tm.todo = {k} THEN TIdle ELSE [tm EXCEPT !.todo = @ \ {k}]
    /\ blurred' = TRUE
    /\ UNCHANGED <<node, mp, fl, ck, faults>>

\* Outpoints with a row in both tables, the one of tx_in not is_processed.
Unprocessed == {c \in txout.row : txin.by[c] # 0} \ txin.done

\* Mutant of UseTxo: a tx_in row is processed without its tx_out row.
UseTxoAlone ==
    LET new == {c \in Coin : txin.by[c] # 0} \ txin.done IN
    /\ new # {}
    /\ txin' = [txin EXCEPT !.done = @ \cup new]
    /\ txout' = [txout EXCEPT !.used = @ \cup (new \cap txout.row)]
    /\ UNCHANGED <<node, tx, mp, fl, ck, tm, faults, blurred>>

UseTxo ==
    /\ Unprocessed # {}
    /\ txin' = [txin EXCEPT !.done = @ \cup Unprocessed]
    /\ txout' = [txout EXCEPT !.used = @ \cup Unprocessed]
    /\ UNCHANGED <<node, tx, mp, fl, ck, tm, faults, blurred>>

-----------------------------------------------------------------------------
(* The process *)

\* What is in memory is lost; the status of a block is in its row.
Crash ==
    /\ Faulty /\ faults' = [faults EXCEPT !.crash = @ + 1]
    /\ mp' = [p \in DOMAIN mp |-> "idle"]
    /\ fl' = [b \in Blocks |->
                CASE fl[b].pc = "save" -> [pc |-> "idle", todo |-> {}, bad |-> FALSE]
                  [] fl[b].pc = "pass" -> [fl[b] EXCEPT !.pc = "final"]
                  [] OTHER -> fl[b]]
    /\ ck' = CIdle /\ tm' = TIdle
    /\ UNCHANGED <<node, tables, blurred>>

MemStep(s, t) ==
    \/ Begin(s, t) \/ UpsertTx(s, t) \/ UpsertIn(s, t) \/ UpsertOut(s, t) \/ Mark(s, t)

BlockStep(b) ==
    BTake(b) \/ (\E k \in Tables : BSave(b, k)) \/ BMark(b) \/ BCheck(b) \/ BChecked(b)

CheckStep == CList \/ CIns \/ COuts \/ (\E k \in Tables : CDelete(k)) \/ CPass

TimeoutStep == TList \/ \E k \in Tables : TDelete(k)

Next ==
    \/ \E t \in Tx : Accept(t) \/ Evict(t) \/ Age(t) \/ SyncGone(t)
    \/ Mine \/ SyncStart
    \/ \E s \in Source, t \in Tx : MemStep(s, t) \/ MemFail(s, t)
    \/ \E b \in Blocks : BlockStep(b) \/ BMarkFail(b) \/ \E k \in Tables : BFail(b, k)
    \/ CheckStep \/ CFail \/ TimeoutStep \/ UseTxo \/ Crash

\* Every daemon goes on, and time passes.  The node need not do anything.
Fairness ==
    /\ WF_vars(SyncStart) /\ WF_vars(CheckStep) /\ WF_vars(TimeoutStep) /\ WF_vars(UseTxo)
    /\ \A t \in Tx : WF_vars(Age(t)) /\ WF_vars(SyncGone(t))
    /\ \A s \in Source, t \in Tx : WF_vars(MemStep(s, t))
    /\ \A b \in Blocks : WF_vars(BlockStep(b))

Spec == Init /\ [][Next]_vars /\ Fairness

-----------------------------------------------------------------------------
(* What the HTTP routes show, and properties *)

\* address.service balance and utxo: they do not look at tx.is_deleted.
Unspent ==
    {c \in txout.row \ (txout.del \cup txout.used) :
        /\ \E t \in tx.row : c \in Outs[t]
        /\ txin.by[c] = 0 \/ c \in txin.del}

\* Every variable stays in its type, and flags belong to rows.
TypeOK ==
    /\ mempool \subseteq Tx /\ height \in 0..NBlocks
    /\ {tx.row, tx.conf, tx.del, tx.chk, tx.old} \subseteq SUBSET Tx
    /\ tx.conf \cup tx.del \cup tx.chk \cup tx.old \subseteq tx.row
    /\ txin.by \in [Coin -> Tx \cup {0}]
    /\ txin.del \cup txin.done \subseteq {c \in Coin : txin.by[c] # 0}
    /\ txout.row \subseteq Coin /\ txout.del \cup txout.used \subseteq txout.row
    /\ mp \in [Source \X Tx -> {"idle", "todo", "tx", "both", "in", "out", "mark"}]
    /\ \A b \in Blocks : /\ fl[b].pc \in {"idle", "save", "done", "pass", "final"}
                         /\ fl[b].todo \subseteq Tables /\ fl[b].bad \in BOOLEAN
    /\ ck.pc \in {"idle", "ins", "outs", "del", "pass"}
    /\ ck.bad \subseteq ck.recs /\ ck.recs \subseteq tx.row /\ ck.todo \subseteq Tables
    /\ tm.recs \subseteq tx.row /\ tm.todo \subseteq Tables
    /\ blurred \in BOOLEAN
    /\ faults \in [{"crash", "stmt", "evict"} -> Nat]

\* A transaction with is_completed_check has all its outputs in tx_out, and each
\* outpoint it spends has a row in tx_in, its own unless a double spend took it.
CheckedIsWhole ==
    \A t \in tx.chk :
        /\ Outs[t] \subseteq txout.row
        /\ \A c \in Ins[t] : txin.by[c] = t \/ \E u \in Tx : Conflict(t, u) /\ txin.by[c] = u

\* "A chain created and spent in one block is marked completely"
\* (transaction.service.ts:846): once a block is completed, an output that one
\* transaction of it creates and another spends is is_used, as long as no update
\* that marks has failed and neither checkMemPool nor checkTxTimeout deleted rows
\* under the batch.  Those are left to useTxo, see SpentIsMarked.
Completed == {b \in Blocks : fl[b].pc \in {"done", "pass", "final"}}

ChainIsMarked ==
    ~blurred => \A b \in Completed : \A t, u \in InBlock(b) :
        Outs[t] \cap Ins[u] \subseteq txout.used

\* An output is not shown as unspent once a live transaction that spends it has
\* passed checkMemPool: whatever that deleted before and deletes of others, whoever
\* indexes the transaction again meanwhile, and though marking the output failed.
\* Not after a timeout, which deletes the rows of the tables one by one, and not if
\* another transaction that spends it is stored or mined: that takes the tx_in row,
\* and checkMemPool may then delete this row as its own.
SpendIsHidden ==
    tx.old = {} =>
        \A u \in (Live \cap tx.chk) \ tx.conf : \A c \in Ins[u] :
            (\A w \in tx.row \cup Mined : c \in Ins[w] => w = u) => c \notin Unspent

\* An output is shown as unspent as long as no transaction that spends it is stored
\* or mined: no statement that fails, no crash and no order of the processors, the
\* batches and useTxo leaves a mark or a tx_in row for a transaction that has no tx
\* row and is in no block.  What a deleted transaction spent stays hidden.
UnspentIsShown ==
    \A t \in tx.row : \A c \in Outs[t] \cap (txout.row \ txout.del) :
        (\A w \in tx.row \cup Mined : c \notin Ins[w]) => c \in Unspent

\* "useTxo marks what the batches missed" (transaction.service.ts:310): an output
\* that some stored transaction spends is in the end is_used.
SpentIsMarked ==
    \A c \in Coin : (c \in txout.row /\ txin.by[c] # 0) ~> (c \in txout.used)

\* Lost messages, deletions by checkMemPool and timeouts are repaired by the
\* comparison with getrawmempool: a transaction that stays in the node's mempool
\* is again and again in the table.
MempoolIsIndexed == \A t \in Tx : []<>(t \notin mempool \/ t \in Live)

\* A transaction that the node dropped and never mines disappears from the table,
\* though a late ZMQ message may bring it back for a while.
DroppedIsDeleted ==
    \A t \in Ageing : <>[](t \notin mempool \cup Mined) => <>[](t \notin Live)

\* checkMemPool and checkTxTimeout: "any time can run" (transaction.service.ts:533,
\* 653): they never delete a transaction that is in a block.
ConfirmedNeverDeleted == [][\A t \in tx.conf : t \in tx'.del => t \in tx.del]_vars
=============================================================================
