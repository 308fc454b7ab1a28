----------------------------- MODULE BlockIndex -----------------------------
(***************************************************************************)
(* How a block whose header is stored becomes an indexed block.            *)
(*                                                                         *)
(* Four daemons of one Node.js process share the `block` table, the folder *)
(* of downloaded block files and the in-memory queue of transactions:      *)
(*   D  daemonDownloadBlock     block.service.ts                           *)
(*   P  clearProcessingBlock, then daemonProcessBlock  block.service.ts    *)
(*   T  txBlockProcessDaemon    transaction.service.ts                     *)
(*   C  daemonDoubleCheckBlock  block.service.ts                           *)
(* They interleave at every await.  One action is the code between two     *)
(* awaits that reach the database, the node or the file system, together   *)
(* with the statement it awaits, which the database executes atomically.   *)
(*                                                                         *)
(* A block is its rank in ascending height.  Its transactions are          *)
(* <<b, 1>> (the coinbase) to <<b, NumTx[b]>>, each with one input and one *)
(* output; the coinbase has no tx_in row.                                  *)
(***************************************************************************)
EXTENDS Integers, Sequences, FiniteSets, FiniteSetsExt

CONSTANTS
    NBlocks,          \* number of rows of the block table at or above syncFromHeight
    NumTx,            \* NumTx[b]: the transactions of block b
    BlockCacheNumber, \* configuration blockCacheNumber
    DownloadPool,     \* 5 in downloadBlock
    ProcessPool,      \* 2 in processBlock
    CheckPool,        \* 4 in daemonDoubleCheckBlock
    CheckGate,        \* 200 in daemonDoubleCheckBlock
    QueueMax,         \* txMempoolQueueMax, 20000
    BulkNumber,       \* 5000 in txBlockProcessDaemon
    StepNumber,       \* 1000 in txBlockProcessDaemon
    MaxFaults,        \* bound: how often fault k happens in a behaviour
    MaxKinds          \* bound: how many kinds of fault a behaviour has

Blocks == 1..NBlocks

FaultKinds == {"crash",   \* the process dies and is started again
               "rpc",     \* getblock fails or the file cannot be written
               "bad",     \* the node's answer does not parse or fails verifyMerkle
               "stmt",    \* an UPDATE of the block or tx table throws
               "save",    \* the upsert of one chunk of a batch throws
               "decode",  \* oneBlockTxProcessor throws
               "early"}   \* P picks a `processing` block that T still works on

ASSUME BlockIndexAssumption ==
    /\ NBlocks \in Nat
    /\ NumTx \in [Blocks -> Nat \ {0}]
    /\ BlockCacheNumber \in Nat
    /\ {DownloadPool, ProcessPool, CheckPool} \subseteq Nat \ {0}
    /\ {CheckGate, QueueMax, BulkNumber, StepNumber} \subseteq Nat \ {0}
    /\ MaxFaults \in [FaultKinds -> Nat] /\ MaxKinds \in Nat

VARIABLES
    \* MySQL
    status,     \* block.processStatus
    rows,       \* rows[t]: the transactions whose rows of table t are stored
    checked,    \* tx.is_completed_check
    \* the block cache folder
    file,       \* file[b]: the content of <hash>.bin
    rmPending,  \* blocks whose fs.rm was issued and has not run yet
    \* D
    dcap,       \* willCacheNumber of the pass, 0 between passes
    dstage,     \* where each row of the pass is in downloadFile
    \* P
    pphase,     \* which of its loops P is in
    pstage,     \* where each selected row is in _processOneBlock
    plast,      \* results of the pool: blocks whose last tx is not queued yet
    \* T
    queue,      \* txBlockQueue
    batch,      \* beforeItemList: the items shifted since the last flush
    tphase,     \* accumulating, saving, or running blockEndDo
    tleft,      \* tleft[t]: rows of table t no upsert has been tried for
    tfailed,    \* errorsLength > 0
    \* C
    cphase,     \* between the two SELECTs of a pass, or not
    cstage,     \* where each listed block is in doubleCheckBlock
    cread,      \* what its three queries returned, -1 before they did
    \* history
    faults      \* faults[k]: how often fault k happened

db == <<status, rows, checked>>
disk == <<file, rmPending>>
dvars == <<dcap, dstage>>
pvars == <<pphase, pstage, plast>>
tvars == <<batch, tphase, tleft, tfailed>>
cvars == <<cphase, cstage, cread>>
vars == <<status, rows, checked, file, rmPending, dcap, dstage, pphase, pstage,
          plast, queue, batch, tphase, tleft, tfailed, cphase, cstage, cread,
          faults>>

Statuses == {"nostart", "downloading", "downloaded", "processing", "completed",
             "doubleCheck"}
Tables == {"tx", "tx_in", "tx_out"}
DStages == {"none", "todo", "rpc", "got"}
PStages == {"none", "todo", "reset", "mark", "save"}
CStages == {"none", "todo", "read", "tick"}

Txs(b) == {b} \X (1..NumTx[b])
AllTx == UNION {Txs(b) : b \in Blocks}
LastTx(b) == <<b, NumTx[b]>>
IsLast(t) == t = LastTx(t[1])

\* The rows a transaction has in a table: none in tx_in for a coinbase.
RowsIn(tbl, S) == IF tbl = "tx_in" THEN {t \in S : t[2] # 1} ELSE S

Fully(t) == \A tbl \in Tables : t \in RowsIn(tbl, {t}) => t \in rows[tbl]

Elems(s) == {s[k] : k \in 1..Len(s)}
InMemory == Elems(queue) \cup Elems(batch)

WithStatus(S) == {b \in Blocks : status[b] \in S}
Lowest(S) == {b \in S : \A c \in S : b <= c}
Active(stage, S) == Cardinality({b \in Blocks : stage[b] \in S})
Idle(stage) == \A b \in Blocks : stage[b] = "none"

NoRead == [sum |-> -1, ins |-> -1, outs |-> -1]

Init ==
    /\ status = [b \in Blocks |-> "nostart"]
    /\ rows = [tbl \in Tables |-> {}]
    /\ checked = {}
    /\ file = [b \in Blocks |-> "none"]
    /\ rmPending = {}
    /\ dcap = 0 /\ dstage = [b \in Blocks |-> "none"]
    /\ pphase = "boot" /\ pstage = [b \in Blocks |-> "none"] /\ plast = <<>>
    /\ queue = <<>>
    /\ batch = <<>> /\ tphase = "take" /\ tfailed = FALSE
    /\ tleft = [tbl \in Tables |-> {}]
    /\ cphase = "gate" /\ cstage = [b \in Blocks |-> "none"]
    /\ cread = [b \in Blocks |-> NoRead]
    /\ faults = [k \in FaultKinds |-> 0]

Fault(k) ==
    /\ faults[k] < MaxFaults[k]
    /\ Cardinality({j \in FaultKinds \ {k} : faults[j] > 0}) < MaxKinds
    /\ faults' = [faults EXCEPT ![k] = @ + 1]

SetStatus(b, s) == status' = [status EXCEPT ![b] = s]

-----------------------------------------------------------------------------
(* D: downloadBlock and downloadFile *)

DCount ==
    /\ dcap = 0 /\ Idle(dstage)
    /\ BlockCacheNumber > Cardinality(WithStatus({"downloaded"}))
    /\ dcap' = BlockCacheNumber - Cardinality(WithStatus({"downloaded"}))
    /\ UNCHANGED <<db, disk, dstage, pvars, queue, tvars, cvars, faults>>

\* Mutant of DSelect: the page also takes rows that are being processed.
DSelectBusy ==
    /\ dcap > 0
    /\ LET waiting == WithStatus({"nostart", "downloading", "processing"})
           page == {b \in waiting :
                      Cardinality({c \in waiting : c < b}) < dcap}
       IN  dstage' = [b \in Blocks |-> IF b \in page THEN "todo" ELSE "none"]
    /\ dcap' = 0
    /\ UNCHANGED <<db, disk, pvars, queue, tvars, cvars, faults>>

\* The dcap lowest rows that are not downloaded.
DSelect ==
    /\ dcap > 0
    /\ LET waiting == WithStatus({"nostart", "downloading"})
           page == {b \in waiting :
                      Cardinality({c \in waiting : c < b}) < dcap}
       IN  dstage' = [b \in Blocks |-> IF b \in page THEN "todo" ELSE "none"]
    /\ dcap' = 0
    /\ UNCHANGED <<db, disk, pvars, queue, tvars, cvars, faults>>

DTurn(b) ==
    /\ b \in Lowest({c \in Blocks : dstage[c] = "todo"})
    /\ Active(dstage, {"rpc", "got"}) < DownloadPool

DStart(b) ==
    /\ DTurn(b)
    /\ SetStatus(b, "downloading")
    /\ dstage' = [dstage EXCEPT ![b] = "rpc"]
    /\ UNCHANGED <<rows, checked, disk, dcap, pvars, queue, tvars, cvars, faults>>

\* getRawBlockByRest returned true: the file is overwritten.
DRpc(b) ==
    /\ dstage[b] = "rpc"
    /\ \/ file' = [file EXCEPT ![b] = "ok"] /\ UNCHANGED faults
       \/ file' = [file EXCEPT ![b] = "bad"] /\ Fault("bad")
    /\ dstage' = [dstage EXCEPT ![b] = "got"]
    /\ UNCHANGED <<db, rmPending, dcap, pvars, queue, tvars, cvars>>

\* Mutant of DRpcFail: the result of getRawBlockByRest is not looked at.
DRpcFailIgnored(b) ==
    /\ dstage[b] = "rpc" /\ Fault("rpc")
    /\ dstage' = [dstage EXCEPT ![b] = "got"]
    /\ UNCHANGED <<db, disk, dcap, pvars, queue, tvars, cvars>>

\* getRawBlockByRest returned false: the row stays `downloading`.
DRpcFail(b) ==
    /\ dstage[b] = "rpc" /\ Fault("rpc")
    /\ dstage' = [dstage EXCEPT ![b] = "none"]
    /\ UNCHANGED <<db, disk, dcap, pvars, queue, tvars, cvars>>

DDone(b) ==
    /\ dstage[b] = "got"
    /\ SetStatus(b, "downloaded")
    /\ dstage' = [dstage EXCEPT ![b] = "none"]
    /\ UNCHANGED <<rows, checked, disk, dcap, pvars, queue, tvars, cvars, faults>>

\* An UPDATE of downloadFile throws: clearFile.
DFail(b) ==
    /\ DTurn(b) \/ dstage[b] = "got"
    /\ Fault("stmt")
    /\ file' = [file EXCEPT ![b] = "none"]
    /\ dstage' = [dstage EXCEPT ![b] = "none"]
    /\ UNCHANGED <<db, rmPending, dcap, pvars, queue, tvars, cvars>>

-----------------------------------------------------------------------------
(* P: processPendingBlock, processBlock and _processOneBlock *)

QueueFull == Len(queue) >= QueueMax

PBoot ==
    /\ pphase = "boot"
    /\ pstage' = [b \in Blocks |-> IF status[b] = "processing" THEN "todo" ELSE "none"]
    /\ pphase' = "pending"
    /\ UNCHANGED <<db, disk, dvars, plast, queue, tvars, cvars, faults>>

\* Downloaded rows in height order until their transactions exceed QueueMax.
PPage ==
    LET down == WithStatus({"downloaded"})
        Before(b) == {c \in down : c < b}
    IN  {b \in down :
           Len(queue) + MapThenSumSet(LAMBDA c : NumTx[c], Before(b)) <= QueueMax
             \/ Before(b) = {}}

PSelect ==
    /\ pphase = "idle" /\ ~QueueFull
    /\ WithStatus({"downloaded"}) # {}
    /\ pstage' = [b \in Blocks |-> IF b \in PPage THEN "todo" ELSE "none"]
    /\ pphase' = "pool"
    /\ UNCHANGED <<db, disk, dvars, plast, queue, tvars, cvars, faults>>

\* Mutant of PSelectAgain: rows left in `processing` are not looked for.
PSelectAgainNever(b) ==
    /\ FALSE
    /\ UNCHANGED vars

\* No downloaded row: one `processing` row is taken again.  The code sleeps
\* three seconds after such a pass, normally enough for T to finish the block;
\* picking it while T still holds it is counted in faults.
PSelectAgain(b) ==
    /\ pphase = "idle" /\ ~QueueFull
    /\ WithStatus({"downloaded"}) = {}
    /\ status[b] = "processing"
    /\ IF Txs(b) \cap InMemory # {} THEN Fault("early") ELSE UNCHANGED faults
    /\ pstage' = [pstage EXCEPT ![b] = "todo"]
    /\ pphase' = "pool"
    /\ UNCHANGED <<db, disk, dvars, plast, queue, tvars, cvars>>

PTurn(b) ==
    LET todo == {c \in Blocks : pstage[c] = "todo"}
        busy == Active(pstage, {"reset", "mark", "save"})
    IN  \/ pphase = "pool" /\ b \in Lowest(todo) /\ busy < ProcessPool
        \/ pphase = "pending" /\ b \in todo /\ busy = 0

\* isFull, reading and parsing the file, verifyMerkle.
PStart(b) ==
    /\ PTurn(b)
    /\ pstage' = [pstage EXCEPT ![b] =
         IF QueueFull THEN "none" ELSE IF file[b] = "ok" THEN "mark" ELSE "reset"]
    /\ UNCHANGED <<db, disk, dvars, pphase, plast, queue, tvars, cvars, faults>>

PReset(b) ==
    /\ pstage[b] = "reset"
    /\ SetStatus(b, "nostart")
    /\ pstage' = [pstage EXCEPT ![b] = "none"]
    /\ UNCHANGED <<rows, checked, disk, dvars, pphase, plast, queue, tvars, cvars, faults>>

\* Mutant of Burst: the last transaction is queued with the others, first.
BurstReversed(b) == [i \in 1..NumTx[b] |-> <<b, NumTx[b] + 1 - i>>]

\* All transactions but the last, in block order.
Burst(b) == [i \in 1..(NumTx[b] - 1) |-> <<b, i>>]

PMark(b) ==
    /\ pstage[b] = "mark"
    /\ SetStatus(b, "processing")
    /\ queue' = queue \o Burst(b)
    /\ pstage' = [pstage EXCEPT ![b] = "save"]
    /\ UNCHANGED <<rows, checked, disk, dvars, pphase, plast, tvars, cvars, faults>>

\* save(nostartRow) writes `processing` over whatever the row holds now; its
\* exception is swallowed.  Then the last transaction is queued, at once in
\* processPendingBlock, with the results of the pool in processBlock.
PSave(b) ==
    /\ pstage[b] = "save"
    /\ \/ SetStatus(b, "processing") /\ UNCHANGED faults
       \/ UNCHANGED status /\ Fault("stmt")
    /\ pstage' = [pstage EXCEPT ![b] = "none"]
    /\ IF pphase = "pool"
       THEN plast' = Append(plast, b) /\ UNCHANGED queue
       ELSE queue' = Append(queue, LastTx(b)) /\ UNCHANGED plast
    /\ UNCHANGED <<rows, checked, disk, dvars, pphase, tvars, cvars>>

\* The UPDATE throws: the pool drops the block.  (In processPendingBlock the
\* rejection is unhandled and ends the process: that is Crash.)
PFail(b) ==
    /\ pphase = "pool" /\ pstage[b] \in {"reset", "mark"}
    /\ Fault("stmt")
    /\ pstage' = [pstage EXCEPT ![b] = "none"]
    /\ UNCHANGED <<db, disk, dvars, pphase, plast, queue, tvars, cvars>>

PEnd ==
    /\ pphase \in {"pool", "pending"} /\ Idle(pstage)
    /\ queue' = queue \o [k \in 1..Len(plast) |-> LastTx(plast[k])]
    /\ plast' = <<>>
    /\ pphase' = "idle"
    /\ UNCHANGED <<db, disk, dvars, pstage, tvars, cvars, faults>>

-----------------------------------------------------------------------------
(* T: txBlockProcessDaemon and blockEndDo *)

TTake ==
    /\ tphase = "take" /\ queue # <<>>
    /\ batch' = Append(batch, Head(queue))
    /\ queue' = Tail(queue)
    /\ IF Len(batch') >= BulkNumber \/ queue' = <<>>
       THEN /\ tphase' = "save"
            /\ tleft' = [tbl \in Tables |-> RowsIn(tbl, Elems(batch'))]
       ELSE UNCHANGED <<tphase, tleft>>
    /\ UNCHANGED <<db, disk, dvars, pvars, tfailed, cvars, faults>>

\* txBlockProcess throws: the lists are local to the try block and are lost.
TThrow ==
    /\ tphase = "take" /\ queue # <<>>
    /\ Fault("decode")
    /\ queue' = Tail(queue)
    /\ batch' = <<>>
    /\ UNCHANGED <<db, disk, dvars, pvars, tphase, tleft, tfailed, cvars>>

TChunk(tbl, chunk) ==
    /\ tphase = "save"
    /\ chunk # {}
    /\ Cardinality(chunk) = Min({StepNumber, Cardinality(tleft[tbl])})
    /\ tleft' = [tleft EXCEPT ![tbl] = @ \ chunk]
    /\ \/ /\ rows' = [rows EXCEPT ![tbl] = @ \cup chunk]
          /\ UNCHANGED <<tfailed, faults>>
       \/ tfailed' = TRUE /\ Fault("save") /\ UNCHANGED rows
    /\ UNCHANGED <<status, checked, disk, dvars, pvars, queue, batch, tphase, cvars>>

\* Mutant of TFlushed: the items of a failed batch are not queued again.
TFlushedForget ==
    /\ tphase = "save" /\ \A tbl \in Tables : tleft[tbl] = {}
    /\ IF tfailed
       THEN batch' = <<>> /\ tphase' = "take"
       ELSE tphase' = "end" /\ UNCHANGED batch
    /\ tfailed' = FALSE
    /\ UNCHANGED <<db, disk, dvars, pvars, queue, tleft, cvars, faults>>

\* errorsLength === 0, or every item goes back behind the queue.
TFlushed ==
    /\ tphase = "save" /\ \A tbl \in Tables : tleft[tbl] = {}
    /\ IF tfailed
       THEN queue' = queue \o batch /\ batch' = <<>> /\ tphase' = "take"
       ELSE tphase' = "end" /\ UNCHANGED <<queue, batch>>
    /\ tfailed' = FALSE
    /\ UNCHANGED <<db, disk, dvars, pvars, tleft, cvars, faults>>

\* Mutant of TEnd: the lists are not reset after the last item.
TEndNoReset ==
    /\ tphase = "end"
    /\ LET item == Head(batch) IN
         IF IsLast(item)
         THEN /\ SetStatus(item[1], "completed")
              /\ rmPending' = rmPending \cup {item[1]}
         ELSE UNCHANGED <<status, rmPending>>
    /\ batch' = Tail(batch)
    /\ UNCHANGED <<rows, checked, file, dvars, pvars, queue, tphase, tleft, tfailed, cvars, faults>>

TEnd ==
    /\ tphase = "end"
    /\ LET item == Head(batch) IN
         IF IsLast(item)
         THEN /\ SetStatus(item[1], "completed")
              /\ rmPending' = rmPending \cup {item[1]}
         ELSE UNCHANGED <<status, rmPending>>
    /\ batch' = Tail(batch)
    /\ tphase' = IF Len(batch) = 1 THEN "take" ELSE "end"
    /\ UNCHANGED <<rows, checked, file, dvars, pvars, queue, tleft, tfailed, cvars, faults>>

\* The UPDATE of blockEndDo throws: the rest of the batch is never ended.
TEndFail ==
    /\ tphase = "end" /\ IsLast(Head(batch))
    /\ Fault("stmt")
    /\ batch' = <<>> /\ tphase' = "take"
    /\ UNCHANGED <<db, disk, dvars, pvars, queue, tleft, tfailed, cvars>>

\* clearBlockDataCache is fs.rm with a callback nobody waits for.
RmFile(b) ==
    /\ b \in rmPending
    /\ file' = [file EXCEPT ![b] = "none"]
    /\ rmPending' = rmPending \ {b}
    /\ UNCHANGED <<db, dvars, pvars, queue, tvars, cvars, faults>>

-----------------------------------------------------------------------------
(* C: daemonDoubleCheckBlock and doubleCheckBlock *)

CGate ==
    /\ cphase = "gate" /\ Idle(cstage)
    /\ Cardinality(Blocks \ WithStatus({"completed", "doubleCheck"})) < CheckGate
    /\ cphase' = "list"
    /\ UNCHANGED <<db, disk, dvars, pvars, queue, tvars, cstage, cread, faults>>

\* Mutant of CList: every row at least processing is listed.
CListProcessing ==
    /\ cphase = "list"
    /\ cstage' = [b \in Blocks |->
                    IF status[b] \in {"processing", "completed"} THEN "todo" ELSE "none"]
    /\ cphase' = "gate"
    /\ UNCHANGED <<db, disk, dvars, pvars, queue, tvars, cread, faults>>

CList ==
    /\ cphase = "list"
    /\ cstage' = [b \in Blocks |-> IF status[b] = "completed" THEN "todo" ELSE "none"]
    /\ cphase' = "gate"
    /\ UNCHANGED <<db, disk, dvars, pvars, queue, tvars, cread, faults>>

CStart(b) ==
    /\ b \in Lowest({c \in Blocks : cstage[c] = "todo"})
    /\ Active(cstage, {"read", "tick"}) < CheckPool
    /\ cstage' = [cstage EXCEPT ![b] = "read"]
    /\ UNCHANGED <<db, disk, dvars, pvars, queue, tvars, cphase, cread, faults>>

TxRows(b) == rows["tx"] \cap Txs(b)

\* The three queries run in parallel, each on the rows of its own moment.
CRead(b, q) ==
    /\ cstage[b] = "read" /\ cread[b][q] = -1
    /\ cread' = [cread EXCEPT ![b][q] =
         Cardinality(CASE q = "sum"  -> TxRows(b)
                       [] q = "ins"  -> TxRows(b) \cap rows["tx_in"]
                       [] q = "outs" -> TxRows(b) \cap rows["tx_out"])]
    /\ UNCHANGED <<db, disk, dvars, pvars, queue, tvars, cphase, cstage, faults>>

\* Mutant of Pass: the coinbase is expected to have a tx_in row.
PassCoinbase(r) == r.sum = r.ins /\ r.sum = r.outs

\* SUM is NULL without rows and then counts as one.
Pass(r) ==
    LET total == IF r.sum = 0 THEN 1 ELSE r.sum
    IN  total - 1 = r.ins /\ total = r.outs

CDecide(b) ==
    /\ cstage[b] = "read"
    /\ \A q \in DOMAIN NoRead : cread[b][q] # -1
    /\ SetStatus(b, IF Pass(cread[b]) THEN "doubleCheck" ELSE "nostart")
    /\ cstage' = [cstage EXCEPT ![b] = IF Pass(cread[b]) THEN "tick" ELSE "none"]
    /\ cread' = [cread EXCEPT ![b] = NoRead]
    /\ UNCHANGED <<rows, checked, disk, dvars, pvars, queue, tvars, cphase, faults>>

\* The block's tx rows get is_completed_check, in a second UPDATE.
CTick(b) ==
    /\ cstage[b] = "tick"
    /\ checked' = checked \cup TxRows(b)
    /\ cstage' = [cstage EXCEPT ![b] = "none"]
    /\ UNCHANGED <<status, rows, disk, dvars, pvars, queue, tvars, cphase, cread, faults>>

CFail(b) ==
    /\ cstage[b] \in {"read", "tick"}
    /\ Fault("stmt")
    /\ cstage' = [cstage EXCEPT ![b] = "none"]
    /\ cread' = [cread EXCEPT ![b] = NoRead]
    /\ UNCHANGED <<db, disk, dvars, pvars, queue, tvars, cphase>>

-----------------------------------------------------------------------------
\* The process dies: the database and the files survive, memory does not.
Crash ==
    /\ Fault("crash")
    /\ rmPending' = {}
    /\ dcap' = 0 /\ dstage' = [b \in Blocks |-> "none"]
    /\ pphase' = "boot" /\ pstage' = [b \in Blocks |-> "none"] /\ plast' = <<>>
    /\ queue' = <<>>
    /\ batch' = <<>> /\ tphase' = "take" /\ tfailed' = FALSE
    /\ tleft' = [tbl \in Tables |-> {}]
    /\ cphase' = "gate" /\ cstage' = [b \in Blocks |-> "none"]
    /\ cread' = [b \in Blocks |-> NoRead]
    /\ UNCHANGED <<db, file>>

DNext ==
    \/ DCount \/ DSelect
    \/ \E b \in Blocks : DStart(b) \/ DRpc(b) \/ DRpcFail(b) \/ DDone(b) \/ DFail(b)

PNext ==
    \/ PBoot \/ PSelect \/ PEnd
    \/ \E b \in Blocks : \/ PSelectAgain(b) \/ PStart(b) \/ PReset(b)
                         \/ PMark(b) \/ PSave(b) \/ PFail(b)

TNext ==
    \/ TTake \/ TThrow \/ TFlushed \/ TEnd \/ TEndFail
    \/ \E tbl \in Tables : \E chunk \in SUBSET tleft[tbl] : TChunk(tbl, chunk)

CNext ==
    \/ CGate \/ CList
    \/ \E b \in Blocks : \/ CStart(b) \/ CDecide(b) \/ CTick(b) \/ CFail(b)
                         \/ \E q \in DOMAIN NoRead : CRead(b, q)

RmNext == \E b \in Blocks : RmFile(b)

Next == DNext \/ PNext \/ TNext \/ CNext \/ RmNext \/ Crash

\* Every daemon is an endless loop whose sleeps and awaits end; the kernel
\* runs a pending fs.rm.
Fairness == WF_vars(DNext) /\ WF_vars(PNext) /\ WF_vars(TNext) /\ WF_vars(CNext)
              /\ WF_vars(RmNext)

Spec == Init /\ [][Next]_vars /\ Fairness
-----------------------------------------------------------------------------
(* Properties *)

\* Every variable stays in its type; the queue and the batch hold transactions
\* of the chain (txFromBlock) and a flush runs on a batch that has items.
TypeOK ==
    /\ status \in [Blocks -> Statuses]
    /\ rows \in [Tables -> SUBSET AllTx]
    /\ checked \subseteq AllTx
    /\ file \in [Blocks -> {"none", "ok", "bad"}]
    /\ rmPending \subseteq Blocks
    /\ dcap \in Nat
    /\ dstage \in [Blocks -> DStages]
    /\ pphase \in {"boot", "pending", "idle", "pool"}
    /\ pstage \in [Blocks -> PStages]
    /\ plast \in Seq(Blocks)
    /\ queue \in Seq(AllTx)
    /\ batch \in Seq(AllTx)
    /\ tphase \in {"take", "save", "end"}
    /\ tphase # "take" => batch # <<>>
    /\ tleft \in [Tables -> SUBSET AllTx]
    /\ tfailed \in BOOLEAN
    /\ cphase \in {"gate", "list"}
    /\ cstage \in [Blocks -> CStages]
    /\ cread \in [Blocks -> [{"sum", "ins", "outs"} -> Int]]
    /\ faults \in [FaultKinds -> Nat]

Finished(b) == status[b] \in {"completed", "doubleCheck"}

\* As long as no chunk of a batch failed and no item threw, a block is only
\* reported completed (blockEndDo) when every row of every transaction of it is
\* stored, whatever crashes, failing UPDATEs, failing downloads and repeated
\* picks happened: its last item is queued behind the others and the batches
\* keep the order of the queue.
CompletedIsStored ==
    faults["save"] = 0 /\ faults["decode"] = 0 =>
        \A b \in Blocks : Finished(b) => \A t \in Txs(b) : Fully(t)

\* A failed batch goes back behind the queue, so a block's last item may then
\* be flushed before the others: the block is reported completed early.  While
\* the process lives (and no item threw) what is missing is still in memory.
CompletedIsRecoverable ==
    faults["crash"] = 0 /\ faults["decode"] = 0 =>
        \A b \in Blocks : Finished(b) =>
            \A t \in Txs(b) : Fully(t) \/ t \in InMemory

\* One pass over a block at a time: no transaction is twice in memory, and every one
\* that is belongs to a row that is still processing, whatever crashes, throws or
\* fails to download.  So blockEndDo is the end of the block and not of a first copy
\* of it.  An early second pick (block.service.ts:136) and a batch that is queued again
\* behind its own last item (transaction.service.ts:885) are excepted.
HeldOnce ==
    faults["early"] = 0 /\ faults["save"] = 0 =>
        /\ \A i, j \in 1..Len(batch \o queue) :
              (batch \o queue)[i] = (batch \o queue)[j] => i = j
        /\ \A t \in InMemory : status[t[1]] = "processing"

\* is_completed_check tells the queries and the notifications that all rows of
\* the transaction are there: doubleCheckBlock sets it on no other, although
\* it reads the tables in three statements and writes in two.
CheckedIsStored ==
    faults["save"] = 0 /\ faults["decode"] = 0 =>
        \A t \in checked : Fully(t)

\* "Avoid false downloads" (block.service.ts:165): a row marked downloaded has
\* its file, although fs.rm of it runs at any time after blockEndDo.  Failing UPDATEs
\* (clearFile) and blocks indexed again while the rm is pending are excepted.
DownloadedHasFile ==
    (\A k \in {"stmt", "early", "save", "decode"} : faults[k] = 0) =>
        \A b \in Blocks : status[b] = "downloaded" => file[b] # "none"

\* No daemon acts on a row it read before the row reached its final status:
\* without an early second pick nothing takes a block back from doubleCheck.
DoubleCheckIsFinal ==
    [][\A b \in Blocks :
         status[b] = "doubleCheck" /\ faults["early"] = 0
           => status'[b] = "doubleCheck"]_vars

\* Every block is in the end double checked and stays so, through every bounded
\* number of crashes, failed downloads, UPDATEs and upserts: each failure leaves
\* the row in a status some daemon looks for.
EveryBlockSettles == <>[](\A b \in Blocks : status[b] = "doubleCheck")

\* The double check is a "double-spend / completeness second check"
\* (block.service.ts:71): what it passed is complete, or the process still has
\* the missing transactions in memory.
DoubleCheckComplete ==
    \A b \in Blocks : status[b] = "doubleCheck" =>
        \A t \in Txs(b) : Fully(t) \/ t \in InMemory
-----------------------------------------------------------------------------
(* Refinement *)

Rows == INSTANCE BlockRow WITH
    whole <- {b \in Blocks : \A t \in Txs(b) : Fully(t)},
    lossless <- (faults["save"] = 0 /\ faults["decode"] = 0),
    single <- (faults["early"] = 0)

\* Four daemons, a queue, files, crashes and failing statements behave like one
\* row after the other taking the steps of BlockRow: no daemon writes a status over
\* one it does not know of, `completed` and `doubleCheck` promise stored rows, and
\* the double check sends no block back for nothing.
ImplementsBlockRow == Rows!Spec
=============================================================================
