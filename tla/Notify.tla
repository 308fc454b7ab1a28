-------------------------------- MODULE Notify -------------------------------
(***************************************************************************)
(* Keys and notices.  A payment to a listen key is announced to a callback *)
(* URL, once when its transaction is in the mempool and once when it is in *)
(* a block:                                                                *)
(*                                                                         *)
(*   AddKey, AddSave   admin.service: the map in memory, then the table    *)
(*   MFind, MUpsert    a transaction of the mempool marks its row          *)
(*   BDecode, BUpsert  the chunk of a block marks the rows of its          *)
(*                     transactions (BlockIndex has the batches, TxStore   *)
(*                     has what the two checks do)                         *)
(*   Start .. Update   notify.service: a pass of the daemon runs two       *)
(*                     workers, "u" for unconfirmed and "c" for confirmed  *)
(*                     transactions                                        *)
(*                                                                         *)
(* A URL that is not set yet is a call that fails.  Signatures are left    *)
(* out: who asks for a key is allowed to.                                  *)
(***************************************************************************)
EXTENDS Integers, FiniteSets

CONSTANTS
    Tx,         \* transactions
    Key,        \* keys
    Table,      \* the roles of the keys in the table at the first start
    Pays,       \* the keys whose addresses each transaction pays
    NBlocks,    \* blocks, each of which is saved in one chunk
    Block,      \* the block of each transaction, 0 for none
    Mem,        \* bound: transactions that the mempool may announce
    Take,       \* 2000: rows a worker takes in a pass
    NPass,      \* bound: passes that are under way at the same time
    MaxAdd,     \* bound: calls of addKey
    MaxFaults,  \* bound: how often each fault happens
    MaxKinds    \* bound: kinds of fault in one behaviour

Blocks == 1..NBlocks
Kinds == {"u", "c"}
Workers == (1..NPass) \X Kinds
Roles == {"auth", "listen"}
NotifyStatus == {"noStart", "shouldNotify", "completed"}

FaultKinds == {"crash",   \* the process dies and is started again
               "list",    \* the SELECT of a worker fails
               "post",    \* the receiver or the network fails
               "again",   \* a double check fails
               "stmt"}    \* another statement fails

ASSUME NotifyAssumption ==
    /\ IsFiniteSet(Tx) /\ IsFiniteSet(Key)
    /\ Table \in [Key -> Roles \cup {"none"}] /\ Pays \in [Tx -> SUBSET Key]
    /\ NBlocks \in Nat /\ Block \in [Tx -> 0..NBlocks] /\ Mem \subseteq Tx
    /\ {Take, NPass} \subseteq Nat \ {0}
    /\ {MaxAdd, MaxKinds} \subseteq Nat /\ MaxFaults \in [FaultKinds -> Nat]

VARIABLES
    role,     \* the table key
    watch,    \* pubkeyMap and addressHexMap
    adding,   \* the role of each key whose save is under way
    rows,     \* rows of the table tx, and those with block_hash,
              \* is_completed_check and mempool_push
    status,   \* notify_status of each row
    found,    \* mempool transactions that findOne did not find
    chunk,    \* the chunk of each block: pc, the transactions decoded as payments
    awaited,  \* the pass the daemon waits for, 0 while it sleeps
    work,     \* the workers: pc, rows taken and not posted, answered and not updated
    told,     \* history: transactions with a confirmed notice, and those that
              \* had one before the last pass began
    final,    \* history: notices whose answer is recorded
    adds,     \* history: calls of addKey
    faults    \* history: faults of each kind

keys == <<role, watch, adding, adds>>
table == <<rows, status>>
index == <<found, chunk>>
daemon == <<awaited, work>>
history == <<told, final>>
vars == <<keys, table, index, daemon, history, faults>>

InBlock(b) == {t \in Tx : Block[t] = b}
Watched(t) == Pays[t] \cap watch # {}
NoChunk == [pc |-> "idle", due |-> {}]
NotMined == [NoChunk EXCEPT !.pc = "none"]
NoWork == [pc |-> "idle", todo |-> {}, sent |-> {}]
Done(w) == w.pc = "run" /\ w.todo = {} /\ w.sent = {}

\* Mutant of Loaded: the keys with the other role.
LoadedAuth == {k \in Key : role[k] = "auth"}

\* loadAllKey
Loaded == {k \in Key : role[k] = "listen"}

Init ==
    /\ role = Table /\ watch = Loaded /\ adding = [k \in Key |-> "none"]
    /\ rows = [in |-> {}, conf |-> {}, chk |-> {}, push |-> {}]
    /\ status = [t \in Tx |-> "noStart"]
    /\ found = {} /\ chunk = [b \in Blocks |-> NotMined]
    /\ awaited = 0 /\ work = [w \in Workers |-> NoWork]
    /\ told = [all |-> {}, before |-> {}] /\ final = {}
    /\ adds = 0 /\ faults = [k \in FaultKinds |-> 0]

Fault(k) ==
    /\ faults[k] < MaxFaults[k]
    /\ Cardinality({j \in FaultKinds \ {k} : faults[j] > 0}) < MaxKinds
    /\ faults' = [faults EXCEPT ![k] = @ + 1]

-----------------------------------------------------------------------------
(* Keys *)

\* Mutant of AddKey: the map is only filled by the next start.
AddKeyLater(k, r) ==
    /\ adding[k] = "none" /\ adds < MaxAdd
    /\ adding' = [adding EXCEPT ![k] = r]
    /\ adds' = adds + 1
    /\ UNCHANGED <<role, watch, table, index, daemon, history, faults>>

\* addAuthPubkey and addListenPubkey: both kinds of key are watched at once.
AddKey(k, r) ==
    /\ adding[k] = "none" /\ adds < MaxAdd
    /\ watch' = watch \cup {k}
    /\ adding' = [adding EXCEPT ![k] = r]
    /\ adds' = adds + 1
    /\ UNCHANGED <<role, table, index, daemon, history, faults>>

\* save: the row of a key has its last role.
AddSave(k) ==
    /\ adding[k] # "none"
    /\ role' = [role EXCEPT ![k] = adding[k]]
    /\ adding' = [adding EXCEPT ![k] = "none"]
    /\ UNCHANGED <<watch, adds, table, index, daemon, history, faults>>

\* The caller gets an error, the address stays watched.
AddFail(k) ==
    /\ adding[k] # "none" /\ Fault("stmt")
    /\ adding' = [adding EXCEPT ![k] = "none"]
    /\ UNCHANGED <<role, watch, adds, table, index, daemon, history>>

-----------------------------------------------------------------------------
(* Rows *)

\* oneMempoolTxProcessor: findOne.
MFind(t) ==
    /\ t \in Mem \ (found \cup rows.in)
    /\ found' = found \cup {t}
    /\ UNCHANGED <<keys, table, chunk, daemon, history, faults>>

\* An upsert of T marks the transactions of due.  A column is written for all of T
\* as soon as one entity has a value for it, otherwise the rows keep theirs.
Marked(T, due) ==
    [t \in Tx |-> IF t \notin T \/ due = {} THEN status[t]
                  ELSE IF t \in due THEN "shouldNotify" ELSE "noStart"]

Upsert(T, due) ==
    /\ status' = Marked(T, due)
    /\ final' = final \ ({"c"} \X due)

MUpsert(t) ==
    /\ t \in found
    /\ Upsert({t}, {u \in {t} : Watched(u)})
    /\ rows' = [rows EXCEPT !.in = @ \cup {t}]
    /\ found' = found \ {t}
    /\ UNCHANGED <<keys, chunk, daemon, told, faults>>

\* The upsert fails, the processor ends.
MFail(t) ==
    /\ t \in found /\ Fault("stmt")
    /\ found' = found \ {t}
    /\ UNCHANGED <<keys, table, chunk, daemon, history>>

\* completedTxidList of checkMemPool.
MCheck(t) ==
    /\ t \in rows.in \ (rows.conf \cup rows.chk)
    /\ rows' = [rows EXCEPT !.chk = @ \cup {t}]
    /\ UNCHANGED <<keys, status, index, daemon, history, faults>>

\* The node has the block.
Mine(b) ==
    /\ chunk[b].pc = "none"
    /\ chunk' = [chunk EXCEPT ![b] = NoChunk]
    /\ UNCHANGED <<keys, table, found, daemon, history, faults>>

\* oneBlockTxProcessor looks the addresses up when the batch is made.
BDecode(b) ==
    /\ chunk[b].pc = "idle"
    /\ chunk' = [chunk EXCEPT ![b] = [pc |-> "save", due |-> {t \in InBlock(b) : Watched(t)}]]
    /\ UNCHANGED <<keys, table, found, daemon, history, faults>>

BUpsert(b) ==
    /\ chunk[b].pc = "save"
    /\ Upsert(InBlock(b), chunk[b].due)
    /\ rows' = [rows EXCEPT !.in = @ \cup InBlock(b), !.conf = @ \cup InBlock(b)]
    /\ chunk' = [chunk EXCEPT ![b] = [pc |-> "done", due |-> {}]]
    /\ UNCHANGED <<keys, found, daemon, told, faults>>

\* The chunk fails: the batch is queued and decoded again.
BFail(b) ==
    /\ chunk[b].pc = "save" /\ Fault("stmt")
    /\ chunk' = [chunk EXCEPT ![b] = NoChunk]
    /\ UNCHANGED <<keys, table, found, daemon, history>>

\* The double check passes, or the block goes back to nostart.  The flags of the
\* transactions are set after the status of the block.
BCheck(b) ==
    /\ chunk[b].pc = "done"
    /\ chunk' = [chunk EXCEPT ![b].pc = "pass"]
    /\ UNCHANGED <<keys, table, found, daemon, history, faults>>

BFlag(b) ==
    /\ chunk[b].pc = "pass"
    /\ rows' = [rows EXCEPT !.chk = @ \cup InBlock(b)]
    /\ chunk' = [chunk EXCEPT ![b].pc = "final"]
    /\ UNCHANGED <<keys, status, found, daemon, history, faults>>

\* No daemon looks for a block in doubleCheck again.
BFlagFail(b) ==
    /\ chunk[b].pc = "pass" /\ Fault("stmt")
    /\ chunk' = [chunk EXCEPT ![b].pc = "final"]
    /\ UNCHANGED <<keys, table, found, daemon, history>>

BAgain(b) ==
    /\ chunk[b].pc = "done" /\ Fault("again")
    /\ chunk' = [chunk EXCEPT ![b] = NoChunk]
    /\ UNCHANGED <<keys, table, found, daemon, history>>

-----------------------------------------------------------------------------
(* The daemon *)

Idle(p) == \A k \in Kinds : work[<<p, k>>].pc = "idle"

\* Mutant of Start: the daemon does not wait for the two workers of a pass.
StartAtOnce(p) ==
    /\ Idle(p)
    /\ awaited' = p
    /\ work' = [w \in Workers |-> IF w[1] = p THEN [NoWork EXCEPT !.pc = "list"] ELSE work[w]]
    /\ told' = [told EXCEPT !.before = told.all]
    /\ UNCHANGED <<keys, table, index, final, faults>>

Start(p) ==
    /\ awaited = 0 /\ Idle(p)
    /\ awaited' = p
    /\ work' = [w \in Workers |-> IF w[1] = p THEN [NoWork EXCEPT !.pc = "list"] ELSE work[w]]
    /\ told' = [told EXCEPT !.before = told.all]
    /\ UNCHANGED <<keys, table, index, final, faults>>

\* Mutant of Pending: mempool_push is not looked at.
PendingPushed(k) ==
    {t \in rows.chk : /\ status[t] = "shouldNotify"
                      /\ k = "u" => t \notin rows.conf
                      /\ k = "c" => t \in rows.conf}

\* Rows with is_completed_check that are to be announced.
Pending(k) ==
    {t \in rows.chk : /\ status[t] = "shouldNotify"
                      /\ k = "u" => t \notin rows.conf \cup rows.push
                      /\ k = "c" => t \in rows.conf}

\* find, in no particular order.
List(w) ==
    /\ work[w].pc = "list"
    /\ \E S \in SUBSET Pending(w[2]) :
         /\ Cardinality(S) <= Take
         /\ Cardinality(S) = Take \/ S = Pending(w[2])
         /\ work' = [work EXCEPT ![w] = [pc |-> "run", todo |-> S, sent |-> {}]]
    /\ UNCHANGED <<keys, table, index, awaited, history, faults>>

\* find fails: the other worker of the pass goes on, but nobody waits for it.
ListFail(w) ==
    /\ work[w].pc = "list" /\ Fault("list")
    /\ work' = [work EXCEPT ![w] = NoWork]
    /\ awaited' = IF awaited = w[1] THEN 0 ELSE awaited
    /\ UNCHANGED <<keys, table, index, history>>

\* The receiver got the notice.
Tell(w, t) == told' = IF w[2] = "c" THEN [told EXCEPT !.all = @ \cup {t}] ELSE told

Post(w, t) ==
    /\ work[w].pc = "run" /\ t \in work[w].todo
    /\ Tell(w, t)
    /\ work' = [work EXCEPT ![w].todo = @ \ {t}, ![w].sent = @ \cup {t}]
    /\ UNCHANGED <<keys, table, index, awaited, final, faults>>

\* The notice is lost, refused, or its answer is lost.
PostFail(w, t) ==
    /\ work[w].pc = "run" /\ t \in work[w].todo /\ Fault("post")
    /\ Tell(w, t) \/ UNCHANGED told
    /\ work' = [work EXCEPT ![w].todo = @ \ {t}]
    /\ UNCHANGED <<keys, table, index, awaited, final>>

\* Mutants of Record: both workers write the same column.
RecordPush(w, t) == rows' = [rows EXCEPT !.push = @ \cup {t}] /\ UNCHANGED status
RecordStatus(w, t) == status' = [status EXCEPT ![t] = "completed"] /\ UNCHANGED rows

Record(w, t) ==
    \/ w[2] = "u" /\ rows' = [rows EXCEPT !.push = @ \cup {t}] /\ UNCHANGED status
    \/ w[2] = "c" /\ status' = [status EXCEPT ![t] = "completed"] /\ UNCHANGED rows

\* The answer was success: mempool_push, or notify_status.
Update(w, t) ==
    /\ work[w].pc = "run" /\ t \in work[w].sent
    /\ Record(w, t)
    /\ final' = final \cup {<<w[2], t>>}
    /\ work' = [work EXCEPT ![w].sent = @ \ {t}]
    /\ UNCHANGED <<keys, index, awaited, told, faults>>

UpdateFail(w, t) ==
    /\ work[w].pc = "run" /\ t \in work[w].sent /\ Fault("stmt")
    /\ work' = [work EXCEPT ![w].sent = @ \ {t}]
    /\ UNCHANGED <<keys, table, index, awaited, history>>

\* A worker ends, and with the second one the pass.
End(w) ==
    /\ Done(work[w])
    /\ work' = [work EXCEPT ![w] = NoWork]
    /\ awaited' = IF awaited = w[1] /\ \A v \in Workers \ {w} : v[1] = w[1] => work[v].pc = "idle"
                  THEN 0 ELSE awaited
    /\ UNCHANGED <<keys, table, index, history, faults>>

-----------------------------------------------------------------------------
\* The process dies and starts again.  A block that is not yet completed is indexed
\* again, one that is in doubleCheck is not.
Crash ==
    /\ Fault("crash")
    /\ watch' = Loaded /\ adding' = [k \in Key |-> "none"]
    /\ found' = {}
    /\ \E B \in SUBSET {b \in Blocks : chunk[b].pc = "done"} :
         chunk' = [b \in Blocks |->
                     CASE chunk[b].pc = "save" \/ b \in B -> NoChunk
                       [] chunk[b].pc = "pass" -> [chunk[b] EXCEPT !.pc = "final"]
                       [] OTHER -> chunk[b]]
    /\ awaited' = 0 /\ work' = [w \in Workers |-> NoWork]
    /\ UNCHANGED <<role, adds, table, history>>

KeyNext == \E k \in Key : AddSave(k) \/ AddFail(k) \/ \E r \in Roles : AddKey(k, r)

MemNext == \E t \in Tx : MFind(t) \/ MUpsert(t) \/ MFail(t) \/ MCheck(t)

BlockStep(b) == BDecode(b) \/ BUpsert(b) \/ BCheck(b) \/ BFlag(b)

BlockNext == \E b \in Blocks : BlockStep(b) \/ Mine(b) \/ BFail(b) \/ BFlagFail(b) \/ BAgain(b)

WorkStep(w) == List(w) \/ End(w) \/ \E t \in Tx : Post(w, t) \/ Update(w, t)

DaemonNext ==
    \/ \E p \in 1..NPass : Start(p)
    \/ \E w \in Workers :
         WorkStep(w) \/ ListFail(w) \/ \E t \in Tx : PostFail(w, t) \/ UpdateFail(w, t)

Next == KeyNext \/ MemNext \/ BlockNext \/ DaemonNext \/ Crash

\* Every block is indexed, every row of the mempool is checked, the daemon goes on.
\* Nobody need add a key, and the node need not announce a transaction or mine.
Fairness ==
    /\ \A b \in Blocks : WF_vars(BlockStep(b))
    /\ \A t \in Tx : WF_vars(MUpsert(t)) /\ WF_vars(MCheck(t))
    /\ \A p \in 1..NPass : WF_vars(Start(p))
    /\ \A w \in Workers : WF_vars(WorkStep(w))

Spec == Init /\ [][Next]_vars /\ Fairness

-----------------------------------------------------------------------------
(* Properties *)

\* Every variable stays in its type; flags belong to rows, the daemon waits for
\* a pass that is under way, and listen keys of the table and keys on their way to it
\* are watched.
TypeOK ==
    /\ role \in [Key -> Roles \cup {"none"}] /\ adding \in [Key -> Roles \cup {"none"}]
    /\ watch \subseteq Key
    /\ \A k \in Key : role[k] = "listen" \/ adding[k] # "none" => k \in watch
    /\ rows \in [in : SUBSET Tx, conf : SUBSET Tx, chk : SUBSET Tx, push : SUBSET Tx]
    /\ rows.conf \cup rows.chk \cup rows.push \subseteq rows.in
    /\ status \in [Tx -> NotifyStatus]
    /\ found \subseteq Tx
    /\ chunk \in [Blocks -> [pc : {"none", "idle", "save", "done", "pass", "final"},
                             due : SUBSET Tx]]
    /\ awaited \in 0..NPass
    /\ awaited # 0 => ~Idle(awaited)
    /\ work \in [Workers -> [pc : {"idle", "list", "run"}, todo : SUBSET Tx, sent : SUBSET Tx]]
    /\ told \in [all : SUBSET Tx, before : SUBSET Tx]
    /\ told.before \subseteq told.all
    /\ final \subseteq Kinds \X Tx
    /\ adds \in Nat /\ faults \in [FaultKinds -> Nat]

\* The worker w posts a notice of t in this step.
Posts(w, t) ==
    t \in work[w].todo /\ t \notin work'[w].todo /\ faults'["crash"] = faults["crash"]

\* The unconfirmed notice of a transaction may overtake its confirmed one within
\* a pass, as the row is read before the block and posted after, but never a
\* confirmed one of an earlier pass, not even across a crash: Promise.all is
\* waited for (notify.service.ts:33).  A failing find ends that wait early.
NoLateUnconfirmed ==
    [][faults["list"] = 0 =>
         \A p \in 1..NPass, t \in told.before : ~Posts(<<p, "u">>, t)]_vars

\* A notice that was answered and recorded is not posted again, whatever the
\* block is indexed again for; a confirmed one only after a later upsert has
\* marked its row again.
RecordedIsFinal ==
    [][faults["list"] = 0 => \A w \in Workers, t \in Tx :
         <<w[2], t>> \in final => ~Posts(w, t)]_vars

\* After a failing find two passes may run side by side, so that a notice may be posted
\* once more by a worker that took its row before the answer to the other one was
\* recorded (notify.service.ts:39).  That is all: whatever has failed or overlaps, no
\* find takes a row whose notice is recorded, until an upsert has marked it again.
RecordedIsNotTaken ==
    [][\A w \in Workers, t \in Tx :
         <<w[2], t>> \in final /\ t \in work'[w].todo => t \in work[w].todo]_vars

Listened(t) == \E k \in Pays[t] : role[k] = "listen"
Ready(t) == Listened(t) /\ chunk[Block[t]].pc = "idle"
Answered(t) == chunk[Block[t]].pc = "final" /\ status[t] = "completed"

\* "If there is no correct response, the service retries until it receives the
\* correct response" (docs/sub-address.md:63), for a payment to a key that is in the
\* table as a listen key before the block is decoded and stays one: in the end the
\* block is through and the confirmed notice is recorded, although every new
\* chunk rewrites notify_status for the rows next to it.  That is_completed_check
\* was set is assumed, see PaymentIsTold.
ConfirmedIsAnswered ==
    \A t \in {u \in Tx : Block[u] # 0} :
        [](Listened(t) => []Listened(t)) /\ [](chunk[Block[t]].pc = "final" => t \in rows.chk)
            => (Ready(t) ~> Answered(t))

\* "If discover a new txid, will post this api data" (docs/sub-address.md:63): a
\* payment to a key that is and stays a listen key is in the end announced.
PaymentIsTold ==
    \A t \in {u \in Tx : Block[u] # 0} :
        [](Listened(t) => []Listened(t)) => (Ready(t) ~> Answered(t))

\* The same for the unconfirmed notice, which is only given up for the confirmed
\* one: the row of a mempool transaction that is marked gets mempool_push.
UnconfirmedIsAnswered ==
    \A t \in Tx : (status[t] = "shouldNotify") ~> (t \in rows.push \cup rows.conf)
=============================================================================
