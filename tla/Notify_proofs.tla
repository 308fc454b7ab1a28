---------------------------- MODULE Notify_proofs ----------------------------
(***************************************************************************)
(* Proofs about Notify: its types, that neither worker posts what a pass   *)
(* before it has settled, and that no worker takes up what is recorded,    *)
(* for every number of transactions, keys, blocks, passes and faults.      *)
(***************************************************************************)
EXTENDS Notify, TLAPS

\* The types of two variables.
Chunks == [Blocks -> [pc : {"none", "idle", "save", "done", "pass", "final"}, due : SUBSET Tx]]
Works == [pc : {"idle", "list", "run"}, todo : SUBSET Tx, sent : SUBSET Tx]

\* A chunk that was saved left rows, and workers hold rows.  Both say that the
\* flags set later belong to rows.
Saved == \A b \in Blocks :
            chunk[b].pc \in {"done", "pass", "final"} => InBlock(b) \subseteq rows.conf
Taken == \A w \in Workers : work[w].todo \cup work[w].sent \subseteq rows.in
TypeInv == TypeOK /\ Saved /\ Taken

LEMMA WorkerParts ==
    /\ \A w \in Workers : w[1] \in 1..NPass /\ w[2] \in Kinds /\ w = <<w[1], w[2]>>
    /\ \A p \in 1..NPass, k \in Kinds :
         <<p, k>> \in Workers /\ <<p, k>>[1] = p /\ <<p, k>>[2] = k
BY DEF Workers

LEMMA FaultType ==
    ASSUME TypeOK, NEW k \in FaultKinds, Fault(k)
    PROVE  /\ faults' \in [FaultKinds -> Nat]
           /\ faults'["list"] = 0 => faults["list"] = 0
           /\ k = "list" => faults'["list"] # 0
           /\ k = "crash" => faults'["crash"] # faults["crash"]
BY DEF TypeOK, Fault, FaultKinds

-----------------------------------------------------------------------------
(* Types *)

LEMMA InitType == Init => TypeOK
<1>. SUFFICES ASSUME Init PROVE TypeOK OBVIOUS
<1>1. /\ role \in [Key -> Roles \cup {"none"}] /\ adding \in [Key -> Roles \cup {"none"}]
      /\ watch \subseteq Key
      /\ \A k \in Key : role[k] = "listen" \/ adding[k] # "none" => k \in watch
  BY NotifyAssumption DEF Init, Loaded
<1>2. /\ chunk \in Chunks /\ work \in [Workers -> Works]
  BY DEF Init, NotMined, NoChunk, NoWork, Chunks, Works
<1>3. status \in [Tx -> NotifyStatus] BY DEF Init, NotifyStatus
<1>. QED BY <1>1, <1>2, <1>3, NotifyAssumption DEF Init, TypeOK, Chunks, Works

LEMMA KeyType ==
    ASSUME TypeOK, KeyNext PROVE TypeOK'
<1>. USE DEF TypeOK, Idle
<1>1. ASSUME NEW k \in Key, NEW r \in Roles, AddKey(k, r) PROVE TypeOK'
  BY <1>1 DEF AddKey, table, index, daemon, history
<1>2. ASSUME NEW k \in Key, AddSave(k) PROVE TypeOK'
  BY <1>2 DEF AddSave, table, index, daemon, history
<1>3. ASSUME NEW k \in Key, AddFail(k) PROVE TypeOK'
  <2>1. faults' \in [FaultKinds -> Nat] BY <1>3, FaultType DEF AddFail, FaultKinds
  <2>. QED BY <1>3, <2>1 DEF AddFail, table, index, daemon, history
<1>. QED BY <1>1, <1>2, <1>3 DEF KeyNext

LEMMA MarkedType ==
    ASSUME TypeOK, NEW T, NEW due
    PROVE  Marked(T, due) \in [Tx -> NotifyStatus]
BY DEF TypeOK, Marked, NotifyStatus

LEMMA MemType ==
    ASSUME TypeOK, MemNext PROVE TypeOK'
<1>. USE DEF TypeOK, Idle
<1>1. ASSUME NEW t \in Tx, MFind(t) PROVE TypeOK'
  BY <1>1 DEF MFind, keys, table, daemon, history
<1>2. ASSUME NEW t \in Tx, MUpsert(t) PROVE TypeOK'
  <2>1. status' \in [Tx -> NotifyStatus] BY <1>2, MarkedType DEF MUpsert, Upsert
  <2>. QED BY <1>2, <2>1 DEF MUpsert, Upsert, keys, daemon
<1>3. ASSUME NEW t \in Tx, MFail(t) PROVE TypeOK'
  <2>1. faults' \in [FaultKinds -> Nat] BY <1>3, FaultType DEF MFail, FaultKinds
  <2>. QED BY <1>3, <2>1 DEF MFail, keys, table, daemon, history
<1>4. ASSUME NEW t \in Tx, MCheck(t) PROVE TypeOK'
  BY <1>4 DEF MCheck, keys, index, daemon, history
<1>. QED BY <1>1, <1>2, <1>3, <1>4 DEF MemNext

LEMMA BlockType ==
    ASSUME TypeInv, BlockNext PROVE TypeOK'
<1>. USE DEF TypeInv, TypeOK, Idle
<1>. PICK b \in Blocks : BlockStep(b) \/ Mine(b) \/ BFail(b) \/ BFlagFail(b) \/ BAgain(b)
  BY DEF BlockNext
<1>0. InBlock(b) \subseteq Tx /\ NoChunk = [pc |-> "idle", due |-> {}]
  BY DEF InBlock, NoChunk
<1>1. CASE Mine(b)
  BY <1>0, <1>1 DEF Mine, keys, table, daemon, history
<1>2. CASE BDecode(b)
  BY <1>0, <1>2 DEF BDecode, keys, table, daemon, history
<1>3. CASE BUpsert(b)
  <2>1. status' \in [Tx -> NotifyStatus] BY <1>3, MarkedType DEF BUpsert, Upsert
  <2>2. rows' \in [in : SUBSET Tx, conf : SUBSET Tx, chk : SUBSET Tx, push : SUBSET Tx]
        /\ rows'.conf \cup rows'.chk \cup rows'.push \subseteq rows'.in
    BY <1>0, <1>3 DEF BUpsert
  <2>. QED BY <1>3, <2>1, <2>2 DEF BUpsert, Upsert, keys, daemon
<1>4. CASE BCheck(b)
  BY <1>4 DEF BCheck, keys, table, daemon, history
<1>5. CASE BFlag(b)
  <2>1. InBlock(b) \subseteq rows.in BY <1>5 DEF BFlag, Saved
  <2>2. rows' \in [in : SUBSET Tx, conf : SUBSET Tx, chk : SUBSET Tx, push : SUBSET Tx]
        /\ rows'.conf \cup rows'.chk \cup rows'.push \subseteq rows'.in
    BY <1>0, <1>5, <2>1 DEF BFlag
  <2>3. chunk' \in Chunks BY <1>5 DEF BFlag, Chunks
  <2>. QED BY <1>5, <2>2, <2>3 DEF BFlag, Chunks, keys, daemon, history
<1>6. CASE BFail(b)
  <2>1. faults' \in [FaultKinds -> Nat] BY <1>6, FaultType DEF BFail, FaultKinds
  <2>. QED BY <1>0, <1>6, <2>1 DEF BFail, keys, table, daemon, history
<1>7. CASE BFlagFail(b)
  <2>1. faults' \in [FaultKinds -> Nat] BY <1>7, FaultType DEF BFlagFail, FaultKinds
  <2>. QED BY <1>7, <2>1 DEF BFlagFail, keys, table, daemon, history
<1>8. CASE BAgain(b)
  <2>1. faults' \in [FaultKinds -> Nat] BY <1>8, FaultType DEF BAgain, FaultKinds
  <2>. QED BY <1>0, <1>8, <2>1 DEF BAgain, keys, table, daemon, history
<1>. QED BY <1>1, <1>2, <1>3, <1>4, <1>5, <1>6, <1>7, <1>8 DEF BlockStep

LEMMA WorkSet ==
    ASSUME NEW f \in [Workers -> Works], NEW w \in Workers, NEW A \in SUBSET Tx, NEW B \in SUBSET Tx
    PROVE  /\ [f EXCEPT ![w].todo = A, ![w].sent = B] \in [Workers -> Works]
           /\ [f EXCEPT ![w].todo = A] \in [Workers -> Works]
           /\ [f EXCEPT ![w].sent = B] \in [Workers -> Works]
BY DEF Works

LEMMA DaemonType ==
    ASSUME TypeInv, DaemonNext PROVE TypeOK'
<1>. USE DEF TypeInv, TypeOK, Idle
<1>0. NoWork = [pc |-> "idle", todo |-> {}, sent |-> {}] /\ NoWork \in Works
  BY DEF NoWork, Works
<1>w. work \in [Workers -> Works] BY DEF Works
<1>f. \A w \in Workers : [work EXCEPT ![w] = NoWork] \in [Workers -> Works]
  <2>. HIDE DEF TypeInv, TypeOK, Idle
  <2>. QED BY <1>0, <1>w
<1>1. ASSUME NEW p \in 1..NPass, Start(p) PROVE TypeOK'
  <2>1. work' \in [Workers -> Works] BY <1>0, <1>1 DEF Start, Works
  <2>2. <<p, "u">> \in Workers /\ work'[<<p, "u">>].pc = "list"
    BY <1>0, <1>1, WorkerParts DEF Start, Kinds
  <2>3. awaited' \in 0..NPass /\ ~Idle(awaited)' BY <1>1, <2>2, NotifyAssumption DEF Start, Kinds
  <2>. QED BY <1>1, <2>1, <2>3 DEF Start, Works, keys, table, index
<1>2. ASSUME NEW w \in Workers, List(w) PROVE TypeOK'
  <2>1. PICK S \in SUBSET Tx : work' = [work EXCEPT ![w] = [pc |-> "run", todo |-> S, sent |-> {}]]
    BY <1>2 DEF List, Pending
  <2>2. work' \in [Workers -> Works] BY <2>1 DEF Works
  <2>3. ASSUME awaited # 0 PROVE ~Idle(awaited)' BY <1>2, <2>1, <2>3, WorkerParts DEF List
  <2>. QED BY <1>2, <2>2, <2>3 DEF List, Works, keys, table, index, history
<1>3. ASSUME NEW w \in Workers, ListFail(w) PROVE TypeOK'
  <2>1. faults' \in [FaultKinds -> Nat] BY <1>3, FaultType DEF ListFail, FaultKinds
  <2>2. work' \in [Workers -> Works]
    <3>1. work' = [work EXCEPT ![w] = NoWork] BY <1>3 DEF ListFail
    <3>. HIDE DEF TypeInv, TypeOK, Idle
    <3>. QED BY <3>1, <1>f
  <2>3. awaited' \in 0..NPass /\ (awaited' # 0 => ~Idle(awaited)')
    BY <1>3, WorkerParts, NotifyAssumption DEF ListFail
  <2>. QED BY <1>3, <2>1, <2>2, <2>3 DEF ListFail, Works, keys, table, index, history
<1>4. ASSUME NEW w \in Workers, NEW t \in Tx, Post(w, t) PROVE TypeOK'
  <2>1. work' \in [Workers -> Works]
    <3>1. work' = [work EXCEPT ![w].todo = work[w].todo \ {t},
                               ![w].sent = work[w].sent \cup {t}]
      BY <1>4 DEF Post
    <3>2. work[w].todo \ {t} \in SUBSET Tx /\ work[w].sent \cup {t} \in SUBSET Tx BY <1>w DEF Works
    <3>. HIDE DEF TypeInv, TypeOK, Idle
    <3>. QED BY <1>w, <3>1, <3>2, WorkSet
  <2>2. ASSUME awaited # 0 PROVE ~Idle(awaited)' BY <1>4, <2>2, WorkerParts DEF Post
  <2>3. told' \in [all : SUBSET Tx, before : SUBSET Tx] /\ told'.before \subseteq told'.all
    BY <1>4 DEF Post, Tell
  <2>. QED BY <1>4, <2>1, <2>2, <2>3 DEF Post, Works, keys, table, index
<1>5. ASSUME NEW w \in Workers, NEW t \in Tx, PostFail(w, t) PROVE TypeOK'
  <2>1. work' \in [Workers -> Works]
    <3>1. work' = [work EXCEPT ![w].todo = work[w].todo \ {t}] BY <1>5 DEF PostFail
    <3>2. work[w].todo \in SUBSET Tx /\ work[w].sent \in SUBSET Tx /\ t \in Tx BY <1>w DEF Works
    <3>. HIDE DEF TypeInv, TypeOK, Idle
    <3>. QED BY <1>w, <3>1, <3>2, WorkSet
  <2>2. ASSUME awaited # 0 PROVE ~Idle(awaited)' BY <1>5, <2>2, WorkerParts DEF PostFail
  <2>3. told' \in [all : SUBSET Tx, before : SUBSET Tx] /\ told'.before \subseteq told'.all
    BY <1>5 DEF PostFail, Tell
  <2>4. faults' \in [FaultKinds -> Nat] BY <1>5, FaultType DEF PostFail, FaultKinds
  <2>. QED BY <1>5, <2>1, <2>2, <2>3, <2>4 DEF PostFail, Works, keys, table, index
<1>6. ASSUME NEW w \in Workers, NEW t \in Tx, Update(w, t) PROVE TypeOK'
  <2>1. work' \in [Workers -> Works]
    <3>1. work' = [work EXCEPT ![w].sent = work[w].sent \ {t}] BY <1>6 DEF Update
    <3>2. work[w].todo \in SUBSET Tx /\ work[w].sent \in SUBSET Tx /\ t \in Tx BY <1>w DEF Works
    <3>. HIDE DEF TypeInv, TypeOK, Idle
    <3>. QED BY <1>w, <3>1, <3>2, WorkSet
  <2>2. ASSUME awaited # 0 PROVE ~Idle(awaited)' BY <1>6, <2>2, WorkerParts DEF Update
  <2>3. /\ rows' \in [in : SUBSET Tx, conf : SUBSET Tx, chk : SUBSET Tx, push : SUBSET Tx]
        /\ rows'.conf \cup rows'.chk \cup rows'.push \subseteq rows'.in
        /\ status' \in [Tx -> NotifyStatus]
    <3>1. t \in rows.in BY <1>6 DEF Update, Taken
    <3>2. CASE rows' = [rows EXCEPT !.push = @ \cup {t}] /\ UNCHANGED status BY <3>1, <3>2
    <3>3. CASE status' = [status EXCEPT ![t] = "completed"] /\ UNCHANGED rows
      BY <3>3 DEF NotifyStatus
    <3>. QED BY <1>6, <3>2, <3>3 DEF Update, Record
  <2>4. final' \subseteq Kinds \X Tx BY <1>6, WorkerParts DEF Update
  <2>. QED BY <1>6, <2>1, <2>2, <2>3, <2>4 DEF Update, Works, keys, index
<1>7. ASSUME NEW w \in Workers, NEW t \in Tx, UpdateFail(w, t) PROVE TypeOK'
  <2>1. work' \in [Workers -> Works]
    <3>1. work' = [work EXCEPT ![w].sent = work[w].sent \ {t}] BY <1>7 DEF UpdateFail
    <3>2. work[w].todo \in SUBSET Tx /\ work[w].sent \in SUBSET Tx /\ t \in Tx BY <1>w DEF Works
    <3>. HIDE DEF TypeInv, TypeOK, Idle
    <3>. QED BY <1>w, <3>1, <3>2, WorkSet
  <2>2. ASSUME awaited # 0 PROVE ~Idle(awaited)' BY <1>7, <2>2, WorkerParts DEF UpdateFail
  <2>3. faults' \in [FaultKinds -> Nat] BY <1>7, FaultType DEF UpdateFail, FaultKinds
  <2>. QED BY <1>7, <2>1, <2>2, <2>3 DEF UpdateFail, Works, keys, table, index, history
<1>8. ASSUME NEW w \in Workers, End(w) PROVE TypeOK'
  <2>1. work' \in [Workers -> Works] BY <1>8, <1>f DEF End
  <2>2. awaited' \in 0..NPass /\ (awaited' # 0 => ~Idle(awaited)')
    <3>1. awaited' = awaited \/ awaited' = 0 BY <1>8 DEF End
    <3>2. ASSUME awaited' # 0, awaited # w[1] PROVE ~Idle(awaited)'
      <4>1. PICK k \in Kinds : work[<<awaited, k>>].pc # "idle" BY <3>1, <3>2
      <4>2. <<awaited, k>> # w BY <3>2
      <4>3. work'[<<awaited, k>>] = work[<<awaited, k>>] /\ awaited' = awaited
        BY <1>8, <3>1, <3>2, <4>2, WorkerParts, NotifyAssumption DEF End
      <4>. QED BY <4>1, <4>3
    <3>3. ASSUME awaited' # 0, awaited = w[1] PROVE ~Idle(awaited)'
      <4>1. PICK v \in Workers \ {w} : v[1] = w[1] /\ work[v].pc # "idle" BY <1>8, <3>3 DEF End
      <4>2. work'[v].pc # "idle" /\ v = <<awaited', v[2]>> /\ v[2] \in Kinds
        BY <1>8, <3>1, <3>3, <4>1, WorkerParts DEF End
      <4>. QED BY <3>1, <4>2 DEF Idle
    <3>. QED BY <3>1, <3>2, <3>3, NotifyAssumption
  <2>. QED BY <1>8, <2>1, <2>2 DEF End, Works, keys, table, index, history
<1>. QED BY <1>1, <1>2, <1>3, <1>4, <1>5, <1>6, <1>7, <1>8 DEF DaemonNext, WorkStep

LEMMA CrashType ==
    ASSUME TypeOK, Crash PROVE TypeOK'
<1>. USE DEF TypeOK
<1>1. faults' \in [FaultKinds -> Nat] BY FaultType DEF Crash, FaultKinds
<1>2. watch' \subseteq Key /\ adding' \in [Key -> Roles \cup {"none"}]
      /\ \A k \in Key : role[k] = "listen" \/ adding'[k] # "none" => k \in watch'
  BY DEF Crash, Loaded
<1>3. chunk' \in Chunks BY DEF Crash, Chunks, NoChunk
<1>4. work' \in [Workers -> Works] BY DEF Crash, NoWork, Works
<1>5. awaited' = 0 /\ awaited' \in 0..NPass BY NotifyAssumption DEF Crash
<1>6. role' = role /\ adds' = adds /\ rows' = rows /\ status' = status /\ told' = told
      /\ final' = final /\ found' = {}
  BY DEF Crash, table, history
<1>. QED BY <1>1, <1>2, <1>3, <1>4, <1>5, <1>6 DEF Chunks, Works

\* A chunk is only through when its rows are saved, and no row is ever unconfirmed.
LEMMA SavedStep ==
    ASSUME TypeInv, Next PROVE Saved'
<1>. USE DEF TypeInv, TypeOK, Saved
<1>1. CASE KeyNext BY <1>1 DEF KeyNext, AddKey, AddSave, AddFail, table, index, InBlock
<1>2. CASE MemNext BY <1>2 DEF MemNext, MFind, MUpsert, MFail, MCheck, table, index, InBlock
<1>3. CASE BlockNext
  <2>. PICK b \in Blocks : BlockStep(b) \/ Mine(b) \/ BFail(b) \/ BFlagFail(b) \/ BAgain(b)
    BY <1>3 DEF BlockNext
  <2>. DEFINE Through(s) == s.pc \in {"done", "pass", "final"}
  <2>1. \A c \in Blocks \ {b} : chunk'[c] = chunk[c]
    BY DEF BlockStep, Mine, BDecode, BUpsert, BCheck, BFlag, BFail, BFlagFail, BAgain
  <2>2. rows.conf \subseteq rows'.conf
    <3>1. CASE BUpsert(b) BY <3>1 DEF BUpsert
    <3>2. CASE BFlag(b) BY <3>2 DEF BFlag
    <3>. QED BY <3>1, <3>2
      DEF BlockStep, Mine, BDecode, BUpsert, BCheck, BFlag, BFail, BFlagFail, BAgain, table
  <2>3. ASSUME Through(chunk'[b]) PROVE InBlock(b) \subseteq rows'.conf
    <3>1. CASE BUpsert(b) BY <3>1 DEF BUpsert
    <3>2. CASE Through(chunk[b]) BY <2>2, <3>2
    <3>. QED BY <2>3, <3>1, <3>2
      DEF BlockStep, Mine, BDecode, BCheck, BFlag, BFail, BFlagFail, BAgain, NoChunk
  <2>. QED BY <2>1, <2>2, <2>3 DEF InBlock
<1>4. CASE DaemonNext
  BY <1>4 DEF DaemonNext, WorkStep, Start, List, ListFail, Post, PostFail, Update, Record,
              UpdateFail, End, table, index, InBlock
<1>5. CASE Crash BY <1>5 DEF Crash, NoChunk, table, InBlock
<1>. QED BY <1>1, <1>2, <1>3, <1>4, <1>5 DEF Next

\* Workers take rows, and no row is ever deleted.
LEMMA TakenStep ==
    ASSUME TypeInv, Next PROVE Taken'
<1>. USE DEF TypeInv, TypeOK, Taken
<1>1. CASE KeyNext BY <1>1 DEF KeyNext, AddKey, AddSave, AddFail, table, daemon
<1>2. CASE MemNext
  <2>1. work' = work BY <1>2 DEF MemNext, MFind, MUpsert, MFail, MCheck, daemon
  <2>2. rows.in \subseteq rows'.in
    BY <1>2 DEF MemNext, MFind, MUpsert, MFail, MCheck, table
  <2>. QED BY <2>1, <2>2
<1>3. CASE BlockNext
  <2>1. work' = work
    BY <1>3 DEF BlockNext, BlockStep, Mine, BDecode, BUpsert, BCheck, BFlag, BFail, BFlagFail,
                BAgain, daemon
  <2>2. rows.in \subseteq rows'.in
    <3>1. ASSUME NEW b \in Blocks, BUpsert(b) PROVE rows.in \subseteq rows'.in
      BY <3>1 DEF BUpsert
    <3>2. ASSUME NEW b \in Blocks, BFlag(b) PROVE rows.in \subseteq rows'.in
      BY <3>2 DEF BFlag
    <3>. QED BY <1>3, <3>1, <3>2 DEF BlockNext, BlockStep, Mine, BDecode, BCheck, BFail, BFlagFail,
                                    BAgain, table
  <2>. QED BY <2>1, <2>2
<1>4. CASE DaemonNext
  <2>1. rows.in = rows'.in
    BY <1>4 DEF DaemonNext, WorkStep, Start, List, ListFail, Post, PostFail, Update, Record,
                UpdateFail, End, table
  <2>2. ASSUME NEW p \in 1..NPass, Start(p) PROVE Taken' BY <2>1, <2>2 DEF Start, NoWork
  <2>3. ASSUME NEW w \in Workers, List(w) PROVE Taken' BY <2>1, <2>3 DEF List, Pending
  <2>4. ASSUME NEW w \in Workers, ListFail(w) \/ End(w) PROVE Taken'
    BY <2>1, <2>4 DEF ListFail, End, NoWork
  <2>5. ASSUME NEW w \in Workers, NEW t \in Tx,
               Post(w, t) \/ PostFail(w, t) \/ Update(w, t) \/ UpdateFail(w, t)
        PROVE  Taken'
    <3>1. \A v \in Workers \ {w} : work'[v] = work[v]
      BY <2>5 DEF Post, PostFail, Update, UpdateFail
    <3>2. CASE Post(w, t) BY <2>1, <3>1, <3>2 DEF Post
    <3>3. CASE PostFail(w, t) BY <2>1, <3>1, <3>3 DEF PostFail
    <3>4. CASE Update(w, t) BY <2>1, <3>1, <3>4 DEF Update
    <3>5. CASE UpdateFail(w, t) BY <2>1, <3>1, <3>5 DEF UpdateFail
    <3>. QED BY <2>5, <3>2, <3>3, <3>4, <3>5
  <2>. QED BY <1>4, <2>2, <2>3, <2>4, <2>5 DEF DaemonNext, WorkStep
<1>5. CASE Crash BY <1>5 DEF Crash, NoWork, table
<1>. QED BY <1>1, <1>2, <1>3, <1>4, <1>5 DEF Next

LEMMA InitTypeInv == Init => TypeInv
<1>1. Init => Saved /\ Taken BY DEF Init, Saved, Taken, NotMined, NoChunk, NoWork
<1>. QED BY <1>1, InitType DEF TypeInv

LEMMA TypeStep == TypeInv /\ [Next]_vars => TypeInv'
<1>1. ASSUME TypeInv, Next PROVE TypeInv'
  <2>1. TypeOK' BY <1>1, KeyType, MemType, BlockType, DaemonType, CrashType DEF Next, TypeInv
  <2>. QED BY <1>1, <2>1, SavedStep, TakenStep DEF TypeInv
<1>2. ASSUME TypeInv, UNCHANGED vars PROVE TypeInv'
  BY <1>2 DEF TypeInv, TypeOK, Saved, Taken, Idle, InBlock, vars, keys, table, index, daemon,
              history
<1>. QED BY <1>1, <1>2

\* Every variable of the notices stays in its type: flags belong to rows, the daemon
\* waits for a pass that is under way, and keys of the table are watched.
THEOREM TypeCorrect == Spec => []TypeOK
<1>1. TypeInv => TypeOK BY DEF TypeInv
<1>. QED BY <1>1, InitTypeInv, TypeStep, PTL DEF Spec

-----------------------------------------------------------------------------
(* The invariant of the passes *)

\* A worker holds rows while it runs, each of them before or after its post.
Hands == \A w \in Workers :
            /\ work[w].pc # "run" => work[w].todo = {} /\ work[w].sent = {}
            /\ work[w].todo \cap work[w].sent = {}

\* A confirmed notice is about a row of a block.
Confirmed ==
    /\ told.all \subseteq rows.conf
    /\ \A w \in Workers : w[2] = "c" => work[w].todo \subseteq rows.conf

\* A recorded notice is recorded in the column that find looks at.
FinalMarks == \A t \in Tx : /\ <<"u", t>> \in final => t \in rows.push
                            /\ <<"c", t>> \in final => status[t] # "shouldNotify"

\* Only the workers of the pass that is waited for are at work, which makes the
\* passes follow one another.
Wait == \A w \in Workers : work[w].pc # "idle" => awaited = w[1]
Order == \A p \in 1..NPass, t \in told.before : t \notin work[<<p, "u">>].todo
Once == \A w \in Workers, t \in Tx : <<w[2], t>> \in final => t \notin work[w].todo
Serial == faults["list"] = 0 => Wait /\ Order /\ Once

IInv == TypeInv /\ Hands /\ Confirmed /\ FinalMarks /\ Serial

\* What keys and rows leave to the daemon.
LEMMA UpsertMarks ==
    ASSUME TypeOK, NEW T \in SUBSET Tx, NEW due, Upsert(T, due)
    PROVE  /\ final' \subseteq final
           /\ \A t \in Tx : <<"c", t>> \in final' => status'[t] \in {status[t], "noStart"}
BY DEF Upsert, Marked

LEMMA Aside ==
    ASSUME TypeOK, KeyNext \/ MemNext \/ BlockNext
    PROVE  /\ work' = work /\ awaited' = awaited /\ told' = told
           /\ rows.conf \subseteq rows'.conf /\ rows'.push = rows.push
           /\ final' \subseteq final
           /\ \A t \in Tx : <<"c", t>> \in final' => status'[t] \in {status[t], "noStart"}
<1>1. CASE KeyNext
  BY <1>1 DEF KeyNext, AddKey, AddSave, AddFail, table, daemon, history
<1>2. CASE MemNext
  <2>. PICK t \in Tx : MFind(t) \/ MUpsert(t) \/ MFail(t) \/ MCheck(t) BY <1>2 DEF MemNext
  <2>1. CASE MFind(t) \/ MFail(t) BY <2>1 DEF MFind, MFail, table, daemon, history
  <2>2. CASE MUpsert(t)
    <3>1. rows'.push = rows.push /\ rows'.conf = rows.conf BY <2>2 DEF MUpsert, TypeOK
    <3>. QED BY <2>2, <3>1, UpsertMarks DEF MUpsert, daemon
  <2>3. CASE MCheck(t)
    <3>1. rows'.push = rows.push /\ rows'.conf = rows.conf BY <2>3 DEF MCheck, TypeOK
    <3>. QED BY <2>3, <3>1 DEF MCheck, daemon, history
  <2>. QED BY <2>1, <2>2, <2>3
<1>3. CASE BlockNext
  <2>. PICK b \in Blocks : BlockStep(b) \/ Mine(b) \/ BFail(b) \/ BFlagFail(b) \/ BAgain(b)
    BY <1>3 DEF BlockNext
  <2>1. CASE BUpsert(b)
    <3>1. rows'.push = rows.push /\ rows.conf \subseteq rows'.conf BY <2>1 DEF BUpsert, TypeOK
    <3>2. InBlock(b) \in SUBSET Tx BY DEF InBlock
    <3>. QED BY <2>1, <3>1, <3>2, UpsertMarks DEF BUpsert, daemon
  <2>2. CASE BFlag(b)
    <3>1. rows'.push = rows.push /\ rows'.conf = rows.conf BY <2>2 DEF BFlag, TypeOK
    <3>. QED BY <2>2, <3>1 DEF BFlag, daemon, history
  <2>3. CASE Mine(b) \/ BDecode(b) \/ BCheck(b)
    BY <2>3 DEF Mine, BDecode, BCheck, table, daemon, history
  <2>4. CASE BFail(b) \/ BFlagFail(b) \/ BAgain(b)
    BY <2>4 DEF BFail, BFlagFail, BAgain, table, daemon, history
  <2>. QED BY <2>1, <2>2, <2>3, <2>4 DEF BlockStep
<1>. QED BY <1>1, <1>2, <1>3

LEMMA ListCounts ==
    ASSUME TypeOK, Next, faults'["list"] = 0 PROVE faults["list"] = 0
<1>1. faults' = faults \/ \E k \in FaultKinds : Fault(k)
  <2>1. CASE KeyNext BY <2>1 DEF KeyNext, AddKey, AddSave, AddFail, FaultKinds
  <2>2. CASE MemNext BY <2>2 DEF MemNext, MFind, MUpsert, MFail, MCheck, FaultKinds
  <2>3. CASE BlockNext
    BY <2>3 DEF BlockNext, BlockStep, Mine, BDecode, BUpsert, BCheck, BFlag, BFail, BFlagFail,
                BAgain, FaultKinds
  <2>4. CASE DaemonNext
    BY <2>4 DEF DaemonNext, WorkStep, Start, List, ListFail, Post, PostFail, Update,
                UpdateFail, End, history, FaultKinds
  <2>5. CASE Crash BY <2>5 DEF Crash, FaultKinds
  <2>. QED BY <2>1, <2>2, <2>3, <2>4, <2>5 DEF Next
<1>. QED BY <1>1, FaultType

\* What the daemon and a crash leave to the rest.
LEMMA DaemonKeeps ==
    ASSUME TypeOK, DaemonNext \/ Crash
    PROVE  rows'.conf = rows.conf /\ rows.push \subseteq rows'.push
<1>1. ASSUME NEW w \in Workers, NEW t \in Tx, Update(w, t)
      PROVE  rows'.conf = rows.conf /\ rows.push \subseteq rows'.push
  <2>1. CASE UNCHANGED rows BY <2>1
  <2>2. CASE rows' = [rows EXCEPT !.push = @ \cup {t}] BY <2>2 DEF TypeOK
  <2>. QED BY <1>1, <2>1, <2>2 DEF Update, Record
<1>. QED BY <1>1 DEF DaemonNext, WorkStep, Start, List, ListFail, Post, PostFail, UpdateFail, End,
                     Crash, table

LEMMA HandsStep == ASSUME IInv, Next PROVE Hands'
<1>. USE DEF IInv, TypeInv, TypeOK, Hands
<1>1. CASE KeyNext \/ MemNext \/ BlockNext BY <1>1, Aside
<1>2. CASE DaemonNext
  <2>1. ASSUME NEW p \in 1..NPass, Start(p) PROVE Hands' BY <2>1 DEF Start, NoWork
  <2>2. ASSUME NEW w \in Workers, List(w) PROVE Hands' BY <2>2 DEF List
  <2>3. ASSUME NEW w \in Workers, ListFail(w) \/ End(w) PROVE Hands'
    BY <2>3 DEF ListFail, End, NoWork
  <2>4. ASSUME NEW w \in Workers, NEW t \in Tx, Post(w, t) PROVE Hands'
    <3>1. \A v \in Workers \ {w} : work'[v] = work[v] BY <2>4 DEF Post
    <3>2. /\ work'[w].pc = "run"
          /\ work'[w].todo = work[w].todo \ {t} /\ work'[w].sent = work[w].sent \cup {t}
      BY <2>4 DEF Post
    <3>. QED BY <3>1, <3>2
  <2>5. ASSUME NEW w \in Workers, NEW t \in Tx, PostFail(w, t) PROVE Hands'
    BY <2>5 DEF PostFail
  <2>6. ASSUME NEW w \in Workers, NEW t \in Tx, Update(w, t) \/ UpdateFail(w, t) PROVE Hands'
    <3>1. /\ \A v \in Workers : work'[v].pc = work[v].pc /\ work'[v].todo = work[v].todo
          /\ \A v \in Workers \ {w} : work'[v] = work[v]
          /\ work[w].pc = "run" /\ work'[w].sent \subseteq work[w].sent
      BY <2>6 DEF Update, UpdateFail
    <3>. QED BY <3>1
  <2>. QED BY <1>2, <2>1, <2>2, <2>3, <2>4, <2>5, <2>6 DEF DaemonNext, WorkStep
<1>3. CASE Crash BY <1>3 DEF Crash, NoWork
<1>. QED BY <1>1, <1>2, <1>3 DEF Next

LEMMA ConfirmedStep == ASSUME IInv, Next PROVE Confirmed'
<1>. USE DEF IInv, TypeInv, TypeOK, Confirmed
<1>1. CASE KeyNext \/ MemNext \/ BlockNext BY <1>1, Aside
<1>2. CASE DaemonNext
  <2>0. rows'.conf = rows.conf BY <1>2, DaemonKeeps
  <2>1. ASSUME NEW p \in 1..NPass, Start(p) PROVE Confirmed' BY <2>0, <2>1 DEF Start, NoWork
  <2>2. ASSUME NEW w \in Workers, List(w) PROVE Confirmed'
    BY <2>0, <2>2 DEF List, Pending, history
  <2>3. ASSUME NEW w \in Workers, ListFail(w) \/ End(w) PROVE Confirmed'
    BY <2>0, <2>3 DEF ListFail, End, NoWork, history
  <2>4. ASSUME NEW w \in Workers, NEW t \in Tx, Post(w, t) PROVE Confirmed'
    <3>1. \A v \in Workers : work'[v].todo \subseteq work[v].todo BY <2>4 DEF Post
    <3>2. told'.all \subseteq rows.conf BY <2>4 DEF Post, Tell
    <3>. QED BY <2>0, <3>1, <3>2
  <2>5. ASSUME NEW w \in Workers, NEW t \in Tx, PostFail(w, t) PROVE Confirmed'
    BY <2>0, <2>5 DEF PostFail, Tell
  <2>6. ASSUME NEW w \in Workers, NEW t \in Tx, Update(w, t) \/ UpdateFail(w, t)
        PROVE  Confirmed'
    <3>1. \A v \in Workers : work'[v].todo = work[v].todo BY <2>6 DEF Update, UpdateFail
    <3>2. told' = told BY <2>6 DEF Update, UpdateFail, history
    <3>. QED BY <2>0, <3>1, <3>2
  <2>. QED BY <1>2, <2>1, <2>2, <2>3, <2>4, <2>5, <2>6 DEF DaemonNext, WorkStep
<1>3. CASE Crash BY <1>3 DEF Crash, NoWork, table, history
<1>. QED BY <1>1, <1>2, <1>3 DEF Next

LEMMA MarksStep == ASSUME IInv, Next PROVE FinalMarks'
<1>. USE DEF IInv, TypeInv, TypeOK, FinalMarks
<1>1. CASE KeyNext \/ MemNext \/ BlockNext BY <1>1, Aside
<1>2. ASSUME NEW w \in Workers, NEW t \in Tx, Update(w, t) PROVE FinalMarks'
  <2>1. CASE w[2] = "u" /\ rows' = [rows EXCEPT !.push = @ \cup {t}] /\ UNCHANGED status
    BY <1>2, <2>1 DEF Update
  <2>2. CASE w[2] = "c" /\ status' = [status EXCEPT ![t] = "completed"] /\ UNCHANGED rows
    BY <1>2, <2>2 DEF Update
  <2>. QED BY <1>2, <2>1, <2>2 DEF Update, Record
<1>3. CASE Crash \/ (DaemonNext /\ ~\E w \in Workers, t \in Tx : Update(w, t))
  <2>1. status' = status /\ rows' = rows /\ final' = final
    BY <1>3 DEF DaemonNext, WorkStep, Start, List, ListFail, Post, PostFail, UpdateFail, End,
                Crash, table, history
  <2>. QED BY <2>1
<1>. QED BY <1>1, <1>2, <1>3 DEF Next

\* As long as no find has failed, a pass begins when the workers of the one before
\* it are idle, and finds neither what that pass has announced nor what it recorded.
LEMMA SerialStep == ASSUME IInv, Next PROVE Serial'
<1>. SUFFICES ASSUME faults'["list"] = 0 PROVE Wait' /\ Order' /\ Once'
  BY DEF Serial
<1>. USE DEF IInv, TypeInv, TypeOK
<1>0. Wait /\ Order /\ Once BY ListCounts DEF Serial
<1>u. \A p \in 1..NPass : <<p, "u">> \in Workers /\ <<p, "u">>[2] = "u"
  BY WorkerParts DEF Kinds
<1>1. CASE KeyNext \/ MemNext \/ BlockNext BY <1>0, <1>1, Aside DEF Wait, Order, Once
<1>2. ASSUME NEW p \in 1..NPass, Start(p) PROVE Wait' /\ Order' /\ Once'
  <2>1. \A w \in Workers : work[w].pc = "idle"
    BY <1>0, <1>2, WorkerParts, NotifyAssumption DEF Start, Wait
  <2>2. \A w \in Workers : work'[w].todo = {} BY <1>2, <2>1 DEF Start, NoWork, Hands
  <2>3. Wait' BY <1>2, <2>1 DEF Start, NoWork, Wait
  <2>. QED BY <1>u, <2>2, <2>3 DEF Order, Once
<1>3. ASSUME NEW w \in Workers, List(w) PROVE Wait' /\ Order' /\ Once'
  <2>1. PICK S \in SUBSET Pending(w[2]) :
          work' = [work EXCEPT ![w] = [pc |-> "run", todo |-> S, sent |-> {}]]
    BY <1>3 DEF List
  <2>2. work[w].pc = "list" /\ awaited' = awaited /\ told' = told /\ final' = final
    BY <1>3 DEF List, history
  <2>3. Wait' BY <1>0, <2>1, <2>2 DEF Wait
  <2>4. ASSUME w[2] = "u" PROVE \A t \in told.before : t \notin S
    BY <2>4 DEF Pending, Confirmed
  <2>5. Order' BY <1>0, <1>u, <2>1, <2>2, <2>4 DEF Order
  <2>6. ASSUME NEW t \in Tx, <<w[2], t>> \in final PROVE t \notin S
    BY <2>6, WorkerParts DEF Pending, FinalMarks, Kinds
  <2>7. Once' BY <1>0, <2>1, <2>2, <2>6 DEF Once
  <2>. QED BY <2>3, <2>5, <2>7
<1>4. ASSUME NEW w \in Workers, ListFail(w) PROVE Wait' /\ Order' /\ Once'
  BY <1>4, FaultType DEF ListFail, FaultKinds
<1>5. ASSUME NEW w \in Workers, NEW t \in Tx, Post(w, t) \/ PostFail(w, t)
      PROVE  Wait' /\ Order' /\ Once'
  <2>1. \A v \in Workers : work'[v].pc = work[v].pc /\ work'[v].todo \subseteq work[v].todo
    <3>1. CASE Post(w, t) BY <3>1 DEF Post
    <3>2. CASE PostFail(w, t) BY <3>2 DEF PostFail
    <3>. QED BY <1>5, <3>1, <3>2
  <2>2. awaited' = awaited /\ told'.before = told.before /\ final' = final
    BY <1>5 DEF Post, PostFail, Tell
  <2>. QED BY <1>0, <1>u, <2>1, <2>2 DEF Wait, Order, Once
<1>6. ASSUME NEW w \in Workers, NEW t \in Tx, Update(w, t) PROVE Wait' /\ Order' /\ Once'
  <2>1. \A v \in Workers : work'[v].pc = work[v].pc /\ work'[v].todo = work[v].todo
    BY <1>6 DEF Update
  <2>2. awaited' = awaited /\ told' = told /\ final' = final \cup {<<w[2], t>>}
    BY <1>6 DEF Update
  <2>3. ASSUME NEW v \in Workers, v[2] = w[2] PROVE t \notin work[v].todo
    <3>1. CASE v = w BY <1>6, <3>1 DEF Update, Hands
    <3>2. CASE v # w
      <4>1. work[v].pc = "idle" BY <1>0, <1>6, <2>3, <3>2, WorkerParts DEF Update, Wait
      <4>. QED BY <4>1 DEF Hands
    <3>. QED BY <3>1, <3>2
  <2>4. Once' BY <1>0, <2>1, <2>2, <2>3 DEF Once
  <2>. QED BY <1>0, <1>u, <2>1, <2>2, <2>4 DEF Wait, Order
<1>7. ASSUME NEW w \in Workers, NEW t \in Tx, UpdateFail(w, t) PROVE Wait' /\ Order' /\ Once'
  <2>1. \A v \in Workers : work'[v].pc = work[v].pc /\ work'[v].todo = work[v].todo
    BY <1>7 DEF UpdateFail
  <2>. QED BY <1>0, <1>7, <1>u, <2>1 DEF UpdateFail, history, Wait, Order, Once
<1>8. ASSUME NEW w \in Workers, End(w) PROVE Wait' /\ Order' /\ Once'
  <2>1. \A v \in Workers : work'[v].todo \subseteq work[v].todo BY <1>8 DEF End, NoWork
  <2>2. told' = told /\ final' = final /\ work' = [work EXCEPT ![w] = NoWork]
    BY <1>8 DEF End, history
  <2>3. ASSUME NEW v \in Workers, work'[v].pc # "idle" PROVE awaited' = v[1]
    <3>1. v # w /\ work[v].pc # "idle" BY <2>2, <2>3 DEF NoWork
    <3>2. awaited = v[1] BY <1>0, <3>1 DEF Wait
    <3>. QED BY <1>8, <3>1, <3>2 DEF End
  <2>. QED BY <1>0, <1>u, <2>1, <2>2, <2>3 DEF Wait, Order, Once
<1>9. CASE Crash
  <2>1. \A w \in Workers : work'[w].todo = {} /\ work'[w].pc = "idle"
    BY <1>9 DEF Crash, NoWork
  <2>. QED BY <1>u, <2>1 DEF Wait, Order, Once
<1>. QED BY <1>1, <1>2, <1>3, <1>4, <1>5, <1>6, <1>7, <1>8, <1>9 DEF Next, DaemonNext, WorkStep

LEMMA IInvStep == IInv /\ [Next]_vars => IInv'
<1>1. ASSUME IInv, Next PROVE IInv'
  <2>1. TypeInv' BY <1>1, TypeStep DEF IInv
  <2>. QED BY <1>1, <2>1, HandsStep, ConfirmedStep, MarksStep, SerialStep DEF IInv
<1>2. ASSUME IInv, UNCHANGED vars PROVE IInv'
  <2>1. TypeInv' BY <1>2, TypeStep DEF IInv
  <2>. QED BY <1>2, <2>1 DEF IInv, Hands, Confirmed, FinalMarks, Serial, Wait, Order, Once, vars,
                             table, daemon, history
<1>. QED BY <1>1, <1>2

LEMMA InitIInv == Init => IInv
<1>. SUFFICES ASSUME Init PROVE IInv OBVIOUS
<1>1. TypeInv BY InitTypeInv
<1>2. \A w \in Workers : work[w].pc = "idle" /\ work[w].todo = {} /\ work[w].sent = {}
  BY DEF Init, NoWork
<1>3. told.all = {} /\ told.before = {} /\ final = {} BY DEF Init
<1>. QED BY <1>1, <1>2, <1>3 DEF IInv, Hands, Confirmed, FinalMarks, Serial, Wait, Order, Once

-----------------------------------------------------------------------------
(* What is never posted *)

\* The unconfirmed notice of a transaction is not posted when a pass before this one
\* has posted the confirmed one, unless the find of a worker has failed.
THEOREM LateUnconfirmed == Spec => NoLateUnconfirmed
<1>1. IInv /\ [Next]_vars =>
        [faults["list"] = 0 =>
           \A p \in 1..NPass, t \in told.before : ~Posts(<<p, "u">>, t)]_vars
  BY DEF IInv, Serial, Order, Posts
<1>. QED BY <1>1, InitIInv, IInvStep, PTL DEF Spec, NoLateUnconfirmed

\* A notice whose answer is recorded is not posted again, unless the find of a worker
\* has failed or an upsert has marked the row again.
THEOREM RecordedFinal == Spec => RecordedIsFinal
<1>1. IInv /\ [Next]_vars =>
        [faults["list"] = 0 => \A w \in Workers, t \in Tx :
           <<w[2], t>> \in final => ~Posts(w, t)]_vars
  BY DEF IInv, Serial, Once, Posts
<1>. QED BY <1>1, InitIInv, IInvStep, PTL DEF Spec, RecordedIsFinal

\* No find takes a row whose notice is recorded, also beside the worker of an earlier
\* pass that nobody waits for any more.
THEOREM RecordedNotTaken == Spec => RecordedIsNotTaken
<1>1. ASSUME IInv, Next, NEW w \in Workers, NEW t \in Tx,
             <<w[2], t>> \in final, t \in work'[w].todo
      PROVE  t \in work[w].todo
  <2>. USE DEF IInv, TypeInv, TypeOK
  <2>1. CASE KeyNext \/ MemNext \/ BlockNext BY <1>1, <2>1, Aside
  <2>2. ASSUME NEW p \in 1..NPass, Start(p) PROVE t \in work[w].todo
    BY <1>1, <2>2 DEF Start, NoWork
  <2>3. ASSUME NEW v \in Workers, List(v) PROVE t \in work[w].todo
    <3>1. PICK S \in SUBSET Pending(v[2]) :
            work' = [work EXCEPT ![v] = [pc |-> "run", todo |-> S, sent |-> {}]]
      BY <2>3 DEF List
    <3>2. CASE v = w
      <4>1. t \in Pending(w[2]) BY <1>1, <3>1, <3>2
      <4>. QED BY <1>1, <4>1, WorkerParts DEF Pending, FinalMarks, Kinds
    <3>. QED BY <1>1, <3>1, <3>2
  <2>4. ASSUME NEW v \in Workers, ListFail(v) \/ End(v) PROVE t \in work[w].todo
    BY <1>1, <2>4 DEF ListFail, End, NoWork
  <2>5. ASSUME NEW v \in Workers, NEW u \in Tx, Post(v, u) PROVE t \in work[w].todo
    BY <1>1, <2>5 DEF Post
  <2>6. ASSUME NEW v \in Workers, NEW u \in Tx, PostFail(v, u) PROVE t \in work[w].todo
    BY <1>1, <2>6 DEF PostFail
  <2>7. ASSUME NEW v \in Workers, NEW u \in Tx, Update(v, u) \/ UpdateFail(v, u)
        PROVE  t \in work[w].todo
    <3>1. work' = [work EXCEPT ![v].sent = work[v].sent \ {u}] BY <2>7 DEF Update, UpdateFail
    <3>2. work'[w].todo = work[w].todo BY <3>1
    <3>. QED BY <1>1, <3>2
  <2>8. CASE Crash BY <1>1, <2>8 DEF Crash, NoWork
  <2>. QED BY <1>1, <2>1, <2>2, <2>3, <2>4, <2>5, <2>6, <2>7, <2>8 DEF Next, DaemonNext, WorkStep
<1>2. IInv /\ [Next]_vars =>
        [\A w \in Workers, t \in Tx :
           <<w[2], t>> \in final /\ t \in work'[w].todo => t \in work[w].todo]_vars
  BY <1>1
<1>. QED BY <1>2, InitIInv, IInvStep, PTL DEF Spec, RecordedIsNotTaken

=============================================================================
