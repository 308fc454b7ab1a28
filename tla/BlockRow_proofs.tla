--------------------------- MODULE BlockRow_proofs --------------------------
(***************************************************************************)
(* Proof that BlockIndex implements BlockRow, for every number of blocks,  *)
(* every size of pool, queue, batch and chunk and all faults; and what     *)
(* follows from who may write a row: doubleCheck is a final status, a      *)
(* block marked downloaded has its file, and no transaction is twice in    *)
(* memory.                                                                 *)
(***************************************************************************)
EXTENDS BlockIndex_proofs

-----------------------------------------------------------------------------
(***************************************************************************)
(* Who may write the status of a row.  No daemon locks a row: each one     *)
(* looks for a status that the others do not write over, until it has      *)
(* written the next one.  The last transaction of a block is on its way    *)
(* from P to T at most once, and only while the row is `processing`.       *)
(***************************************************************************)

OnWay(b) == b \in Elems(plast) \/ LastTx(b) \in InMemory

DOwns ==
    \A b \in Blocks :
        /\ dstage[b] = "todo" => status[b] \in {"nostart", "downloading"}
        /\ dstage[b] \in {"rpc", "got"} => status[b] = "downloading"

POwns ==
    \A b \in Blocks :
        /\ pstage[b] \in {"todo", "reset", "mark"} => status[b] \in {"downloaded", "processing"}
        /\ pstage[b] = "save" => status[b] = "processing"

TOwns ==
    \A b \in Blocks : OnWay(b) => status[b] = "processing" /\ pstage[b] = "none"

COwns ==
    \A b \in Blocks :
        /\ cstage[b] \in {"todo", "read"} => status[b] = "completed"
        /\ cstage[b] = "tick" => status[b] = "doubleCheck"

\* Where P is between its loops.
PhaseInv ==
    /\ pphase # "pool" => plast = <<>>
    /\ pphase \in {"boot", "idle"} => \A b \in Blocks : pstage[b] = "none"
    /\ pphase = "boot" => queue = <<>> /\ batch = <<>>

\* A last transaction is in s once.
Once(s) == \A i, j \in 1..Len(s) : s[i] = s[j] /\ IsLast(s[i]) => i = j

OnceInv ==
    /\ Once(queue) /\ Once(batch)
    /\ \A i, j \in 1..Len(plast) : plast[i] = plast[j] => i = j
    /\ \A b \in Blocks :
        /\ ~(LastTx(b) \in Elems(queue) /\ LastTx(b) \in Elems(batch))
        /\ b \in Elems(plast) => LastTx(b) \notin InMemory

OwnInv ==
    faults["early"] = 0 => DOwns /\ POwns /\ TOwns /\ COwns /\ PhaseInv /\ OnceInv

-----------------------------------------------------------------------------
(* What the double check reads.                                            *)

NoCoinbase == \A t \in rows["tx_in"] \cup tleft["tx_in"] : t[2] # 1

\* The counts of a block that is stored.
CountInv ==
    faults["save"] = 0 /\ faults["decode"] = 0 =>
        \A b \in Blocks :
            /\ cread[b]["sum"] \in {-1, NumTx[b]}
            /\ cread[b]["ins"] \in {-1, NumTx[b] - 1}
            /\ cread[b]["outs"] \in {-1, NumTx[b]}

-----------------------------------------------------------------------------
(* Sequences with every last transaction once.                             *)

LEMMA OnceTail ==
    ASSUME NEW s \in Seq(AllTx), s # <<>>, Once(s)
    PROVE  /\ Once(Tail(s))
           /\ IsLast(Head(s)) => Head(s) \notin Elems(Tail(s))
<1>1. /\ Len(Tail(s)) = Len(s) - 1 /\ Len(s) \in Nat /\ Head(s) = s[1] /\ Len(s) >= 1
      /\ \A i \in 1..Len(Tail(s)) : Tail(s)[i] = s[i + 1]
  BY HeadTailProperties, LenProperties, EmptySeq
<1>2. ASSUME NEW i \in 1..Len(Tail(s)), NEW j \in 1..Len(Tail(s)),
             Tail(s)[i] = Tail(s)[j], IsLast(Tail(s)[i])
      PROVE  i = j
  <2>1. i + 1 \in 1..Len(s) /\ j + 1 \in 1..Len(s) BY <1>1
  <2>2. i + 1 = j + 1 BY <1>1, <1>2, <2>1 DEF Once
  <2>. QED BY <2>2
<1>3. ASSUME NEW i \in 1..Len(Tail(s)), IsLast(Head(s)), Tail(s)[i] = Head(s) PROVE FALSE
  <2>1. i + 1 \in 1..Len(s) /\ 1 \in 1..Len(s) BY <1>1
  <2>2. i + 1 = 1 BY <1>1, <1>3, <2>1 DEF Once
  <2>. QED BY <2>2
<1>. QED BY <1>2, <1>3 DEF Once, Elems

LEMMA OnceConcat ==
    ASSUME NEW s \in Seq(AllTx), NEW u \in Seq(AllTx), Once(s), Once(u),
           \A x \in Elems(s) : IsLast(x) => x \notin Elems(u)
    PROVE  Once(s \o u)
<1>1. /\ Len(s \o u) = Len(s) + Len(u) /\ Len(s) \in Nat /\ Len(u) \in Nat
      /\ \A i \in 1..Len(s) + Len(u) :
            (s \o u)[i] = IF i <= Len(s) THEN s[i] ELSE u[i - Len(s)]
  BY ConcatProperties, LenProperties
<1>. SUFFICES ASSUME NEW i \in 1..Len(s \o u), NEW j \in 1..Len(s \o u),
                     (s \o u)[i] = (s \o u)[j], IsLast((s \o u)[i])
              PROVE  i = j
  BY DEF Once
<1>2. CASE i <= Len(s) /\ j <= Len(s)
  <2>1. i \in 1..Len(s) /\ j \in 1..Len(s) /\ (s \o u)[i] = s[i] /\ (s \o u)[j] = s[j]
    BY <1>1, <1>2
  <2>. QED BY <2>1 DEF Once
<1>3. CASE i > Len(s) /\ j > Len(s)
  <2>1. /\ i - Len(s) \in 1..Len(u) /\ j - Len(s) \in 1..Len(u)
        /\ (s \o u)[i] = u[i - Len(s)] /\ (s \o u)[j] = u[j - Len(s)]
    BY <1>1, <1>3
  <2>2. i - Len(s) = j - Len(s) BY <2>1 DEF Once
  <2>. QED BY <1>1, <2>2
<1>4. CASE i <= Len(s) /\ j > Len(s)
  <2>1. i \in 1..Len(s) /\ j - Len(s) \in 1..Len(u)
        /\ (s \o u)[i] = s[i] /\ (s \o u)[j] = u[j - Len(s)]
    BY <1>1, <1>4
  <2>. QED BY <2>1 DEF Elems
<1>5. CASE i > Len(s) /\ j <= Len(s)
  <2>1. j \in 1..Len(s) /\ i - Len(s) \in 1..Len(u)
        /\ (s \o u)[j] = s[j] /\ (s \o u)[i] = u[i - Len(s)]
    BY <1>1, <1>5
  <2>. QED BY <2>1 DEF Elems
<1>. QED BY <1>1, <1>2, <1>3, <1>4, <1>5

LEMMA OnceAppend ==
    ASSUME NEW s \in Seq(AllTx), NEW x \in AllTx, Once(s), IsLast(x) => x \notin Elems(s)
    PROVE  Once(Append(s, x))
<1>1. Append(s, x) = s \o <<x>> BY AppendIsConcat
<1>2. <<x>> \in Seq(AllTx) /\ Len(<<x>>) = 1 /\ <<x>>[1] = x OBVIOUS
<1>3. Once(<<x>>) BY <1>2 DEF Once
<1>4. Elems(<<x>>) = {x} BY <1>2 DEF Elems
<1>. QED BY <1>1, <1>2, <1>3, <1>4, OnceConcat

LEMMA OnceEmpty == Once(<<>>) /\ Elems(<<>>) = {}
BY DEF Once, Elems

LEMMA LastOfBlock ==
    ASSUME NEW b \in Blocks
    PROVE  /\ IsLast(LastTx(b)) /\ LastTx(b)[1] = b
           /\ \A t : IsLast(t) /\ t[1] = b => t = LastTx(b)
           /\ \A c \in Blocks : LastTx(b) = LastTx(c) => b = c
BY DEF IsLast, LastTx

-----------------------------------------------------------------------------
(* Ownership.                                                              *)

LEMMA InitOwn == Init => OwnInv
<1>. SUFFICES ASSUME Init PROVE DOwns /\ POwns /\ TOwns /\ COwns /\ PhaseInv /\ OnceInv
  BY DEF OwnInv
<1>1. Elems(queue) = {} /\ Elems(batch) = {} /\ Elems(plast) = {} /\ Once(queue) /\ Once(batch)
  BY OnceEmpty DEF Init
<1>2. \A b \in Blocks : ~OnWay(b) BY <1>1 DEF OnWay, InMemory
<1>3. OnceInv BY <1>1 DEF OnceInv, Init
<1>. QED BY <1>2, <1>3 DEF Init, DOwns, POwns, TOwns, COwns, PhaseInv

\* Steps of D and C leave what P and T hold as it is.
LEMMA WaySame ==
    ASSUME UNCHANGED <<plast, queue, batch>>
    PROVE  /\ OnceInv => OnceInv'
           /\ \A b : OnWay(b)' = OnWay(b)
BY DEF OnceInv, OnWay, InMemory, Once

LEMMA DOwn ==
    ASSUME TypeOK, DOwns, POwns, TOwns, COwns, PhaseInv, OnceInv, DNext
    PROVE  DOwns' /\ POwns' /\ TOwns' /\ COwns' /\ PhaseInv' /\ OnceInv'
<1>. USE DEF db, disk, pvars, tvars, cvars
<1>1. UNCHANGED <<pphase, pstage, plast, queue, batch, cstage>>
  BY DEF DNext, DCount, DSelect, DStart, DRpc, DRpcFail, DDone, DFail
<1>2. PhaseInv' /\ OnceInv' /\ \A b : OnWay(b)' = OnWay(b)
  BY <1>1, WaySame DEF PhaseInv
<1>3. CASE UNCHANGED status
  <2>1. POwns' /\ TOwns' /\ COwns' BY <1>1, <1>2, <1>3 DEF POwns, TOwns, COwns
  <2>2. DOwns'
    <3>1. CASE DSelect BY <3>1 DEF DSelect, WithStatus, DOwns
    <3>2. CASE DCount BY <3>2 DEF DCount, DOwns
    <3>3. ASSUME NEW b \in Blocks, DRpc(b) \/ DRpcFail(b) \/ DFail(b) PROVE DOwns'
      BY <1>3, <3>3 DEF DRpc, DRpcFail, DFail, DOwns, TypeOK
    <3>4. ASSUME NEW b \in Blocks, DStart(b) PROVE DOwns'
      BY <1>3, <3>4 DEF DStart, SetStatus, DOwns, TypeOK
    <3>5. ASSUME NEW b \in Blocks, DDone(b) PROVE DOwns'
      BY <1>3, <3>5 DEF DDone, SetStatus, DOwns, TypeOK
    <3>. QED BY <3>1, <3>2, <3>3, <3>4, <3>5 DEF DNext
  <2>. QED BY <1>2, <2>1, <2>2
<1>4. ASSUME NEW b \in Blocks, DStart(b)
      PROVE  DOwns' /\ POwns' /\ TOwns' /\ COwns'
  <2>1. status[b] \in {"nostart", "downloading"} BY <1>4 DEF DStart, DTurn, Lowest, DOwns
  <2>2. status' = [status EXCEPT ![b] = "downloading"] BY <1>4 DEF DStart, SetStatus
  <2>3. DOwns' BY <1>4, <2>2 DEF DStart, DOwns, TypeOK
  <2>4. POwns' BY <1>1, <2>1, <2>2 DEF POwns, TypeOK, PStages
  <2>5. TOwns' BY <1>1, <1>2, <2>1, <2>2 DEF TOwns, TypeOK
  <2>6. COwns' BY <1>1, <2>1, <2>2 DEF COwns, TypeOK
  <2>. QED BY <2>3, <2>4, <2>5, <2>6
<1>5. ASSUME NEW b \in Blocks, DDone(b)
      PROVE  DOwns' /\ POwns' /\ TOwns' /\ COwns'
  <2>1. status[b] = "downloading" BY <1>5 DEF DDone, DOwns
  <2>2. status' = [status EXCEPT ![b] = "downloaded"] BY <1>5 DEF DDone, SetStatus
  <2>3. DOwns' BY <1>5, <2>2 DEF DDone, DOwns, TypeOK
  <2>4. POwns' BY <1>1, <2>1, <2>2 DEF POwns, TypeOK, PStages
  <2>5. TOwns' BY <1>1, <1>2, <2>1, <2>2 DEF TOwns, TypeOK
  <2>6. COwns' BY <1>1, <2>1, <2>2 DEF COwns, TypeOK
  <2>. QED BY <2>3, <2>4, <2>5, <2>6
<1>6. status' = status \/ \E b \in Blocks : DStart(b) \/ DDone(b)
  BY DEF DNext, DCount, DSelect, DRpc, DRpcFail, DFail
<1>. QED BY <1>2, <1>3, <1>4, <1>5, <1>6

LEMMA COwn ==
    ASSUME TypeOK, DOwns, POwns, TOwns, COwns, PhaseInv, OnceInv, CNext
    PROVE  DOwns' /\ POwns' /\ TOwns' /\ COwns' /\ PhaseInv' /\ OnceInv'
<1>. USE DEF db, disk, dvars, pvars, tvars
<1>1. UNCHANGED <<pphase, pstage, plast, queue, batch, dstage>>
  BY DEF CNext, CGate, CList, CStart, CRead, CDecide, CTick, CFail
<1>2. PhaseInv' /\ OnceInv' /\ \A b : OnWay(b)' = OnWay(b)
  BY <1>1, WaySame DEF PhaseInv
<1>3. CASE UNCHANGED status
  <2>1. POwns' /\ TOwns' /\ DOwns' BY <1>1, <1>2, <1>3 DEF POwns, TOwns, DOwns
  <2>2. COwns'
    <3>1. CASE CGate BY <3>1 DEF CGate, COwns
    <3>2. CASE CList BY <3>2 DEF CList, COwns
    <3>3. ASSUME NEW b \in Blocks, CStart(b) PROVE COwns'
      BY <1>3, <3>3 DEF CStart, Lowest, COwns, TypeOK
    <3>4. ASSUME NEW b \in Blocks, CTick(b) \/ CFail(b) PROVE COwns'
      BY <1>3, <3>4 DEF CTick, CFail, COwns, TypeOK
    <3>5. ASSUME NEW b \in Blocks, NEW q, CRead(b, q) PROVE COwns'
      BY <3>5 DEF CRead, COwns
    <3>6. ASSUME NEW b \in Blocks, CDecide(b) PROVE COwns'
      BY <1>3, <3>6 DEF CDecide, SetStatus, COwns, TypeOK
    <3>. QED BY <3>1, <3>2, <3>3, <3>4, <3>5, <3>6 DEF CNext
  <2>. QED BY <1>2, <2>1, <2>2
<1>4. ASSUME NEW b \in Blocks, CDecide(b)
      PROVE  DOwns' /\ POwns' /\ TOwns' /\ COwns'
  <2>1. status[b] = "completed" BY <1>4 DEF CDecide, COwns
  <2>2. PICK s \in {"doubleCheck", "nostart"} :
            /\ status' = [status EXCEPT ![b] = s]
            /\ s = "nostart" => cstage'[b] = "none"
            /\ s = "doubleCheck" => cstage'[b] = "tick"
    BY <1>4 DEF CDecide, SetStatus, TypeOK
  <2>3. DOwns' BY <1>1, <2>1, <2>2 DEF DOwns, TypeOK
  <2>4. POwns' BY <1>1, <2>1, <2>2 DEF POwns, TypeOK, PStages
  <2>5. TOwns' BY <1>1, <1>2, <2>1, <2>2 DEF TOwns, TypeOK
  <2>6. COwns' BY <1>4, <2>2 DEF CDecide, COwns, TypeOK
  <2>. QED BY <2>3, <2>4, <2>5, <2>6
<1>5. status' = status \/ \E b \in Blocks : CDecide(b)
  BY DEF CNext, CGate, CList, CStart, CRead, CTick, CFail
<1>. QED BY <1>2, <1>3, <1>4, <1>5

LEMMA TOwn ==
    ASSUME TypeOK, DOwns, POwns, TOwns, COwns, PhaseInv, OnceInv, TNext
    PROVE  DOwns' /\ POwns' /\ TOwns' /\ COwns' /\ PhaseInv' /\ OnceInv'
<1>. USE DEF db, disk, dvars, pvars, cvars
<1>1. UNCHANGED <<pphase, pstage, plast, dstage, cstage>>
  BY DEF TNext, TTake, TThrow, TFlushed, TEnd, TEndFail, TChunk
<1>2. /\ queue \in Seq(AllTx) /\ batch \in Seq(AllTx)
      /\ queue # <<>> => /\ Elems(queue) = {Head(queue)} \cup Elems(Tail(queue))
                         /\ Once(Tail(queue)) /\ Head(queue) \in AllTx
                         /\ IsLast(Head(queue)) => Head(queue) \notin Elems(Tail(queue))
      /\ batch # <<>> => /\ Elems(batch) = {Head(batch)} \cup Elems(Tail(batch))
                         /\ Once(Tail(batch)) /\ Head(batch) \in AllTx
                         /\ IsLast(Head(batch)) => Head(batch) \notin Elems(Tail(batch))
  BY ElemsTail, OnceTail DEF TypeOK, OnceInv
<1>3. \A t \in AllTx : IsLast(t) => t[1] \in Blocks /\ t = LastTx(t[1])
  BY AllTxElim, LastOfBlock
<1>4. ASSUME UNCHANGED status, InMemory' \subseteq InMemory
      PROVE  DOwns' /\ POwns' /\ TOwns' /\ COwns'
  BY <1>1, <1>4 DEF DOwns, POwns, TOwns, COwns, OnWay
<1>5. CASE TTake
  <2>1. /\ queue # <<>> /\ queue' = Tail(queue) /\ batch' = Append(batch, Head(queue))
        /\ UNCHANGED status
    BY <1>5 DEF TTake
  <2>2. Elems(batch') = Elems(batch) \cup {Head(queue)} BY <1>2, <2>1, ElemsAppend
  <2>3. InMemory' = InMemory BY <1>2, <2>1, <2>2 DEF InMemory
  <2>4. IsLast(Head(queue)) => Head(queue) \notin Elems(batch)
    BY <1>2, <1>3, <2>1 DEF OnceInv
  <2>5. Once(batch') BY <1>2, <2>1, <2>4, OnceAppend DEF OnceInv
  <2>6. \A b \in Blocks : ~(LastTx(b) \in Elems(queue') /\ LastTx(b) \in Elems(batch'))
    BY <1>2, <2>1, <2>2, LastOfBlock DEF OnceInv
  <2>7. OnceInv' BY <1>1, <1>2, <2>1, <2>3, <2>5, <2>6 DEF OnceInv
  <2>8. PhaseInv' BY <1>1, <2>1 DEF PhaseInv
  <2>. QED BY <1>4, <2>1, <2>3, <2>7, <2>8
<1>6. CASE TThrow
  <2>1. queue # <<>> /\ queue' = Tail(queue) /\ batch' = <<>> /\ UNCHANGED status
    BY <1>6 DEF TThrow
  <2>2. Elems(queue') \subseteq Elems(queue) /\ Elems(batch') = {} /\ Once(batch')
    BY <1>2, <2>1, OnceEmpty
  <2>3. InMemory' \subseteq InMemory BY <2>2 DEF InMemory
  <2>4. OnceInv' BY <1>1, <1>2, <2>1, <2>2, <2>3 DEF OnceInv
  <2>5. PhaseInv' BY <1>1, <2>1 DEF PhaseInv
  <2>. QED BY <1>4, <2>1, <2>3, <2>4, <2>5
<1>7. CASE TFlushed
  <2>1. CASE UNCHANGED <<queue, batch>>
    <3>1. UNCHANGED status BY <1>7 DEF TFlushed
    <3>2. InMemory' = InMemory BY <2>1 DEF InMemory
    <3>3. OnceInv' BY <1>1, <2>1, WaySame
    <3>4. PhaseInv' BY <1>1, <2>1 DEF PhaseInv
    <3>. QED BY <1>4, <3>1, <3>2, <3>3, <3>4
  <2>2. CASE queue' = queue \o batch /\ batch' = <<>>
    <3>1. UNCHANGED status /\ batch # <<>> BY <1>7 DEF TFlushed, TypeOK
    <3>2. Elems(queue') = Elems(queue) \cup Elems(batch) /\ Elems(batch') = {} /\ Once(batch')
      BY <1>2, <2>2, ElemsConcat, OnceEmpty
    <3>3. InMemory' = InMemory BY <3>2 DEF InMemory
    <3>4. \A x \in Elems(queue) : IsLast(x) => x \notin Elems(batch)
      <4>1. Elems(queue) \subseteq AllTx BY <1>2, ElementOfSeq, LenProperties DEF Elems
      <4>. QED BY <1>3, <4>1 DEF OnceInv
    <3>5. Once(queue') BY <1>2, <2>2, <3>4, OnceConcat DEF OnceInv
    <3>6. OnceInv' BY <1>1, <3>2, <3>3, <3>5 DEF OnceInv
    <3>7. PhaseInv' BY <1>1, <3>1 DEF PhaseInv
    <3>. QED BY <1>4, <3>1, <3>3, <3>6, <3>7
  <2>. QED BY <1>7, <2>1, <2>2 DEF TFlushed
<1>8. CASE TEnd
  <2>1. batch # <<>> /\ batch' = Tail(batch) /\ queue' = queue
    BY <1>8 DEF TEnd, TypeOK
  <2>2. InMemory' \subseteq InMemory BY <1>2, <2>1 DEF InMemory
  <2>3. OnceInv' BY <1>1, <1>2, <2>1, <2>2 DEF OnceInv
  <2>4. PhaseInv' BY <1>1, <2>1 DEF PhaseInv
  <2>5. CASE ~IsLast(Head(batch))
    <3>1. UNCHANGED status BY <1>8, <2>5 DEF TEnd
    <3>. QED BY <1>4, <2>2, <2>3, <2>4, <3>1
  <2>6. CASE IsLast(Head(batch))
    <3>1. PICK b \in Blocks : Head(batch) = LastTx(b) BY <1>2, <1>3, <2>1, <2>6
    <3>2. status' = [status EXCEPT ![b] = "completed"]
      BY <1>8, <2>6, <3>1, LastOfBlock DEF TEnd, SetStatus
    <3>3. OnWay(b) BY <1>2, <2>1, <3>1 DEF OnWay, InMemory
    <3>4. status[b] = "processing" /\ pstage[b] = "none" BY <3>1, <3>3 DEF TOwns
    <3>5. ~OnWay(b)'
      <4>1. b \notin Elems(plast) /\ LastTx(b) \notin Elems(queue)
        BY <1>2, <2>1, <3>1 DEF OnceInv, InMemory
      <4>2. LastTx(b) \notin Elems(batch') BY <1>2, <2>1, <2>6, <3>1
      <4>. QED BY <1>1, <2>1, <4>1, <4>2 DEF OnWay, InMemory
    <3>6. DOwns' BY <1>1, <3>1, <3>2, <3>4 DEF DOwns, TypeOK
    <3>7. POwns' BY <1>1, <3>1, <3>2, <3>4 DEF POwns, TypeOK
    <3>8. TOwns'
      <4>1. \A c \in Blocks : OnWay(c)' => OnWay(c) /\ c # b
        BY <1>1, <2>2, <3>5 DEF OnWay
      <4>. QED BY <1>1, <3>1, <3>2, <4>1 DEF TOwns, TypeOK
    <3>9. COwns' BY <1>1, <3>1, <3>2, <3>4 DEF COwns, TypeOK
    <3>. QED BY <2>3, <2>4, <3>6, <3>7, <3>8, <3>9
  <2>. QED BY <2>5, <2>6
<1>9. CASE TEndFail
  <2>1. batch # <<>> /\ batch' = <<>> /\ queue' = queue /\ UNCHANGED status
    BY <1>9 DEF TEndFail, TypeOK
  <2>2. Elems(batch') = {} /\ Once(batch') BY <2>1, OnceEmpty
  <2>3. InMemory' \subseteq InMemory BY <2>1, <2>2 DEF InMemory
  <2>4. OnceInv' BY <1>1, <2>1, <2>2, <2>3 DEF OnceInv
  <2>5. PhaseInv' BY <1>1, <2>1 DEF PhaseInv
  <2>. QED BY <1>4, <2>1, <2>3, <2>4, <2>5
<1>10. ASSUME NEW tbl, NEW chunk, TChunk(tbl, chunk)
       PROVE  DOwns' /\ POwns' /\ TOwns' /\ COwns' /\ PhaseInv' /\ OnceInv'
  <2>1. UNCHANGED <<queue, batch, status>> BY <1>10 DEF TChunk
  <2>2. InMemory' = InMemory BY <2>1 DEF InMemory
  <2>3. OnceInv' BY <1>1, <2>1, WaySame
  <2>4. PhaseInv' BY <1>1, <2>1 DEF PhaseInv
  <2>. QED BY <1>4, <2>1, <2>2, <2>3, <2>4
<1>. QED BY <1>5, <1>6, <1>7, <1>8, <1>9, <1>10 DEF TNext

LEMMA POwn ==
    ASSUME TypeOK, DOwns, POwns, TOwns, COwns, PhaseInv, OnceInv, PNext, faults'["early"] = 0
    PROVE  DOwns' /\ POwns' /\ TOwns' /\ COwns' /\ PhaseInv' /\ OnceInv'
<1>. USE DEF db, disk, dvars, tvars, cvars
<1>1. UNCHANGED <<batch, dstage, cstage>>
  BY DEF PNext, PBoot, PSelect, PEnd, PSelectAgain, PStart, PReset, PMark, PSave, PFail
<1>2. ASSUME UNCHANGED status PROVE DOwns' /\ COwns'
  BY <1>1, <1>2 DEF DOwns, COwns
<1>3. CASE PBoot
  <2>1. UNCHANGED <<status, plast, queue>> BY <1>3 DEF PBoot
  <2>2. OnceInv' /\ \A b : OnWay(b)' = OnWay(b) BY <1>1, <2>1, WaySame
  <2>3. \A b : ~OnWay(b)
    BY <1>3, OnceEmpty DEF PBoot, PhaseInv, OnWay, InMemory
  <2>4. POwns' /\ TOwns' BY <1>3, <2>1, <2>2, <2>3 DEF PBoot, POwns, TOwns
  <2>5. PhaseInv' BY <1>1, <1>3, <2>1 DEF PBoot, PhaseInv
  <2>. QED BY <1>2, <2>1, <2>2, <2>4, <2>5
<1>4. CASE PSelect
  <2>1. UNCHANGED <<status, plast, queue>> BY <1>4 DEF PSelect
  <2>2. OnceInv' /\ \A b : OnWay(b)' = OnWay(b) BY <1>1, <2>1, WaySame
  <2>3. \A b \in Blocks : pstage'[b] # "none" => pstage'[b] = "todo" /\ status[b] = "downloaded"
    BY <1>4 DEF PSelect, PPage, WithStatus
  <2>4. \A b \in Blocks : pstage'[b] \in {"none", "todo"} BY <1>4 DEF PSelect
  <2>5. POwns' BY <2>1, <2>3 DEF POwns
  <2>6. TOwns' BY <2>1, <2>2, <2>3, <2>4 DEF TOwns
  <2>7. PhaseInv' BY <1>4 DEF PSelect, PhaseInv
  <2>. QED BY <1>2, <2>1, <2>2, <2>5, <2>6, <2>7
<1>5. CASE PEnd
  <2>. DEFINE l == [k \in 1..Len(plast) |-> LastTx(plast[k])]
  <2>1. UNCHANGED <<status, pstage>> /\ queue' = queue \o l /\ plast' = <<>>
        /\ pphase' = "idle" /\ \A b \in Blocks : pstage[b] = "none"
    BY <1>5 DEF PEnd, Idle
  <2>2. l \in Seq(AllTx) /\ Len(l) = Len(plast) /\ Elems(l) = {LastTx(b) : b \in Elems(plast)}
    BY LastsSeq DEF TypeOK
  <2>3. \A k \in 1..Len(l) : l[k] = LastTx(plast[k]) /\ plast[k] \in Blocks
    BY <2>2, ElementOfSeq, LenProperties DEF TypeOK
  <2>4. Once(l)
    <3>1. \A i, j \in 1..Len(plast) : LastTx(plast[i]) = LastTx(plast[j]) => i = j
      BY <2>2, <2>3, LastOfBlock DEF OnceInv
    <3>. QED BY <2>2, <2>3, <3>1 DEF Once
  <2>. HIDE DEF l
  <2>5. Elems(queue') = Elems(queue) \cup Elems(l) BY <2>1, <2>2, ElemsConcat DEF TypeOK
  <2>6. Elems(plast) \subseteq Blocks BY ElementOfSeq, LenProperties DEF TypeOK, Elems
  <2>7. \A b \in Blocks : LastTx(b) \in Elems(l) => b \in Elems(plast)
    BY <2>2, <2>6, LastOfBlock
  <2>8. \A x \in Elems(queue) : IsLast(x) => x \notin Elems(l)
    BY <2>2, <2>6 DEF OnceInv, InMemory
  <2>9. Once(queue') BY <2>1, <2>2, <2>4, <2>8, OnceConcat DEF OnceInv, TypeOK
  <2>10. Elems(plast') = {} /\ Len(plast') = 0 BY <2>1, OnceEmpty
  <2>11. OnceInv'
    <3>1. \A b \in Blocks : ~(LastTx(b) \in Elems(queue') /\ LastTx(b) \in Elems(batch'))
      BY <1>1, <2>5, <2>7 DEF OnceInv, InMemory
    <3>. QED BY <1>1, <2>9, <2>10, <3>1 DEF OnceInv
  <2>12. \A b \in Blocks : OnWay(b)' => OnWay(b)
    BY <1>1, <2>5, <2>7, <2>10 DEF OnWay, InMemory
  <2>13. POwns' /\ TOwns' BY <2>1, <2>12 DEF POwns, TOwns
  <2>14. PhaseInv' BY <2>1 DEF PhaseInv
  <2>. QED BY <1>2, <2>1, <2>11, <2>13, <2>14
<1>6. ASSUME NEW b \in Blocks, PSelectAgain(b)
      PROVE  DOwns' /\ POwns' /\ TOwns' /\ COwns' /\ PhaseInv' /\ OnceInv'
  <2>1. UNCHANGED <<status, plast, queue>> /\ pphase = "idle" /\ pphase' = "pool"
        /\ pstage' = [pstage EXCEPT ![b] = "todo"] /\ status[b] = "processing"
    BY <1>6 DEF PSelectAgain
  <2>2. OnceInv' /\ \A c : OnWay(c)' = OnWay(c) BY <1>1, <2>1, WaySame
  <2>3. Txs(b) \cap InMemory = {}
    BY <1>6 DEF PSelectAgain, Fault, TypeOK, FaultKinds
  <2>4. ~OnWay(b)
    <3>1. plast = <<>> BY <2>1 DEF PhaseInv
    <3>. QED BY <2>3, <3>1, LastTxType, OnceEmpty DEF OnWay
  <2>5. POwns' BY <2>1 DEF POwns, TypeOK
  <2>6. TOwns' BY <2>1, <2>2, <2>4 DEF TOwns, TypeOK
  <2>7. PhaseInv' BY <2>1 DEF PhaseInv
  <2>. QED BY <1>2, <2>1, <2>2, <2>5, <2>6, <2>7
<1>7. ASSUME NEW b \in Blocks, PStart(b) \/ PFail(b)
      PROVE  DOwns' /\ POwns' /\ TOwns' /\ COwns' /\ PhaseInv' /\ OnceInv'
  <2>1. /\ UNCHANGED <<status, plast, queue, pphase>> /\ pphase \in {"pool", "pending"}
        /\ pstage[b] \in {"todo", "reset", "mark"}
        /\ \E s \in {"none", "reset", "mark"} : pstage' = [pstage EXCEPT ![b] = s]
    BY <1>7 DEF PStart, PTurn, Lowest, PFail
  <2>2. OnceInv' /\ \A c : OnWay(c)' = OnWay(c) BY <1>1, <2>1, WaySame
  <2>3. ~OnWay(b) BY <2>1 DEF TOwns
  <2>4. POwns' BY <2>1 DEF POwns, TypeOK
  <2>5. TOwns' BY <2>1, <2>2, <2>3 DEF TOwns, TypeOK
  <2>6. PhaseInv' BY <1>1, <2>1 DEF PhaseInv
  <2>. QED BY <1>2, <2>1, <2>2, <2>4, <2>5, <2>6
<1>8. ASSUME NEW b \in Blocks, PReset(b)
      PROVE  DOwns' /\ POwns' /\ TOwns' /\ COwns' /\ PhaseInv' /\ OnceInv'
  <2>1. /\ UNCHANGED <<plast, queue, pphase>> /\ pstage[b] = "reset"
        /\ pstage' = [pstage EXCEPT ![b] = "none"]
        /\ status' = [status EXCEPT ![b] = "nostart"]
    BY <1>8 DEF PReset, SetStatus
  <2>2. OnceInv' /\ \A c : OnWay(c)' = OnWay(c) BY <1>1, <2>1, WaySame
  <2>3. ~OnWay(b) /\ status[b] \in {"downloaded", "processing"} BY <2>1 DEF TOwns, POwns
  <2>4. DOwns' BY <1>1, <2>1, <2>3 DEF DOwns, TypeOK
  <2>5. POwns' BY <2>1 DEF POwns, TypeOK
  <2>6. TOwns' BY <2>1, <2>2, <2>3 DEF TOwns, TypeOK
  <2>7. COwns' BY <1>1, <2>1, <2>3 DEF COwns, TypeOK
  <2>8. PhaseInv' BY <1>1, <2>1 DEF PhaseInv
  <2>. QED BY <2>2, <2>4, <2>5, <2>6, <2>7, <2>8
<1>9. ASSUME NEW b \in Blocks, PMark(b)
      PROVE  DOwns' /\ POwns' /\ TOwns' /\ COwns' /\ PhaseInv' /\ OnceInv'
  <2>1. /\ UNCHANGED <<plast, pphase>> /\ pstage[b] = "mark"
        /\ pstage' = [pstage EXCEPT ![b] = "save"]
        /\ status' = [status EXCEPT ![b] = "processing"]
        /\ queue' = queue \o Burst(b)
    BY <1>9 DEF PMark, SetStatus
  <2>2. ~OnWay(b) /\ status[b] \in {"downloaded", "processing"} BY <2>1 DEF TOwns, POwns
  <2>3. /\ Burst(b) \in Seq(AllTx) /\ Len(Burst(b)) = NumTx[b] - 1
        /\ \A k \in 1..(NumTx[b] - 1) : Burst(b)[k] = <<b, k>>
    BY BurstSeq
  <2>4. \A k \in 1..Len(Burst(b)) : ~IsLast(Burst(b)[k])
    <3>1. NumTx[b] \in Nat \ {0} BY BlockIndexAssumption
    <3>. QED BY <2>3, <3>1 DEF IsLast, LastTx
  <2>5. Once(Burst(b)) /\ \A x \in Elems(Burst(b)) : ~IsLast(x)
    BY <2>4 DEF Once, Elems
  <2>6. Elems(queue') = Elems(queue) \cup Elems(Burst(b)) BY <2>1, <2>3, ElemsConcat DEF TypeOK
  <2>7. Once(queue') BY <2>1, <2>3, <2>5, OnceConcat DEF OnceInv, TypeOK
  <2>8. \A c \in Blocks : LastTx(c) \in Elems(queue') <=> LastTx(c) \in Elems(queue)
    BY <2>5, <2>6, LastOfBlock
  <2>9. OnceInv' BY <1>1, <2>1, <2>7, <2>8 DEF OnceInv, InMemory
  <2>10. \A c \in Blocks : OnWay(c)' => OnWay(c) BY <1>1, <2>1, <2>8 DEF OnWay, InMemory
  <2>11. DOwns' BY <1>1, <2>1, <2>2 DEF DOwns, TypeOK
  <2>12. POwns' BY <2>1 DEF POwns, TypeOK
  <2>13. TOwns' BY <2>1, <2>2, <2>10 DEF TOwns, TypeOK
  <2>14. COwns' BY <1>1, <2>1, <2>2 DEF COwns, TypeOK
  <2>15. PhaseInv' BY <1>1, <2>1 DEF PhaseInv
  <2>. QED BY <2>9, <2>11, <2>12, <2>13, <2>14, <2>15
<1>10. ASSUME NEW b \in Blocks, PSave(b)
       PROVE  DOwns' /\ POwns' /\ TOwns' /\ COwns' /\ PhaseInv' /\ OnceInv'
  <2>1. /\ UNCHANGED pphase /\ pstage[b] = "save"
        /\ pstage' = [pstage EXCEPT ![b] = "none"]
        /\ IF pphase = "pool"
           THEN plast' = Append(plast, b) /\ UNCHANGED queue
           ELSE queue' = Append(queue, LastTx(b)) /\ UNCHANGED plast
    BY <1>10 DEF PSave
  <2>2. ~OnWay(b) /\ status[b] = "processing" BY <2>1 DEF TOwns, POwns
  <2>3. UNCHANGED status
    <3>1. status' = status \/ status' = [status EXCEPT ![b] = "processing"]
      BY <1>10 DEF PSave, SetStatus
    <3>. QED BY <2>2, <3>1 DEF TypeOK
  <2>4. LastTx(b) \in AllTx BY LastTxType
  <2>5. LastTx(b) \notin InMemory /\ b \notin Elems(plast) BY <2>2 DEF OnWay
  <2>6. POwns' BY <2>1, <2>3 DEF POwns, TypeOK
  <2>7. PhaseInv' BY <1>1, <2>1 DEF PhaseInv
  <2>8. CASE pphase = "pool"
    <3>0. plast' = Append(plast, b) /\ plast \in Seq(Blocks) BY <2>1, <2>8 DEF TypeOK
    <3>1. Elems(plast') = Elems(plast) \cup {b} BY <3>0, ElemsAppend
    <3>2. UNCHANGED queue BY <2>1, <2>8
    <3>3. \A i, j \in 1..Len(plast') : plast'[i] = plast'[j] => i = j
      <4>1. /\ Len(plast') = Len(plast) + 1 /\ Len(plast) \in Nat
            /\ plast'[Len(plast) + 1] = b
            /\ \A i \in 1..Len(plast) : plast'[i] = plast[i] /\ plast[i] # b
        BY <2>1, <2>5, <2>8, AppendProperties, LenProperties DEF TypeOK, Elems
      <4>. QED BY <4>1 DEF OnceInv
    <3>4. OnceInv' BY <1>1, <2>5, <3>1, <3>2, <3>3 DEF OnceInv, InMemory
    <3>5. \A c \in Blocks : OnWay(c)' => OnWay(c) \/ c = b
      BY <1>1, <3>1, <3>2 DEF OnWay, InMemory
    <3>6. TOwns' BY <2>1, <2>2, <2>3, <3>5 DEF TOwns, TypeOK
    <3>. QED BY <1>2, <2>3, <2>6, <2>7, <3>4, <3>6
  <2>9. CASE pphase # "pool"
    <3>0. queue' = Append(queue, LastTx(b)) /\ queue \in Seq(AllTx) BY <2>1, <2>9 DEF TypeOK
    <3>1. Elems(queue') = Elems(queue) \cup {LastTx(b)} BY <2>4, <3>0, ElemsAppend
    <3>2. UNCHANGED plast /\ plast = <<>> BY <2>1, <2>9 DEF PhaseInv
    <3>3. Once(queue')
      <4>1. Once(queue) /\ LastTx(b) \notin Elems(queue) BY <2>5 DEF OnceInv, InMemory
      <4>. QED BY <2>4, <3>0, <4>1, OnceAppend
    <3>4. OnceInv'
      <4>1. Elems(plast') = {} /\ Len(plast') = 0 BY <3>2, OnceEmpty
      <4>2. \A c \in Blocks : ~(LastTx(c) \in Elems(queue') /\ LastTx(c) \in Elems(batch'))
        BY <1>1, <2>5, <3>1, LastOfBlock DEF OnceInv, InMemory
      <4>. QED BY <1>1, <3>3, <4>1, <4>2 DEF OnceInv
    <3>5. \A c \in Blocks : OnWay(c)' => OnWay(c) \/ c = b
      BY <1>1, <3>1, <3>2, LastOfBlock DEF OnWay, InMemory
    <3>6. TOwns' BY <2>1, <2>2, <2>3, <3>5 DEF TOwns, TypeOK
    <3>. QED BY <1>2, <2>3, <2>6, <2>7, <3>4, <3>6
  <2>. QED BY <2>8, <2>9
<1>. QED BY <1>3, <1>4, <1>5, <1>6, <1>7, <1>8, <1>9, <1>10 DEF PNext

LEMMA OwnStep ==
    ASSUME TypeOK, OwnInv, [Next]_vars
    PROVE  OwnInv'
<1>. SUFFICES ASSUME faults'["early"] = 0
              PROVE  DOwns' /\ POwns' /\ TOwns' /\ COwns' /\ PhaseInv' /\ OnceInv'
  BY DEF OwnInv
<1>1. DOwns /\ POwns /\ TOwns /\ COwns /\ PhaseInv /\ OnceInv
  BY Kept DEF OwnInv, FaultKinds
<1>2. CASE Crash
  <2>1. /\ UNCHANGED status /\ pphase' = "boot"
        /\ queue' = <<>> /\ batch' = <<>> /\ plast' = <<>>
        /\ \A b \in Blocks : dstage'[b] = "none" /\ pstage'[b] = "none" /\ cstage'[b] = "none"
    BY <1>2 DEF Crash, db
  <2>2. Elems(queue') = {} /\ Elems(batch') = {} /\ Elems(plast') = {}
        /\ Once(queue') /\ Once(batch') /\ Len(plast') = 0
    BY <2>1, OnceEmpty
  <2>3. OnceInv' BY <2>2 DEF OnceInv
  <2>4. \A b : ~OnWay(b)' BY <2>2 DEF OnWay, InMemory
  <2>. QED BY <2>1, <2>3, <2>4 DEF DOwns, POwns, TOwns, COwns, PhaseInv
<1>3. CASE RmNext \/ UNCHANGED vars
  <2>1. UNCHANGED <<status, dstage, pphase, pstage, plast, queue, batch, cstage>>
    BY <1>3 DEF RmNext, RmFile, vars, db, dvars, pvars, tvars, cvars
  <2>2. (OnceInv => OnceInv') /\ \A b : OnWay(b)' = OnWay(b) BY <2>1, WaySame
  <2>. QED BY <1>1, <2>1, <2>2 DEF DOwns, POwns, TOwns, COwns, PhaseInv
<1>. QED BY <1>1, <1>2, <1>3, DOwn, POwn, TOwn, COwn DEF Next

-----------------------------------------------------------------------------
(* Counts.                                                                 *)

LEMMA BlockCard ==
    ASSUME NEW b \in Blocks
    PROVE  /\ Cardinality(Txs(b)) = NumTx[b]
           /\ Cardinality({t \in Txs(b) : t[2] # 1}) = NumTx[b] - 1
<1>1. NumTx[b] \in Nat \ {0} BY BlockIndexAssumption
<1>2. IsFiniteSet(1..NumTx[b]) /\ Cardinality(1..NumTx[b]) = NumTx[b]
  BY <1>1, FS_Interval
<1>3. IsFiniteSet({b}) /\ Cardinality({b}) = 1 BY FS_Singleton
<1>4. IsFiniteSet(Txs(b)) /\ Cardinality(Txs(b)) = NumTx[b]
  <2>1. /\ IsFiniteSet(Txs(b))
        /\ Cardinality(Txs(b)) = Cardinality({b}) * Cardinality(1..NumTx[b])
    BY <1>2, <1>3, FS_Product DEF Txs
  <2>2. 1 * NumTx[b] = NumTx[b] BY <1>1
  <2>. QED BY <1>2, <1>3, <2>1, <2>2
<1>5. {t \in Txs(b) : t[2] # 1} = Txs(b) \ {<<b, 1>>} BY DEF Txs
<1>6. <<b, 1>> \in Txs(b) BY <1>1 DEF Txs
<1>. QED BY <1>1, <1>4, <1>5, <1>6, FS_RemoveElement

LEMMA CoinbaseStep ==
    ASSUME TypeOK, NoCoinbase, [Next]_vars
    PROVE  NoCoinbase'
<1>. USE DEF db, disk, dvars, pvars, tvars, cvars
<1>1. CASE UNCHANGED <<rows, tleft>> BY <1>1 DEF NoCoinbase
<1>2. CASE DNext \/ PNext
  BY <1>1, <1>2 DEF DNext, DCount, DSelect, DStart, DRpc, DRpcFail, DDone, DFail,
     PNext, PBoot, PSelect, PEnd, PSelectAgain, PStart, PReset, PMark, PSave, PFail
<1>3. CASE CNext \/ RmNext \/ UNCHANGED vars
  BY <1>1, <1>3 DEF CNext, CGate, CList, CStart, CRead, CDecide, CTick, CFail,
     RmNext, RmFile, vars
<1>4. CASE Crash BY <1>4 DEF Crash, NoCoinbase, Tables
<1>5. CASE TTake
  <2>1. CASE UNCHANGED tleft BY <1>1, <1>5, <2>1 DEF TTake
  <2>2. CASE tleft' = [tbl \in Tables |-> RowsIn(tbl, Elems(batch'))]
    BY <1>5, <2>2 DEF TTake, NoCoinbase, Tables, RowsIn
  <2>. QED BY <1>5, <2>1, <2>2 DEF TTake
<1>6. ASSUME NEW tbl \in Tables, NEW chunk \in SUBSET tleft[tbl], TChunk(tbl, chunk)
      PROVE  NoCoinbase'
  BY <1>6 DEF TChunk, NoCoinbase, TypeOK, Tables
<1>7. CASE TThrow \/ TFlushed \/ TEnd \/ TEndFail
  BY <1>1, <1>7 DEF TThrow, TFlushed, TEnd, TEndFail
<1>. QED BY <1>2, <1>3, <1>4, <1>5, <1>6, <1>7 DEF Next, TNext

LEMMA CountStep ==
    ASSUME TypeOK, NoCoinbase, StoredInv, CountInv, [Next]_vars
    PROVE  CountInv'
<1>. USE DEF db, disk, dvars, pvars, tvars, cvars
<1>. SUFFICES ASSUME faults'["save"] = 0, faults'["decode"] = 0,
                     NEW b \in Blocks
              PROVE  /\ cread'[b]["sum"] \in {-1, NumTx[b]}
                     /\ cread'[b]["ins"] \in {-1, NumTx[b] - 1}
                     /\ cread'[b]["outs"] \in {-1, NumTx[b]}
  BY DEF CountInv
<1>1. faults["save"] = 0 /\ faults["decode"] = 0 BY Kept DEF FaultKinds
<1>2. /\ cread[b]["sum"] \in {-1, NumTx[b]}
      /\ cread[b]["ins"] \in {-1, NumTx[b] - 1}
      /\ cread[b]["outs"] \in {-1, NumTx[b]}
  BY <1>1 DEF CountInv
<1>3. CASE UNCHANGED cread BY <1>2, <1>3
<1>4. CASE \A c \in Blocks : cread'[c] \in {cread[c], NoRead}
  <2>1. cread'[b] = cread[b] \/ cread'[b] = NoRead BY <1>4
  <2>. QED BY <1>2, <2>1 DEF NoRead
<1>5. ASSUME NEW c \in Blocks, NEW q \in DOMAIN NoRead, CRead(c, q)
      PROVE  /\ cread'[b]["sum"] \in {-1, NumTx[b]}
             /\ cread'[b]["ins"] \in {-1, NumTx[b] - 1}
             /\ cread'[b]["outs"] \in {-1, NumTx[b]}
  <2>1. CASE b # c
    <3>1. cread'[b] = cread[b] BY <1>5, <2>1 DEF CRead, TypeOK
    <3>. QED BY <1>2, <3>1
  <2>2. CASE b = c
    <3>1. \A t \in Txs(b) : Fully(t)
      BY <1>1, <1>5, <2>2 DEF StoredInv, Claimed, CRead
    <3>2. TxRows(b) = Txs(b) BY <3>1 DEF TxRows, Fully, RowsIn, Tables
    <3>3. Txs(b) \cap rows["tx_out"] = Txs(b) BY <3>1 DEF Fully, RowsIn, Tables
    <3>4. Txs(b) \cap rows["tx_in"] = {t \in Txs(b) : t[2] # 1}
      BY <3>1 DEF Fully, RowsIn, Tables, NoCoinbase
    <3>5. cread'[b] = [cread[b] EXCEPT ![q] =
            Cardinality(CASE q = "sum"  -> TxRows(b)
                          [] q = "ins"  -> TxRows(b) \cap rows["tx_in"]
                          [] q = "outs" -> TxRows(b) \cap rows["tx_out"])]
      BY <1>5, <2>2 DEF CRead, TypeOK
    <3>6. cread[b] \in [{"sum", "ins", "outs"} -> Int] BY DEF TypeOK
    <3>7. CASE q = "sum"
      <4>1. cread'[b] = [cread[b] EXCEPT !["sum"] = NumTx[b]]
        BY <3>2, <3>5, <3>7, BlockCard
      <4>. QED BY <1>2, <3>6, <4>1
    <3>8. CASE q = "ins"
      <4>1. cread'[b] = [cread[b] EXCEPT !["ins"] = NumTx[b] - 1]
        BY <3>2, <3>4, <3>5, <3>8, BlockCard
      <4>. QED BY <1>2, <3>6, <4>1
    <3>9. CASE q = "outs"
      <4>1. cread'[b] = [cread[b] EXCEPT !["outs"] = NumTx[b]]
        BY <3>2, <3>3, <3>5, <3>9, BlockCard
      <4>. QED BY <1>2, <3>6, <4>1
    <3>. QED BY <3>7, <3>8, <3>9 DEF NoRead
  <2>. QED BY <2>1, <2>2
<1>6. CASE DNext \/ PNext
  BY <1>3, <1>6 DEF DNext, DCount, DSelect, DStart, DRpc, DRpcFail, DDone, DFail,
     PNext, PBoot, PSelect, PEnd, PSelectAgain, PStart, PReset, PMark, PSave, PFail
<1>7. CASE TNext \/ RmNext \/ UNCHANGED vars
  BY <1>3, <1>7 DEF TNext, TTake, TThrow, TFlushed, TEnd, TEndFail, TChunk, RmNext, RmFile, vars
<1>8. CASE Crash BY <1>4, <1>8 DEF Crash
<1>9. ASSUME NEW c \in Blocks, CDecide(c) \/ CFail(c)
      PROVE  \A d \in Blocks : cread'[d] \in {cread[d], NoRead}
  BY <1>9 DEF CDecide, CFail, TypeOK
<1>10. CASE CNext
  BY <1>3, <1>4, <1>5, <1>9, <1>10 DEF CNext, CGate, CList, CStart, CTick
<1>. QED BY <1>6, <1>7, <1>8, <1>10 DEF Next

-----------------------------------------------------------------------------
(***************************************************************************)
(* The refinement.  Stored is what Rows calls whole.                       *)
(***************************************************************************)

Stored == {b \in Blocks : \A t \in Txs(b) : Fully(t)}
Lossless == faults["save"] = 0 /\ faults["decode"] = 0
Single == faults["early"] = 0

RowInv == TypeOK /\ FlushInv /\ StoredInv /\ OwnInv /\ NoCoinbase /\ CountInv

LEMMA RowInvAlways == Spec => []RowInv
<1>1. Init => RowInv
  <2>1. Init => NoCoinbase BY DEF Init, NoCoinbase, Tables
  <2>2. Init => CountInv BY DEF Init, CountInv, NoRead
  <2>. QED BY <2>1, <2>2, InitType, InitInv, InitOwn DEF RowInv
<1>2. RowInv /\ [Next]_vars => RowInv'
  BY NextType, FlushStep, StoredStep, OwnStep, CoinbaseStep, CountStep DEF RowInv
<1>. QED BY <1>1, <1>2, PTL DEF Spec

LEMMA InitRow == Init => Rows!Init
<1>. SUFFICES ASSUME Init PROVE Rows!Init OBVIOUS
<1>1. ASSUME NEW b \in Blocks PROVE ~(\A t \in Txs(b) : Fully(t))
  <2>1. rows["tx"] = {} BY DEF Init, Tables
  <2>2. ~Fully(LastTx(b)) BY <2>1 DEF Fully, RowsIn, Tables
  <2>. QED BY <2>2, LastTxType
<1>. QED BY <1>1 DEF Init, Rows!Init, FaultKinds

\* A step that leaves the rows of the block table alone is a stutter, or stores,
\* loses or repeats something.
LEMMA Silent ==
    ASSUME TypeOK, [Next]_vars, UNCHANGED status,
           \/ UNCHANGED rows /\ (UNCHANGED faults \/ \E k \in FaultKinds : Fault(k))
           \/ UNCHANGED faults
    PROVE  [Rows!Next]_Rows!vars
<1>. USE DEF Rows!vars
<1>1. CASE UNCHANGED faults
  <2>1. \A b \in Blocks : (\A t \in Txs(b) : Fully(t)) => (\A t \in Txs(b) : Fully(t)')
    BY Kept
  <2>2. Rows!Store BY <1>1, <2>1 DEF Rows!Store
  <2>. QED BY <2>2 DEF Rows!Next
<1>2. ASSUME UNCHANGED rows, NEW k \in FaultKinds, Fault(k) PROVE [Rows!Next]_Rows!vars
  <2>1. \A j \in FaultKinds : faults'[j] = IF j = k THEN faults[j] + 1 ELSE faults[j]
    BY <1>2 DEF Fault, TypeOK
  <2>2. Stored' = Stored BY <1>2 DEF Stored, Fully
  <2>3. CASE k \in {"save", "decode"}
    <3>1. Lossless' = FALSE /\ Single' = Single
      BY <2>1, <2>3 DEF Lossless, Single, TypeOK, FaultKinds
    <3>2. Rows!Lose BY <2>2, <3>1 DEF Rows!Lose, Lossless, Single, Stored
    <3>. QED BY <3>2 DEF Rows!Next
  <2>4. CASE k = "early"
    <3>1. Lossless' = Lossless /\ Single' = FALSE
      BY <2>1, <2>4 DEF Lossless, Single, TypeOK, FaultKinds
    <3>2. Rows!Repeat BY <2>2, <3>1 DEF Rows!Repeat, Lossless, Single, Stored
    <3>. QED BY <3>2 DEF Rows!Next
  <2>5. CASE k \notin {"save", "decode", "early"}
    <3>1. Lossless' = Lossless /\ Single' = Single
      BY <2>1, <2>5 DEF Lossless, Single, FaultKinds
    <3>. QED BY <2>2, <3>1 DEF Lossless, Single, Stored
  <2>. QED BY <2>3, <2>4, <2>5
<1>. QED BY <1>1, <1>2

\* A step that writes one status.
LEMMA Moves ==
    ASSUME UNCHANGED <<rows, faults>>, NEW b \in Blocks, NEW from, NEW to,
           status' = [status EXCEPT ![b] = to], Single => status[b] \in from
    PROVE  Rows!Move(b, from, to)
BY DEF Rows!Move, Fully, Single

\* The double check sends no stored block back.
LEMMA NoRefusal ==
    ASSUME RowInv, Lossless, NEW b \in Blocks, CDecide(b)
    PROVE  Pass(cread[b])
<1>1. /\ cread[b]["sum"] = NumTx[b] /\ cread[b]["ins"] = NumTx[b] - 1
      /\ cread[b]["outs"] = NumTx[b]
  BY DEF RowInv, CountInv, Lossless, CDecide, NoRead
<1>2. NumTx[b] \in Nat \ {0} BY BlockIndexAssumption
<1>. QED BY <1>1, <1>2 DEF Pass

LEMMA RowStep ==
    ASSUME RowInv, RowInv', [Next]_vars
    PROVE  [Rows!Next]_Rows!vars
<1>. USE DEF db, disk, dvars, pvars, tvars, cvars
<1>1. TypeOK BY DEF RowInv
<1>2. Single => DOwns /\ POwns /\ TOwns /\ COwns /\ PhaseInv /\ OnceInv
  BY DEF RowInv, OwnInv, Single
<1>3. ASSUME NEW b \in Blocks, DStart(b) PROVE Rows!Next
  <2>1. Single => status[b] \in {"nostart", "downloading"}
    BY <1>2, <1>3 DEF DStart, DTurn, Lowest, DOwns
  <2>2. Rows!Download(b)
    BY <1>3, <2>1, Moves DEF DStart, SetStatus, Rows!Download
  <2>. QED BY <2>2 DEF Rows!Next
<1>4. ASSUME NEW b \in Blocks, DDone(b) PROVE Rows!Next
  <2>1. Single => status[b] \in {"downloading"} BY <1>2, <1>4 DEF DDone, DOwns
  <2>2. Rows!Downloaded(b)
    BY <1>4, <2>1, Moves DEF DDone, SetStatus, Rows!Downloaded
  <2>. QED BY <2>2 DEF Rows!Next
<1>5. ASSUME NEW b \in Blocks, PReset(b) PROVE Rows!Next
  <2>1. Single => status[b] \in {"downloaded", "processing"} BY <1>2, <1>5 DEF PReset, POwns
  <2>2. Rows!Reject(b)
    BY <1>5, <2>1, Moves DEF PReset, SetStatus, Rows!Reject
  <2>. QED BY <2>2 DEF Rows!Next
<1>6. ASSUME NEW b \in Blocks, PMark(b) PROVE Rows!Next
  <2>1. Single => status[b] \in {"downloaded", "processing"} BY <1>2, <1>6 DEF PMark, POwns
  <2>2. Rows!Take(b)
    BY <1>6, <2>1, Moves DEF PMark, SetStatus, Rows!Take
  <2>. QED BY <2>2 DEF Rows!Next
<1>7. ASSUME NEW b \in Blocks, PSave(b) PROVE [Rows!Next]_Rows!vars
  <2>1. Single => status[b] \in {"downloaded", "processing"} BY <1>2, <1>7 DEF PSave, POwns
  <2>2. CASE SetStatus(b, "processing") /\ UNCHANGED faults
    <3>1. Rows!Take(b)
      BY <1>7, <2>1, <2>2, Moves DEF PSave, SetStatus, Rows!Take
    <3>. QED BY <3>1 DEF Rows!Next
  <2>3. CASE UNCHANGED status /\ Fault("stmt")
    BY <1>1, <1>7, <2>3, Silent DEF PSave, FaultKinds
  <2>. QED BY <1>7, <2>2, <2>3 DEF PSave
<1>8. CASE TEnd
  <2>1. CASE UNCHANGED status BY <1>1, <1>8, <2>1, Silent DEF TEnd
  <2>2. CASE ~UNCHANGED status
    <3>1. IsLast(Head(batch)) /\ Head(batch) \in Elems(batch) /\ Head(batch) \in AllTx
      <4>1. batch \in Seq(AllTx) /\ batch # <<>> BY <1>1, <1>8 DEF TEnd, TypeOK
      <4>2. IsLast(Head(batch)) BY <1>8, <2>2 DEF TEnd
      <4>. QED BY <4>1, <4>2, ElemsTail
    <3>2. PICK b \in Blocks : Head(batch) = LastTx(b)
      BY <3>1, AllTxElim, LastOfBlock
    <3>3. status' = [status EXCEPT ![b] = "completed"] /\ UNCHANGED <<rows, faults>>
      BY <1>8, <3>1, <3>2, LastOfBlock DEF TEnd, SetStatus
    <3>4. Single => status[b] \in {"processing"}
      BY <1>2, <3>1, <3>2 DEF TOwns, OnWay, InMemory
    <3>5. Lossless => \A t \in Txs(b) : Fully(t)
      <4>1. Claimed(b)' BY <1>1, <3>3 DEF Claimed, Finished, TypeOK
      <4>2. Lossless => \A t \in Txs(b) : Fully(t)'
        BY <3>3, <4>1 DEF Lossless, RowInv, StoredInv
      <4>. QED BY <3>3, <4>2 DEF Fully
    <3>6. Rows!Complete(b)
      BY <3>3, <3>4, <3>5, Moves DEF Rows!Complete, Lossless
    <3>. QED BY <3>6 DEF Rows!Next
  <2>. QED BY <2>1, <2>2
<1>9. ASSUME NEW b \in Blocks, CDecide(b) PROVE Rows!Next
  <2>1. Single => status[b] \in {"completed"} BY <1>2, <1>9 DEF CDecide, COwns
  <2>2. Lossless => \A t \in Txs(b) : Fully(t)
    BY <1>9 DEF CDecide, RowInv, StoredInv, Claimed, Lossless
  <2>3. CASE Pass(cread[b])
    <3>1. Rows!Pass(b)
      BY <1>9, <2>1, <2>2, <2>3, Moves DEF CDecide, SetStatus, Rows!Pass, Lossless
    <3>. QED BY <3>1 DEF Rows!Next
  <2>4. CASE ~Pass(cread[b])
    <3>1. ~Lossless BY <1>9, <2>4, NoRefusal
    <3>2. Rows!Refuse(b)
      BY <1>9, <2>1, <2>4, <3>1, Moves DEF CDecide, SetStatus, Rows!Refuse, Lossless
    <3>. QED BY <3>2 DEF Rows!Next
  <2>. QED BY <2>3, <2>4
<1>10. ASSUME NEW tbl \in Tables, NEW chunk, TChunk(tbl, chunk) PROVE [Rows!Next]_Rows!vars
  BY <1>1, <1>10, Silent DEF TChunk, FaultKinds
<1>11. CASE DCount \/ DSelect \/ \E b \in Blocks : DRpc(b) \/ DRpcFail(b) \/ DFail(b)
  BY <1>1, <1>11, Silent DEF DCount, DSelect, DRpc, DRpcFail, DFail, FaultKinds
<1>12. CASE PBoot \/ PSelect \/ PEnd
            \/ \E b \in Blocks : PSelectAgain(b) \/ PStart(b) \/ PFail(b)
  BY <1>1, <1>12, Silent DEF PBoot, PSelect, PEnd, PSelectAgain, PStart, PFail, FaultKinds
<1>13. CASE TTake \/ TThrow \/ TFlushed \/ TEndFail
  BY <1>1, <1>13, Silent DEF TTake, TThrow, TFlushed, TEndFail, FaultKinds
<1>14. CASE CGate \/ CList \/ \E b \in Blocks : \/ CStart(b) \/ CTick(b) \/ CFail(b)
                                              \/ \E q \in DOMAIN NoRead : CRead(b, q)
  BY <1>1, <1>14, Silent DEF CGate, CList, CStart, CTick, CFail, CRead, FaultKinds
<1>15. CASE RmNext \/ Crash \/ UNCHANGED vars
  BY <1>1, <1>15, Silent DEF RmNext, RmFile, Crash, vars, FaultKinds
<1>. QED
  BY <1>3, <1>4, <1>5, <1>6, <1>7, <1>8, <1>9, <1>10, <1>11, <1>12, <1>13, <1>14, <1>15
  DEF Next, DNext, PNext, TNext, CNext

\* Four daemons, a queue, files, crashes and failing statements behave like one row
\* after the other taking the steps of BlockRow.
THEOREM RowsImplemented == Spec => ImplementsBlockRow
<1>1. RowInv /\ RowInv' /\ [Next]_vars => [Rows!Next]_Rows!vars BY RowStep
<1>. QED BY <1>1, InitRow, RowInvAlways, PTL DEF Spec, ImplementsBlockRow, Rows!Spec

\* Unless a row was taken a second time too early, nothing takes a block back that
\* passed the double check.
THEOREM DoubleCheckFinal == Spec => DoubleCheckIsFinal
<1>1. ASSUME RowInv, RowInv', [Next]_vars
      PROVE  [\A b \in Blocks :
                status[b] = "doubleCheck" /\ faults["early"] = 0
                  => status'[b] = "doubleCheck"]_vars
  <2>1. CASE UNCHANGED status BY <2>1
  <2>2. ASSUME NEW c \in Blocks, NEW from, NEW to, "doubleCheck" \notin from,
               Rows!Move(c, from, to), NEW b \in Blocks,
               status[b] = "doubleCheck", faults["early"] = 0
        PROVE  status'[b] = "doubleCheck"
    <3>1. c # b BY <2>2 DEF Rows!Move
    <3>. QED BY <2>2, <3>1 DEF Rows!Move, RowInv, TypeOK
  <2>3. CASE Rows!Next
    BY <2>1, <2>2, <2>3 DEF Rows!Next, Rows!Download, Rows!Downloaded, Rows!Take, Rows!Reject,
       Rows!Complete, Rows!Pass, Rows!Refuse, Rows!Store, Rows!Lose, Rows!Repeat
  <2>. QED BY <1>1, <2>1, <2>3, RowStep DEF Rows!vars
<1>. QED BY <1>1, RowInvAlways, PTL DEF Spec, DoubleCheckIsFinal

-----------------------------------------------------------------------------
(***************************************************************************)
(* Files.  A pending fs.rm belongs to a block that is indexed, and such a  *)
(* block is not downloaded again.                                          *)
(***************************************************************************)

Calm == \A k \in {"stmt", "early", "save", "decode"} : faults[k] = 0

FileInv ==
    Calm => \A b \in Blocks :
        /\ b \in rmPending => Finished(b)
        /\ status[b] = "downloaded" \/ dstage[b] = "got" => file[b] # "none"

LEMMA FileStep ==
    ASSUME RowInv, FileInv, [Next]_vars
    PROVE  FileInv'
<1>. USE DEF db, disk, dvars, pvars, tvars, cvars
<1>. SUFFICES ASSUME Calm'
              PROVE  \A b \in Blocks :
                        /\ b \in rmPending' => Finished(b)'
                        /\ status'[b] = "downloaded" \/ dstage'[b] = "got" => file'[b] # "none"
  BY DEF FileInv
<1>1. TypeOK BY DEF RowInv
<1>2. Calm /\ Lossless BY <1>1, Kept DEF Calm, Lossless, FaultKinds
<1>3. DOwns /\ POwns /\ TOwns /\ COwns /\ PhaseInv /\ OnceInv
  BY <1>2 DEF Calm, RowInv, OwnInv
<1>4. \A b \in Blocks :
        /\ b \in rmPending => Finished(b)
        /\ status[b] = "downloaded" \/ dstage[b] = "got" => file[b] # "none"
  BY <1>2 DEF FileInv
<1>5. ~Fault("stmt") BY <1>1 DEF Calm, Fault, TypeOK, FaultKinds
<1>. DEFINE Good == \A b \in Blocks :
                        /\ b \in rmPending' => Finished(b)'
                        /\ status'[b] = "downloaded" \/ dstage'[b] = "got" => file'[b] # "none"
<1>6. CASE UNCHANGED <<status, rmPending, dstage, file>> BY <1>4, <1>6 DEF Finished
<1>7. CASE DNext
  <2>1. CASE DSelect BY <1>4, <2>1 DEF DSelect, Finished
  <2>2. ASSUME NEW b \in Blocks, DStart(b) PROVE Good
    <3>1. status[b] \in {"nostart", "downloading"} BY <1>3, <2>2 DEF DStart, DTurn, Lowest, DOwns
    <3>. QED BY <1>1, <1>4, <2>2, <3>1 DEF DStart, SetStatus, Finished, TypeOK
  <2>3. ASSUME NEW b \in Blocks, DRpc(b) PROVE Good
    BY <1>1, <1>4, <2>3 DEF DRpc, Finished, TypeOK
  <2>4. ASSUME NEW b \in Blocks, DRpcFail(b) PROVE Good
    BY <1>1, <1>4, <2>4 DEF DRpcFail, Finished, TypeOK
  <2>5. ASSUME NEW b \in Blocks, DDone(b) PROVE Good
    <3>1. status[b] = "downloading" BY <1>3, <2>5 DEF DDone, DOwns
    <3>. QED BY <1>1, <1>4, <2>5, <3>1 DEF DDone, SetStatus, Finished, TypeOK
  <2>6. ~(\E b \in Blocks : DFail(b)) BY <1>5 DEF DFail
  <2>. QED BY <1>6, <1>7, <2>1, <2>2, <2>3, <2>4, <2>5, <2>6 DEF DNext, DCount
<1>8. CASE PNext
  <2>1. ASSUME NEW b \in Blocks, NEW to \in {"nostart", "processing"},
               status' = [status EXCEPT ![b] = to],
               status[b] \in {"downloaded", "processing"},
               UNCHANGED <<rmPending, dstage, file>>
        PROVE  Good
    BY <1>1, <1>4, <2>1 DEF Finished, TypeOK
  <2>2. ASSUME NEW b \in Blocks, PReset(b) PROVE Good
    BY <1>3, <2>1, <2>2 DEF PReset, SetStatus, POwns
  <2>3. ASSUME NEW b \in Blocks, PMark(b) PROVE Good
    BY <1>3, <2>1, <2>3 DEF PMark, SetStatus, POwns
  <2>4. ASSUME NEW b \in Blocks, PSave(b) PROVE Good
    BY <1>3, <1>5, <2>1, <2>4 DEF PSave, SetStatus, POwns
  <2>. QED BY <1>6, <1>8, <2>2, <2>3, <2>4 DEF PNext, PBoot, PSelect, PEnd, PSelectAgain, PStart, PFail
<1>9. CASE TEnd
  <2>1. CASE UNCHANGED status /\ UNCHANGED rmPending BY <1>6, <1>9, <2>1 DEF TEnd
  <2>2. CASE IsLast(Head(batch))
    <3>1. Head(batch) \in Elems(batch) /\ Head(batch) \in AllTx
      <4>1. batch \in Seq(AllTx) /\ batch # <<>> BY <1>1, <1>9 DEF TEnd, TypeOK
      <4>. QED BY <4>1, ElemsTail
    <3>2. PICK b \in Blocks : Head(batch) = LastTx(b)
      BY <2>2, <3>1, AllTxElim, LastOfBlock
    <3>3. /\ status' = [status EXCEPT ![b] = "completed"]
          /\ rmPending' = rmPending \cup {b} /\ UNCHANGED <<dstage, file>>
      BY <1>9, <2>2, <3>2, LastOfBlock DEF TEnd, SetStatus
    <3>4. status[b] = "processing" BY <1>3, <3>1, <3>2 DEF TOwns, OnWay, InMemory
    <3>. QED BY <1>1, <1>4, <3>3, <3>4 DEF Finished, TypeOK
  <2>. QED BY <1>9, <2>1, <2>2 DEF TEnd
<1>10. CASE TTake \/ TThrow \/ TFlushed \/ TEndFail
            \/ \E tbl \in Tables : \E chunk \in SUBSET tleft[tbl] : TChunk(tbl, chunk)
  BY <1>6, <1>10 DEF TTake, TThrow, TFlushed, TEndFail, TChunk
<1>11. CASE CNext
  <2>1. ASSUME NEW b \in Blocks, CDecide(b) PROVE Good
    <3>1. status' = [status EXCEPT ![b] = "doubleCheck"]
      BY <1>2, <2>1, NoRefusal DEF CDecide, SetStatus
    <3>. QED BY <1>1, <1>4, <2>1, <3>1 DEF CDecide, Finished, TypeOK
  <2>. QED BY <1>6, <1>11, <2>1 DEF CNext, CGate, CList, CStart, CRead, CTick, CFail
<1>12. ASSUME NEW b \in Blocks, RmFile(b) PROVE Good
  <2>1. Finished(b) BY <1>4, <1>12 DEF RmFile
  <2>2. status[b] # "downloaded" /\ dstage[b] # "got" BY <1>3, <2>1 DEF Finished, DOwns
  <2>. QED BY <1>1, <1>4, <1>12, <2>2 DEF RmFile, Finished, TypeOK
<1>13. CASE Crash BY <1>4, <1>13 DEF Crash
<1>14. CASE UNCHANGED vars BY <1>6, <1>14 DEF vars
<1>. QED BY <1>7, <1>8, <1>9, <1>10, <1>11, <1>12, <1>13, <1>14 DEF Next, TNext, RmNext

\* A row marked downloaded has its file, however late the fs.rm of an earlier
\* download runs.
THEOREM DownloadedFile == Spec => []DownloadedHasFile
<1>1. Init => FileInv BY DEF Init, FileInv
<1>2. RowInv /\ FileInv /\ [Next]_vars => FileInv' BY FileStep
<1>3. FileInv => DownloadedHasFile BY DEF FileInv, Calm, DownloadedHasFile
<1>. QED BY <1>1, <1>2, <1>3, RowInvAlways, PTL DEF Spec

-----------------------------------------------------------------------------
(***************************************************************************)
(* Memory.  T takes from the front of one sequence, the batch and behind   *)
(* it the queue, and P only adds to its end blocks of which it has nothing *)
(* yet.  So a transaction is in it once, and nothing of a block comes      *)
(* behind its last transaction, which is when the row is written.          *)
(***************************************************************************)

Held == batch \o queue

Ordered(s) ==
    \A i, j \in 1..Len(s) :
        i < j => s[i] # s[j] /\ ~(IsLast(s[i]) /\ s[j][1] = s[i][1])

HeldOwns ==
    \A t \in InMemory : status[t[1]] = "processing" /\ pstage[t[1]] \in {"none", "save"}

HeldInv ==
    faults["early"] = 0 /\ faults["save"] = 0 => ~tfailed /\ Ordered(Held) /\ HeldOwns

LEMMA OrderedDrop ==
    ASSUME NEW s \in Seq(AllTx), NEW u \in Seq(AllTx), NEW n \in Nat, Ordered(s),
           Len(s) = Len(u) + n, \A i \in 1..Len(u) : u[i] = s[i + n]
    PROVE  Ordered(u)
<1>. SUFFICES ASSUME NEW i \in 1..Len(u), NEW j \in 1..Len(u), i < j
              PROVE  u[i] # u[j] /\ ~(IsLast(u[i]) /\ u[j][1] = u[i][1])
  BY DEF Ordered
<1>1. Len(u) \in Nat /\ Len(s) \in Nat BY LenProperties
<1>2. i + n \in 1..Len(s) /\ j + n \in 1..Len(s) /\ i + n < j + n BY <1>1
<1>3. u[i] = s[i + n] /\ u[j] = s[j + n] OBVIOUS
<1>. QED BY <1>2, <1>3 DEF Ordered

LEMMA OrderedConcat ==
    ASSUME NEW s \in Seq(AllTx), NEW u \in Seq(AllTx), Ordered(s), Ordered(u),
           \A x \in Elems(s), y \in Elems(u) : x # y /\ ~(IsLast(x) /\ y[1] = x[1])
    PROVE  Ordered(s \o u)
<1>1. /\ Len(s \o u) = Len(s) + Len(u) /\ Len(s) \in Nat /\ Len(u) \in Nat
      /\ \A i \in 1..Len(s) + Len(u) :
            (s \o u)[i] = IF i <= Len(s) THEN s[i] ELSE u[i - Len(s)]
  BY ConcatProperties, LenProperties
<1>. SUFFICES ASSUME NEW i \in 1..Len(s \o u), NEW j \in 1..Len(s \o u), i < j
              PROVE  /\ (s \o u)[i] # (s \o u)[j]
                     /\ ~(IsLast((s \o u)[i]) /\ (s \o u)[j][1] = (s \o u)[i][1])
  BY DEF Ordered
<1>2. CASE j <= Len(s)
  <2>1. i \in 1..Len(s) /\ j \in 1..Len(s) /\ (s \o u)[i] = s[i] /\ (s \o u)[j] = s[j]
    BY <1>1, <1>2
  <2>. QED BY <2>1 DEF Ordered
<1>3. CASE i > Len(s)
  <2>1. /\ i - Len(s) \in 1..Len(u) /\ j - Len(s) \in 1..Len(u) /\ i - Len(s) < j - Len(s)
        /\ (s \o u)[i] = u[i - Len(s)] /\ (s \o u)[j] = u[j - Len(s)]
    BY <1>1, <1>3
  <2>. QED BY <2>1 DEF Ordered
<1>4. CASE i <= Len(s) /\ j > Len(s)
  <2>1. i \in 1..Len(s) /\ j - Len(s) \in 1..Len(u)
        /\ (s \o u)[i] = s[i] /\ (s \o u)[j] = u[j - Len(s)]
    BY <1>1, <1>4
  <2>2. s[i] \in Elems(s) /\ u[j - Len(s)] \in Elems(u) BY <2>1 DEF Elems
  <2>. QED BY <2>1, <2>2
<1>. QED BY <1>1, <1>2, <1>3, <1>4

LEMMA HeldSeq ==
    ASSUME NEW a \in Seq(AllTx), NEW q \in Seq(AllTx)
    PROVE  /\ a \o q \in Seq(AllTx) /\ Elems(a \o q) = Elems(a) \cup Elems(q)
           /\ Elems(a) \subseteq AllTx /\ Elems(q) \subseteq AllTx
           /\ Len(a \o q) = Len(a) + Len(q) /\ Len(a) \in Nat /\ Len(q) \in Nat
           /\ \A i \in 1..Len(a) + Len(q) :
                 (a \o q)[i] = IF i <= Len(a) THEN a[i] ELSE q[i - Len(a)]
<1>1. Elems(a) \subseteq AllTx /\ Elems(q) \subseteq AllTx
  BY ElementOfSeq, LenProperties DEF Elems
<1>. QED BY <1>1, ElemsConcat, ConcatProperties, LenProperties

LEMMA HeldFacts ==
    /\ TypeOK => Held \in Seq(AllTx) /\ Elems(Held) = InMemory /\ InMemory \subseteq AllTx
    /\ TypeOK' => Held' \in Seq(AllTx) /\ Elems(Held') = InMemory'
BY HeldSeq DEF TypeOK, Held, InMemory

\* What T takes away is a beginning of what is held.
LEMMA HeldDrop ==
    ASSUME TypeOK, TypeOK', Ordered(Held), NEW n \in Nat, Len(Held) = Len(Held') + n,
           \A i \in 1..Len(Held') : Held'[i] = Held[i + n]
    PROVE  Ordered(Held') /\ InMemory' \subseteq InMemory
<1>1. Held \in Seq(AllTx) /\ Held' \in Seq(AllTx) BY HeldFacts
<1>2. Ordered(Held') BY <1>1, OrderedDrop
<1>3. ASSUME NEW i \in 1..Len(Held') PROVE Held'[i] \in Elems(Held)
  <2>1. i + n \in 1..Len(Held) BY <1>1, LenProperties
  <2>. QED BY <2>1 DEF Elems
<1>4. Elems(Held') \subseteq Elems(Held) BY <1>3 DEF Elems
<1>. QED BY <1>2, <1>4, HeldFacts

\* What P adds is nothing of what is held, and nothing of a block whose last
\* transaction is.
LEMMA HeldAdd ==
    ASSUME TypeOK, Ordered(Held), NEW l \in Seq(AllTx), Ordered(l),
           batch' = batch, queue' = queue \o l,
           \A x \in InMemory, y \in Elems(l) : x # y /\ ~(IsLast(x) /\ y[1] = x[1])
    PROVE  Ordered(Held') /\ InMemory' = InMemory \cup Elems(l)
<1>1. batch \in Seq(AllTx) /\ queue \in Seq(AllTx) BY DEF TypeOK
<1>2. Held' = Held \o l BY <1>1, ConcatAssociative DEF Held
<1>3. Ordered(Held \o l) BY HeldFacts, OrderedConcat
<1>4. Elems(queue') = Elems(queue) \cup Elems(l) BY <1>1, ElemsConcat
<1>5. InMemory' = InMemory \cup Elems(l) BY <1>4 DEF InMemory
<1>. QED BY <1>2, <1>3, <1>5

\* Nobody but P and T writes a row that is still processing.
LEMMA HeldAside ==
    ASSUME TypeOK, DOwns, COwns, DNext \/ CNext \/ RmNext \/ UNCHANGED vars
    PROVE  /\ UNCHANGED <<queue, batch, tfailed, pstage>>
           /\ \A b \in Blocks : status[b] = "processing" => status'[b] = "processing"
<1>. USE DEF db, disk, dvars, pvars, tvars, cvars
<1>1. UNCHANGED <<queue, batch, tfailed, pstage>>
  BY DEF DNext, DCount, DSelect, DStart, DRpc, DRpcFail, DDone, DFail, CNext, CGate, CList,
     CStart, CRead, CDecide, CTick, CFail, RmNext, RmFile, vars
<1>2. CASE UNCHANGED status BY <1>1, <1>2
<1>3. ASSUME NEW c \in Blocks, DStart(c) \/ DDone(c) \/ CDecide(c)
      PROVE  \A b \in Blocks : status[b] = "processing" => status'[b] = "processing"
  <2>1. status[c] # "processing"
    BY <1>3 DEF DStart, DTurn, Lowest, DDone, CDecide, DOwns, COwns
  <2>2. \E s : status' = [status EXCEPT ![c] = s]
    BY <1>3 DEF DStart, DDone, CDecide, SetStatus
  <2>. QED BY <2>1, <2>2 DEF TypeOK
<1>4. status' = status \/ \E b \in Blocks : DStart(b) \/ DDone(b) \/ CDecide(b)
  BY DEF DNext, DCount, DSelect, DRpc, DRpcFail, DFail, CNext, CGate, CList, CStart, CRead,
     CTick, CFail, RmNext, RmFile, vars
<1>. QED BY <1>1, <1>2, <1>3, <1>4

LEMMA HeldByP ==
    ASSUME TypeOK, TypeOK', POwns, TOwns, PhaseInv, OnceInv, Ordered(Held), HeldOwns, PNext,
           faults'["early"] = 0
    PROVE  Ordered(Held') /\ HeldOwns'
<1>. USE DEF db, disk, dvars, tvars, cvars
<1>0. /\ batch' = batch /\ InMemory \subseteq AllTx /\ \A t \in InMemory : t[1] \in Blocks
      /\ batch \in Seq(AllTx) /\ queue \in Seq(AllTx)
  BY HeldFacts, AllTxElim DEF TypeOK, PNext, PBoot, PSelect, PEnd, PSelectAgain, PStart, PReset,
     PMark, PSave, PFail
<1>1. ASSUME UNCHANGED queue PROVE Ordered(Held') /\ InMemory' = InMemory
  BY <1>0, <1>1 DEF Held, InMemory
<1>2. CASE PBoot
  <2>1. InMemory = {} BY <1>2, OnceEmpty DEF PBoot, PhaseInv, InMemory
  <2>. QED BY <1>1, <1>2, <2>1 DEF PBoot, HeldOwns
<1>3. CASE PSelect
  <2>1. \A b \in Blocks : status[b] = "processing" => pstage'[b] = "none"
    BY <1>3 DEF PSelect, PPage, WithStatus
  <2>. QED BY <1>0, <1>1, <1>3, <2>1 DEF PSelect, HeldOwns
<1>4. ASSUME NEW b \in Blocks, PSelectAgain(b) PROVE Ordered(Held') /\ HeldOwns'
  <2>1. Txs(b) \cap InMemory = {}
    BY <1>4 DEF PSelectAgain, Fault, TypeOK, FaultKinds
  <2>2. \A t \in InMemory : t[1] # b BY <1>0, <2>1, AllTxElim
  <2>3. UNCHANGED <<queue, status>> /\ pstage' = [pstage EXCEPT ![b] = "todo"]
    BY <1>4 DEF PSelectAgain
  <2>. QED BY <1>0, <1>1, <2>2, <2>3 DEF HeldOwns, TypeOK
<1>5. ASSUME NEW b \in Blocks, PStart(b) \/ PFail(b) \/ PReset(b) PROVE Ordered(Held') /\ HeldOwns'
  <2>1. pstage[b] \in {"todo", "reset", "mark"} /\ UNCHANGED queue
    BY <1>5 DEF PStart, PTurn, Lowest, PFail, PReset
  <2>2. \A t \in InMemory : t[1] # b BY <2>1 DEF HeldOwns
  <2>3. \A c \in Blocks \ {b} : status'[c] = status[c] /\ pstage'[c] = pstage[c]
    BY <1>5 DEF PStart, PFail, PReset, SetStatus, TypeOK
  <2>. QED BY <1>0, <1>1, <2>1, <2>2, <2>3 DEF HeldOwns
<1>6. ASSUME NEW b \in Blocks, PMark(b) PROVE Ordered(Held') /\ HeldOwns'
  <2>1. /\ pstage[b] = "mark" /\ pstage' = [pstage EXCEPT ![b] = "save"]
        /\ status' = [status EXCEPT ![b] = "processing"]
        /\ queue' = queue \o Burst(b)
    BY <1>6 DEF PMark, SetStatus
  <2>2. \A t \in InMemory : t[1] # b BY <2>1 DEF HeldOwns
  <2>3. /\ Burst(b) \in Seq(AllTx) /\ Len(Burst(b)) = NumTx[b] - 1
        /\ \A k \in 1..(NumTx[b] - 1) : Burst(b)[k] = <<b, k>>
    BY BurstSeq
  <2>4. \A y \in Elems(Burst(b)) : y[1] = b BY BurstSeq
  <2>5. Ordered(Burst(b))
    <3>1. NumTx[b] \in Nat \ {0} BY BlockIndexAssumption
    <3>. QED BY <2>3, <3>1 DEF Ordered, IsLast, LastTx
  <2>6. Ordered(Held') /\ InMemory' = InMemory \cup Elems(Burst(b))
    BY <1>0, <2>1, <2>2, <2>3, <2>4, <2>5, HeldAdd
  <2>7. \A t \in InMemory' : status'[t[1]] = "processing" /\ pstage'[t[1]] \in {"none", "save"}
    BY <1>0, <2>1, <2>2, <2>4, <2>6 DEF HeldOwns, TypeOK
  <2>. QED BY <2>6, <2>7 DEF HeldOwns
<1>7. ASSUME NEW b \in Blocks, PSave(b) PROVE Ordered(Held') /\ HeldOwns'
  <2>1. /\ pstage[b] = "save" /\ pstage' = [pstage EXCEPT ![b] = "none"]
        /\ IF pphase = "pool" THEN UNCHANGED queue ELSE queue' = Append(queue, LastTx(b))
    BY <1>7 DEF PSave
  <2>2. LastTx(b) \notin InMemory /\ status[b] = "processing"
    BY <2>1 DEF TOwns, POwns, OnWay
  <2>3. UNCHANGED status
    <3>1. status' = status \/ status' = [status EXCEPT ![b] = "processing"]
      BY <1>7 DEF PSave, SetStatus
    <3>. QED BY <2>2, <3>1 DEF TypeOK
  <2>4. CASE pphase = "pool"
    BY <1>0, <1>1, <2>1, <2>3, <2>4 DEF HeldOwns, TypeOK
  <2>5. CASE pphase # "pool"
    <3>. DEFINE l == <<LastTx(b)>>
    <3>1. l \in Seq(AllTx) /\ Len(l) = 1 /\ l[1] = LastTx(b) /\ LastTx(b)[1] = b
      BY LastTxType, LastOfBlock
    <3>2. Elems(l) = {LastTx(b)} /\ Ordered(l) BY <3>1 DEF Elems, Ordered
    <3>3. queue' = queue \o l BY <1>0, <2>1, <2>5, LastTxType, AppendIsConcat
    <3>. HIDE DEF l
    <3>4. \A x \in InMemory, y \in Elems(l) : x # y /\ ~(IsLast(x) /\ y[1] = x[1])
      BY <2>2, <3>1, <3>2, LastOfBlock
    <3>5. Ordered(Held') /\ InMemory' = InMemory \cup Elems(l)
      BY <1>0, <3>1, <3>2, <3>3, <3>4, HeldAdd
    <3>6. ASSUME NEW t \in InMemory'
          PROVE  status'[t[1]] = "processing" /\ pstage'[t[1]] \in {"none", "save"}
      <4>1. CASE t = LastTx(b) BY <2>1, <2>2, <2>3, <3>1, <4>1 DEF TypeOK
      <4>2. CASE t \in InMemory BY <1>0, <2>1, <2>3, <4>2 DEF HeldOwns, TypeOK
      <4>. QED BY <3>2, <3>5, <3>6, <4>1, <4>2
    <3>. QED BY <3>5, <3>6 DEF HeldOwns
  <2>. QED BY <2>4, <2>5
<1>8. CASE PEnd
  <2>. DEFINE l == [k \in 1..Len(plast) |-> LastTx(plast[k])]
  <2>1. UNCHANGED <<status, pstage>> /\ queue' = queue \o l /\ \A b \in Blocks : pstage[b] = "none"
    BY <1>8 DEF PEnd, Idle
  <2>2. l \in Seq(AllTx) /\ Len(l) = Len(plast) /\ Elems(l) = {LastTx(b) : b \in Elems(plast)}
    BY LastsSeq DEF TypeOK
  <2>3. \A k \in 1..Len(l) : l[k] = LastTx(plast[k]) /\ plast[k] \in Blocks
    BY <2>2, ElementOfSeq, LenProperties DEF TypeOK
  <2>. HIDE DEF l
  <2>4. Elems(plast) \subseteq Blocks BY <2>2, <2>3 DEF Elems
  <2>5. Ordered(l)
    <3>1. Len(plast) \in Nat BY LenProperties DEF TypeOK
    <3>2. ASSUME NEW i \in 1..Len(plast), NEW j \in 1..Len(plast), i < j
          PROVE  l[i] # l[j] /\ l[i][1] # l[j][1]
      <4>1. plast[i] # plast[j] BY <3>1, <3>2 DEF OnceInv
      <4>. QED BY <2>2, <2>3, <4>1, LastOfBlock
    <3>. QED BY <2>2, <3>2 DEF Ordered
  <2>6. \A x \in InMemory, y \in Elems(l) : x # y /\ ~(IsLast(x) /\ y[1] = x[1])
    <3>1. ASSUME NEW b \in Elems(plast), NEW x \in InMemory
          PROVE  x # LastTx(b) /\ ~(IsLast(x) /\ LastTx(b)[1] = x[1])
      BY <2>4, <3>1, LastOfBlock DEF OnceInv
    <3>. QED BY <2>2, <3>1
  <2>7. Ordered(Held') /\ InMemory' = InMemory \cup Elems(l)
    BY <1>0, <2>1, <2>2, <2>5, <2>6, HeldAdd
  <2>8. ASSUME NEW t \in Elems(l)
        PROVE  t[1] \in Blocks /\ status[t[1]] = "processing" /\ pstage[t[1]] = "none"
    <3>1. PICK b \in Elems(plast) : t = LastTx(b) BY <2>2, <2>8
    <3>2. b \in Blocks /\ t[1] = b BY <2>4, <3>1, LastOfBlock
    <3>. QED BY <3>1, <3>2 DEF TOwns, OnWay
  <2>9. \A t \in InMemory' : status'[t[1]] = "processing" /\ pstage'[t[1]] \in {"none", "save"}
    BY <2>1, <2>7, <2>8 DEF HeldOwns
  <2>. QED BY <2>7, <2>9 DEF HeldOwns
<1>. QED BY <1>2, <1>3, <1>4, <1>5, <1>6, <1>7, <1>8 DEF PNext

\* The row is written when nothing of the block is left in memory.
LEMMA HeldByT ==
    ASSUME TypeOK, TypeOK', Ordered(Held), HeldOwns, ~tfailed, TNext, faults'["save"] = 0
    PROVE  ~tfailed' /\ Ordered(Held') /\ HeldOwns'
<1>. USE DEF db, disk, dvars, pvars, cvars
<1>0. /\ batch \in Seq(AllTx) /\ queue \in Seq(AllTx) /\ InMemory \subseteq AllTx
      /\ batch' \in Seq(AllTx) /\ queue' \in Seq(AllTx) /\ UNCHANGED pstage
  BY HeldFacts DEF TypeOK, TNext, TTake, TThrow, TFlushed, TEnd, TEndFail, TChunk
<1>1. /\ Len(Held) = Len(batch) + Len(queue) /\ Len(batch) \in Nat /\ Len(queue) \in Nat
      /\ \A i \in 1..Len(batch) + Len(queue) :
            Held[i] = IF i <= Len(batch) THEN batch[i] ELSE queue[i - Len(batch)]
  BY <1>0, HeldSeq DEF Held
<1>2. /\ Len(Held') = Len(batch') + Len(queue') /\ Len(batch') \in Nat /\ Len(queue') \in Nat
      /\ \A i \in 1..Len(batch') + Len(queue') :
            Held'[i] = IF i <= Len(batch') THEN batch'[i] ELSE queue'[i - Len(batch')]
  BY <1>0, HeldSeq DEF Held
<1>3. ASSUME UNCHANGED status, InMemory' \subseteq InMemory PROVE HeldOwns'
  BY <1>0, <1>3 DEF HeldOwns
<1>4. queue # <<>> => /\ Len(Tail(queue)) = Len(queue) - 1 /\ Head(queue) = queue[1] /\ Len(queue) >= 1
                      /\ \A i \in 1..Len(Tail(queue)) : Tail(queue)[i] = queue[i + 1]
  BY <1>0, HeadTailProperties, LenProperties, EmptySeq
<1>5. batch # <<>> => /\ Len(Tail(batch)) = Len(batch) - 1 /\ Head(batch) = batch[1] /\ Len(batch) >= 1
                      /\ \A i \in 1..Len(Tail(batch)) : Tail(batch)[i] = batch[i + 1]
  BY <1>0, HeadTailProperties, LenProperties, EmptySeq
<1>6. CASE TTake
  <2>1. /\ queue # <<>> /\ queue' = Tail(queue) /\ batch' = Append(batch, Head(queue))
        /\ UNCHANGED <<status, tfailed>>
    BY <1>6 DEF TTake
  <2>2. /\ Len(batch') = Len(batch) + 1 /\ batch'[Len(batch) + 1] = Head(queue)
        /\ \A i \in 1..Len(batch) : batch'[i] = batch[i]
    BY <1>0, <2>1, HeadTailProperties, AppendProperties
  <2>3. Len(Held') = Len(Held) BY <1>1, <1>2, <1>4, <2>1, <2>2
  <2>4. ASSUME NEW i \in 1..Len(Held') PROVE Held'[i] = Held[i]
    <3>0. i \in Nat /\ i <= Len(batch) + Len(queue) /\ 1 <= i BY <1>1, <2>3
    <3>1. CASE i <= Len(batch) BY <1>1, <1>2, <2>2, <2>3, <3>1
    <3>2. CASE i = Len(batch) + 1 BY <1>1, <1>2, <1>4, <2>1, <2>2, <2>3, <3>2
    <3>3. CASE i > Len(batch) + 1
      <4>1. i - Len(batch') \in 1..Len(Tail(queue)) BY <1>1, <1>2, <1>4, <2>1, <2>2, <3>3
      <4>2. Held'[i] = queue[i - Len(batch') + 1] BY <1>2, <1>4, <2>1, <2>2, <3>3, <4>1
      <4>. QED BY <1>1, <2>2, <2>3, <3>3, <4>2
    <3>. QED BY <1>1, <3>0, <3>1, <3>2, <3>3
  <2>5. Held' = Held BY <2>3, <2>4, HeldFacts, SeqEqual
  <2>6. InMemory' = InMemory BY <2>5, HeldFacts
  <2>. QED BY <1>3, <2>1, <2>5, <2>6
<1>7. CASE TThrow
  <2>1. queue # <<>> /\ queue' = Tail(queue) /\ batch' = <<>> /\ UNCHANGED <<status, tfailed>>
    BY <1>7 DEF TThrow
  <2>2. Len(batch') = 0 BY <2>1
  <2>3. Len(batch) + 1 \in Nat /\ Len(Held) = Len(Held') + (Len(batch) + 1)
    BY <1>1, <1>2, <1>4, <2>1, <2>2
  <2>4. ASSUME NEW i \in 1..Len(Held') PROVE Held'[i] = Held[i + (Len(batch) + 1)]
    <3>1. i \in 1..Len(Tail(queue)) /\ Held'[i] = queue[i + 1]
      BY <1>2, <1>4, <2>1, <2>2
    <3>2. Held[i + (Len(batch) + 1)] = queue[i + (Len(batch) + 1) - Len(batch)]
      BY <1>1, <1>4, <2>1, <3>1
    <3>3. i + (Len(batch) + 1) - Len(batch) = i + 1 BY <1>1
    <3>. QED BY <3>1, <3>2, <3>3
  <2>5. Ordered(Held') /\ InMemory' \subseteq InMemory BY <2>3, <2>4, HeldDrop
  <2>. QED BY <1>3, <2>1, <2>5
<1>8. CASE TFlushed
  <2>1. UNCHANGED <<queue, batch, status>> /\ tfailed' = FALSE BY <1>8 DEF TFlushed
  <2>2. Held' = Held /\ InMemory' = InMemory BY <2>1 DEF Held, InMemory
  <2>. QED BY <1>3, <2>1, <2>2
<1>9. CASE TEnd
  <2>1. batch # <<>> /\ batch' = Tail(batch) /\ UNCHANGED <<queue, tfailed>>
    BY <1>9 DEF TEnd, TypeOK
  <2>2. Len(Held) = Len(Held') + 1 BY <1>1, <1>2, <1>5, <2>1
  <2>3. ASSUME NEW i \in 1..Len(Held') PROVE Held'[i] = Held[i + 1]
    <3>1. CASE i <= Len(batch') BY <1>1, <1>2, <1>5, <2>1, <2>2, <3>1
    <3>2. CASE i > Len(batch') BY <1>1, <1>2, <1>5, <2>1, <2>2, <3>2
    <3>. QED BY <1>2, <3>1, <3>2
  <2>4. Ordered(Held') /\ InMemory' \subseteq InMemory BY <2>2, <2>3, HeldDrop
  <2>5. CASE ~IsLast(Head(batch))
    <3>1. UNCHANGED status BY <1>9, <2>5 DEF TEnd
    <3>. QED BY <1>3, <2>1, <2>4, <3>1
  <2>6. CASE IsLast(Head(batch))
    <3>1. status' = [status EXCEPT ![Head(batch)[1]] = "completed"]
      BY <1>9, <2>6 DEF TEnd, SetStatus
    <3>2. ASSUME NEW t \in InMemory' PROVE t[1] # Head(batch)[1]
      <4>1. PICK i \in 1..Len(Held') : t = Held'[i] BY <3>2, HeldFacts DEF Elems
      <4>2. t = Held[i + 1] /\ i + 1 \in 1..Len(Held) /\ 1 \in 1..Len(Held) /\ 1 < i + 1
        BY <1>1, <1>2, <2>2, <2>3, <4>1
      <4>3. Held[1] = Head(batch) BY <1>1, <1>5, <2>1
      <4>. QED BY <2>6, <4>2, <4>3 DEF Ordered
    <3>3. ASSUME NEW t \in InMemory' PROVE t[1] \in Blocks /\ t \in InMemory
      BY <1>0, <2>4, <3>3, AllTxElim
    <3>4. \A t \in InMemory' : status'[t[1]] = status[t[1]]
      BY <3>1, <3>2, <3>3 DEF TypeOK
    <3>5. HeldOwns' BY <1>0, <3>3, <3>4 DEF HeldOwns
    <3>. QED BY <2>1, <2>4, <3>5
  <2>. QED BY <2>5, <2>6
<1>10. CASE TEndFail
  <2>1. batch' = <<>> /\ UNCHANGED <<queue, status, tfailed>> BY <1>10 DEF TEndFail
  <2>2. Len(batch') = 0 BY <2>1
  <2>3. Len(Held) = Len(Held') + Len(batch) BY <1>1, <1>2, <2>1, <2>2
  <2>4. \A i \in 1..Len(Held') : Held'[i] = Held[i + Len(batch)]
    BY <1>1, <1>2, <2>1, <2>2, <2>3
  <2>5. Ordered(Held') /\ InMemory' \subseteq InMemory BY <1>1, <2>3, <2>4, HeldDrop
  <2>. QED BY <1>3, <2>1, <2>5
<1>11. ASSUME NEW tbl, NEW chunk, TChunk(tbl, chunk) PROVE ~tfailed' /\ Ordered(Held') /\ HeldOwns'
  <2>1. UNCHANGED <<queue, batch, status, tfailed>>
    BY <1>11 DEF TChunk, Fault, TypeOK, FaultKinds
  <2>2. Held' = Held /\ InMemory' = InMemory BY <2>1 DEF Held, InMemory
  <2>. QED BY <1>3, <2>1, <2>2
<1>. QED BY <1>6, <1>7, <1>8, <1>9, <1>10, <1>11 DEF TNext

LEMMA HeldStep ==
    ASSUME RowInv, RowInv', HeldInv, [Next]_vars
    PROVE  HeldInv'
<1>. SUFFICES ASSUME faults'["early"] = 0, faults'["save"] = 0
              PROVE  ~tfailed' /\ Ordered(Held') /\ HeldOwns'
  BY DEF HeldInv, Ordered
<1>1. /\ TypeOK /\ TypeOK' /\ DOwns /\ POwns /\ TOwns /\ COwns /\ PhaseInv /\ OnceInv
      /\ ~tfailed /\ Ordered(Held) /\ HeldOwns
  BY Kept DEF RowInv, OwnInv, HeldInv, FaultKinds
<1>2. CASE DNext \/ CNext \/ RmNext \/ UNCHANGED vars
  <2>1. /\ UNCHANGED <<queue, batch, tfailed, pstage>>
        /\ \A b \in Blocks : status[b] = "processing" => status'[b] = "processing"
    BY <1>1, <1>2, HeldAside
  <2>2. Held' = Held /\ InMemory' = InMemory BY <2>1 DEF Held, InMemory
  <2>3. \A t \in InMemory : t[1] \in Blocks BY <1>1, HeldFacts, AllTxElim
  <2>. QED BY <1>1, <2>1, <2>2, <2>3 DEF HeldOwns
<1>3. CASE PNext
  <2>1. UNCHANGED tfailed
    BY <1>3 DEF PNext, PBoot, PSelect, PEnd, PSelectAgain, PStart, PReset, PMark, PSave, PFail, tvars
  <2>. QED BY <1>1, <1>3, <2>1, HeldByP
<1>4. CASE TNext BY <1>1, <1>4, HeldByT
<1>5. CASE Crash
  <2>1. queue' = <<>> /\ batch' = <<>> /\ tfailed' = FALSE BY <1>5 DEF Crash
  <2>2. Held' = <<>> /\ InMemory' = {} /\ Len(Held') = 0 BY <2>1, OnceEmpty DEF Held, InMemory
  <2>. QED BY <2>1, <2>2 DEF Ordered, HeldOwns
<1>. QED BY <1>2, <1>3, <1>4, <1>5 DEF Next

\* Unless a row was taken a second time too early or a batch was queued again, no
\* transaction is twice in memory, and each one there belongs to a row in processing.
THEOREM MemoryOnce == Spec => []HeldOnce
<1>1. Init => HeldInv
  <2>1. ASSUME Init PROVE Held = <<>> /\ Len(Held) = 0 /\ InMemory = {} /\ ~tfailed
    BY <2>1, OnceEmpty DEF Init, Held, InMemory
  <2>. QED BY <2>1 DEF HeldInv, HeldOwns, Ordered
<1>2. RowInv /\ HeldInv => HeldOnce
  <2>. SUFFICES ASSUME TypeOK, Ordered(Held), HeldOwns
                PROVE  /\ \A i, j \in 1..Len(Held) : Held[i] = Held[j] => i = j
                       /\ \A t \in InMemory : status[t[1]] = "processing"
    BY DEF RowInv, HeldInv, HeldOnce, Held
  <2>1. Len(Held) \in Nat BY HeldFacts, LenProperties
  <2>2. \A i, j \in 1..Len(Held) : i = j \/ i < j \/ j < i BY <2>1
  <2>. QED BY <2>2 DEF Ordered, HeldOwns
<1>3. RowInv /\ RowInv' /\ HeldInv /\ [Next]_vars => HeldInv' BY HeldStep
<1>. QED BY <1>1, <1>2, <1>3, RowInvAlways, PTL DEF Spec

=============================================================================
