------------------------------ MODULE Queries -------------------------------
(***************************************************************************)
(* Lists and balances that are read while the indexer writes.  A client    *)
(* takes a list page by page; every request is one to three statements,    *)
(* and rows are inserted, deleted, spent and confirmed between any two of  *)
(* them.                                                                   *)
(*                                                                         *)
(*   "utxo"     address.utxo, nftAddressUtxo: a flag, the last output of   *)
(*              the page before, is looked up for its cursor_id            *)
(*   "ft"       ftAddressUtxo: the same, but deleted rows are listed       *)
(*   "history"  ftHistory: LIMIT and OFFSET in the order of cursor_id, and *)
(*              a count                                                    *)
(*   "blocks"   blockList: below the height of the last block              *)
(*   "balance"  address.balance: two sums that are read at the same time   *)
(*                                                                         *)
(* All outputs belong to one address and one series, and an output is      *)
(* named by its cursor_id.  What writes the rows is in TxStore and         *)
(* ChainSync; here it is reduced to what becomes of a row.  The lists of   *)
(* unspent outputs have no ORDER BY, so a page comes in any order; when    *)
(* MySQL goes by the index of cursor_id, in the order of the cursors.      *)
(***************************************************************************)
EXTENDS Integers, FiniteSets

CONSTANTS
    N,          \* bound: outputs; also of blocks and their heights
    Kind,       \* kinds of request that clients make
    Height,     \* block.height of each block
    Digits,     \* the number that a hash is when MySQL compares it with a height
    PageSize,   \* LIMIT of a list
    Writers,    \* inserts that run at the same time
    MaxChange   \* bound: changes of the store

Outs == 1..N
Blocks == 1..N
Beyond == N + 1   \* endHeight = null

FlagKinds == {"utxo", "ft"}
Kinds == FlagKinds \cup {"history", "blocks", "balance"}

ASSUME QueriesAssumption ==
    /\ {N, PageSize, Writers} \subseteq Nat \ {0} /\ MaxChange \in Nat
    /\ Kind \subseteq Kinds
    /\ Height \in [Blocks -> 0..N] /\ Digits \in [Blocks -> 0..N]

VARIABLES
    shown,    \* outputs whose row is there
    conf,     \* of these, those with a block_hash in their tx row,
    deleted,  \*   is_deleted,
    used,     \*   is_used,
    spent,    \*   a row of tx_in that is not deleted
    blocks,   \* rows of the table block: 1..blocks
    changes,  \* changes of the store so far
    kind,     \* the kind of request
    pc,       \* the statement the request is at, "page" when it is answered,
              \* "done" when the client has all it wants
    last,     \* flag, or last: the end of the page before, 0 for none
    from,     \* cursorId, offset or endHeight
    page,     \* the page of this request, confirmed outputs of a balance
    seen,     \* the pages before, unconfirmed outputs of a balance
    total,    \* count of the history
    toRead,   \* statements of a balance that are not answered
    moved,    \* history: what changed since the first request
    broken    \* history: what went wrong since the first request

store == <<shown, conf, deleted, used, spent, blocks, changes>>
position == <<last, from, page, seen, total, toRead>>
client == <<kind, pc, position>>
history == <<moved, broken>>
vars == <<store, client, history>>

Trouble == {"lost",       \* the output of a flag was deleted
            "unordered",  \* a page did not come in the order of cursor_id
            "left",       \* a row left the list
            "misread"}    \* a hash was taken for a height

Unspent == shown \ (used \cup spent)

\* The rows that the list is made of.
Matching ==
    CASE kind \in {"utxo", "balance"} -> Unspent \ deleted
      [] kind = "ft" -> Unspent
      [] kind = "history" -> shown \ deleted
      [] kind = "blocks" -> 1..blocks

Smaller(m, n) == IF m < n THEN m ELSE n

\* What LIMIT may leave of S.
Cuts(S) == {p \in SUBSET S : Cardinality(p) = Smaller(PageSize, Cardinality(S))}

TypeOK ==
    /\ shown \subseteq Outs
    /\ conf \subseteq shown /\ deleted \subseteq shown
    /\ used \subseteq shown /\ spent \subseteq shown
    /\ blocks \in Blocks /\ changes \in 0..MaxChange
    /\ kind \in Kind
    /\ pc \in {"lookup", "select", "count", "read", "page", "done", "idle"}
    /\ last \in 0..N /\ from \in 0..Beyond /\ total \in 0..N
    /\ page \subseteq 1..N /\ seen \subseteq 1..N
    /\ toRead \subseteq {"confirmed", "unconfirmed"}
    /\ moved \subseteq 1..N /\ broken \subseteq Trouble

Init ==
    /\ \E n \in 0..N : shown = 1..n
    /\ conf = {} /\ deleted = {} /\ used = {} /\ spent = {}
    /\ blocks = 1 /\ changes = 0
    /\ kind \in Kind /\ pc = "idle"
    /\ last = 0 /\ from = 0 /\ total = 0
    /\ page = {} /\ seen = {} /\ toRead = {}
    /\ moved = {} /\ broken = {}

-----------------------------------------------------------------------------
(* The indexer.                                                            *)

Change(o) ==
    /\ changes < MaxChange /\ changes' = changes + 1
    /\ UNCHANGED client
    /\ moved' = moved \cup {o}
    /\ broken' = IF Matching \subseteq Matching' THEN broken ELSE broken \cup {"left"}

\* cursor_id is given when an INSERT begins; of those that run at the same time,
\* a later one may be the first to be seen.
Insert(o) ==
    /\ o \notin shown
    /\ Cardinality({p \in Outs \ shown : p < o}) < Writers
    /\ shown' = shown \cup {o}
    /\ UNCHANGED <<conf, deleted, used, spent, blocks>>

Confirm(o) ==
    /\ o \in shown \ conf
    /\ conf' = conf \cup {o}
    /\ UNCHANGED <<shown, deleted, used, spent, blocks>>

\* checkMemPool, checkTxTimeout or a reorganisation.
Delete(o) ==
    /\ o \in shown \ deleted
    /\ deleted' = deleted \cup {o}
    /\ UNCHANGED <<shown, conf, used, spent, blocks>>

\* The same transaction is saved again.
Restore(o) ==
    /\ o \in deleted
    /\ deleted' = deleted \ {o}
    /\ UNCHANGED <<shown, conf, used, spent, blocks>>

Spend(o) ==
    /\ o \in shown \ spent
    /\ spent' = spent \cup {o}
    /\ UNCHANGED <<shown, conf, deleted, used, blocks>>

\* Mutant of MarkUsed: an outpoint whose output is not stored yet.
MarkUsedEarly(o) ==
    /\ o \notin used
    /\ used' = used \cup {o}
    /\ UNCHANGED <<shown, conf, deleted, spent, blocks>>

MarkUsed(o) ==
    /\ o \in spent \ used
    /\ used' = used \cup {o}
    /\ UNCHANGED <<shown, conf, deleted, spent, blocks>>

\* The transaction that spends it is deleted; is_used stays.
Unspend(o) ==
    /\ o \in spent
    /\ spent' = spent \ {o}
    /\ UNCHANGED <<shown, conf, deleted, used, blocks>>

NewBlock ==
    /\ blocks < N /\ blocks' = blocks + 1
    /\ UNCHANGED <<shown, conf, deleted, used, spent>>

Indexer ==
    \/ /\ kind # "blocks"
       /\ \E o \in Outs :
            /\ \/ Insert(o) \/ Confirm(o) \/ Delete(o) \/ Restore(o)
               \/ Spend(o) \/ MarkUsed(o) \/ Unspend(o)
            /\ Change(o)
    \/ kind = "blocks" /\ NewBlock /\ Change(blocks')

-----------------------------------------------------------------------------
(* The client: it goes on until a page is empty or the count is reached.   *)

Begin ==
    /\ pc \in {"idle", "done"}
    /\ pc' = IF kind = "balance" THEN "read" ELSE "select"
    /\ toRead' = IF kind = "balance" THEN {"confirmed", "unconfirmed"} ELSE {}
    /\ last' = 0 /\ from' = (IF kind = "blocks" THEN Beyond ELSE 0)
    /\ page' = {} /\ seen' = {} /\ total' = 0
    /\ moved' = {} /\ broken' = {}
    /\ UNCHANGED <<store, kind>>

Enough == page = {} \/ (kind = "history" /\ from + Cardinality(page) >= total)

More ==
    /\ pc = "page" /\ ~Enough
    /\ seen' = seen \cup page /\ page' = {}
    /\ IF kind = "history"
       THEN pc' = "select" /\ from' = from + Cardinality(page)
       ELSE pc' = "lookup" /\ UNCHANGED from
    /\ UNCHANGED <<store, kind, last, total, toRead, history>>

Stop ==
    /\ pc = "page" /\ Enough
    /\ pc' = "done"
    /\ UNCHANGED <<store, kind, position, history>>

-----------------------------------------------------------------------------
(* The statements of a request.                                            *)

\* Mutant of Lookup: vout is forgotten, and another output of the transaction found.
LookupTx ==
    /\ pc = "lookup" /\ kind \in FlagKinds
    /\ pc' = "select"
    /\ \/ from' \in shown \ deleted /\ UNCHANGED broken
       \/ from' = 0 /\ broken' = broken \cup {"lost"}
    /\ UNCHANGED <<store, kind, last, page, seen, total, toRead, moved>>

\* findOne of the flag: a row that is deleted is not found, and cursorId stays 0.
Lookup ==
    /\ pc = "lookup" /\ kind \in FlagKinds
    /\ pc' = "select"
    /\ IF last \in shown \ deleted
       THEN from' = last /\ UNCHANGED broken
       ELSE from' = 0 /\ broken' = broken \cup {"lost"}
    /\ UNCHANGED <<store, kind, last, page, seen, total, toRead, moved>>

\* findOne with two conditions and no order: the row with this hash, or one whose
\* height is the number at the start of the hash.
LookupBlock ==
    /\ pc = "lookup" /\ kind = "blocks"
    /\ pc' = "select"
    /\ \E b \in {last} \cup {c \in 1..blocks : Height[c] = Digits[last]} :
        /\ from' = Height[b]
        /\ broken' = IF b = last THEN broken ELSE broken \cup {"misread"}
    /\ UNCHANGED <<store, kind, last, page, seen, total, toRead, moved>>

\* The answer is page p, which ends with l; an empty page leaves the client its flag.
Ends(p) == IF p = {} THEN {last} ELSE p

Answer(p, l) ==
    /\ pc' = "page" /\ page' = p /\ last' = l
    /\ UNCHANGED <<store, kind, from, seen, total, toRead, moved>>

InOrder(S, p, l) == (\A a \in p, b \in S \ p : a < b) /\ (\A a \in p : a <= l)

\* Mutant of SelectUtxo: cursor_id >= ? repeats the output of the flag.
SelectFrom ==
    /\ pc = "select" /\ kind \in FlagKinds
    /\ LET S == {o \in Matching : o >= from} IN
       \E p \in Cuts(S) : \E l \in Ends(p) :
        /\ Answer(p, l)
        /\ broken' = IF InOrder(S, p, l) THEN broken ELSE broken \cup {"unordered"}

SelectUtxo ==
    /\ pc = "select" /\ kind \in FlagKinds
    /\ LET S == {o \in Matching : o > from} IN
       \E p \in Cuts(S) : \E l \in Ends(p) :
        /\ Answer(p, l)
        /\ broken' = IF InOrder(S, p, l) THEN broken ELSE broken \cup {"unordered"}

\* Mutant of SelectBlocks: height < ? - 1.
SelectBelow ==
    /\ pc = "select" /\ kind = "blocks"
    /\ LET S == {b \in Matching : Height[b] < from - 1} IN
       \E p \in Cuts(S) : \E l \in Ends(p) :
        /\ Answer(p, l)
        /\ \A a \in p : Height[a] >= Height[l]
        /\ \A a \in p, b \in S \ p : Height[a] >= Height[b]
    /\ UNCHANGED broken

\* ORDER BY height DESC; several rows may have one height.
SelectBlocks ==
    /\ pc = "select" /\ kind = "blocks"
    /\ LET S == {b \in Matching : Height[b] < from} IN
       \E p \in Cuts(S) : \E l \in Ends(p) :
        /\ Answer(p, l)
        /\ \A a \in p : Height[a] >= Height[l]
        /\ \A a \in p, b \in S \ p : Height[a] >= Height[b]
    /\ UNCHANGED broken

\* ORDER BY cursor_id DESC LIMIT PageSize OFFSET from
SelectHistory ==
    /\ pc = "select" /\ kind = "history"
    /\ pc' = "count"
    /\ page' = {o \in Matching : Cardinality({x \in Matching : x >= o})
                                    \in from + 1..from + PageSize}
    /\ UNCHANGED <<store, kind, last, from, seen, total, toRead, history>>

\* Mutant of Count: the condition of the lists of unspent outputs.
CountUnspent == Cardinality(Unspent \ deleted)

Count == Cardinality(shown \ deleted)

CountHistory ==
    /\ pc = "count"
    /\ pc' = "page" /\ total' = Count
    /\ UNCHANGED <<store, kind, last, from, page, seen, toRead, history>>

\* Mutant of ReadBalance: block_hash IS NULL is forgotten.
ReadAll(r) ==
    /\ pc = "read" /\ r \in toRead
    /\ toRead' = toRead \ {r}
    /\ pc' = IF toRead' = {} THEN "done" ELSE "read"
    /\ IF r = "confirmed"
       THEN page' = Matching \cap conf /\ UNCHANGED seen
       ELSE seen' = Matching /\ UNCHANGED page
    /\ UNCHANGED <<store, kind, last, from, total, history>>

\* Promise.all: the two statements are answered in any order.
ReadBalance(r) ==
    /\ pc = "read" /\ r \in toRead
    /\ toRead' = toRead \ {r}
    /\ pc' = IF toRead' = {} THEN "done" ELSE "read"
    /\ IF r = "confirmed"
       THEN page' = Matching \cap conf /\ UNCHANGED seen
       ELSE seen' = Matching \ conf /\ UNCHANGED page
    /\ UNCHANGED <<store, kind, last, from, total, history>>

Request ==
    \/ Lookup \/ LookupBlock
    \/ SelectUtxo \/ SelectBlocks \/ SelectHistory \/ CountHistory
    \/ \E r \in toRead : ReadBalance(r)

Next == Indexer \/ Begin \/ More \/ Stop \/ Request

Spec == Init /\ [][Next]_vars /\ WF_vars(Request \/ More \/ Stop)
-----------------------------------------------------------------------------
(* Properties.                                                             *)

\* A client that took a list of unspent outputs to its end has everything that was
\* in the list all the time, however many rows came, went or were spent between the
\* pages and even when its flag was deleted, if the pages came in the order of the
\* cursors.
UtxoComplete ==
    pc = "done" /\ kind \in FlagKinds /\ "unordered" \notin broken =>
        Matching \ moved \subseteq seen \cup page

\* The same of the history, which goes by OFFSET: outputs that come push the others
\* down, which only repeats them.  It needs that no row left the list meanwhile.
HistoryComplete ==
    pc = "done" /\ kind = "history" /\ "left" \notin broken =>
        Matching \ moved \subseteq seen \cup page

\* The list of blocks has every height that it had when it was begun, although of
\* rivals at one height it may have only one, and new blocks come on top, unless a
\* hash was taken for a height.
HeightsComplete ==
    pc = "done" /\ kind = "blocks" /\ "misread" \notin broken =>
        \A b \in Matching \ moved : \E a \in seen \cup page : Height[a] = Height[b]

\* No output comes twice in the pages of a list of unspent outputs, in whatever order
\* cursors become visible, unless the flag was deleted and the list began anew.
PagesDisjoint ==
    kind \in FlagKinds /\ broken \cap {"lost", "unordered"} = {} => page \cap seen = {}

\* Although confirmed and unconfirmed are two statements, what did not change while
\* they ran is in exactly one of the sums, the right one, and nothing is in a sum
\* that was spent or deleted all the time.
BalanceExact ==
    pc = "done" /\ kind = "balance" =>
        /\ page \ moved = (Matching \cap conf) \ moved
        /\ seen \ moved = Matching \ (conf \cup moved)

\* Every list comes to an end once the indexer does nothing for a while, although a
\* lost flag starts it again.  ftAddressUtxo lists deleted outputs but finds no
\* flag among them: it never ends when such an output is the last of a page.
ListEnds ==
    (pc # "idle") ~> \/ pc = "done" \/ "misread" \in broken
                     \/ kind = "ft" /\ last \in deleted
=============================================================================
