------------------------------ MODULE Broadcast -----------------------------
(***************************************************************************)
(* broadcastMempoolToOfficial.ts in its watch mode: a round lists the      *)
(* mempool of the local node, fetches what the record file does not name,  *)
(* and posts it to the official node, parents before children (Kahn).      *)
(*                                                                         *)
(* The loop over a layer is written as it runs.  `batch = queue` copies a  *)
(* reference, so batch and queue are one array, here `queue`, and          *)
(* `queue.length = 0` empties both.                                        *)
(***************************************************************************)
EXTENDS Integers, SequencesExt

CONSTANTS
    Tx,        \* transactions
    Parents,   \* the transactions whose outputs each of them spends
    MaxFault   \* bound: failing calls and deaths of the process

VARIABLES
    mempool,    \* of the local node
    gone,       \* transactions that left it
    official,   \* what the official node knows
    file,       \* the record file
    record,     \* what runOnce has read of it and added
    pc,         \* the step of runOnce
    toFetch,    \* new transactions that are not fetched yet
    txMap,      \* those that are
    indegree,   \* of these, how many parents of each are not posted yet
    queue,      \* the array queue, which is also batch
    next,       \* the index that the loop over batch is at
    faults      \* failing calls and deaths

node == <<mempool, gone, official>>
round == <<record, toFetch, txMap, indegree, queue, next>>
vars == <<node, file, round, pc, faults>>

Init ==
    /\ mempool = {} /\ gone = {} /\ official = {}
    /\ file = {} /\ record = {}
    /\ pc = "sleep" /\ toFetch = {} /\ txMap = {}
    /\ indegree = [t \in Tx |-> 0] /\ queue = <<>> /\ next = 1
    /\ faults = 0

-----------------------------------------------------------------------------
(* The nodes.  A transaction may reach the official node without help.     *)

Arrive(t) ==
    /\ t \notin mempool \cup gone /\ Parents[t] \subseteq mempool \cup gone
    /\ mempool' = mempool \cup {t}
    /\ UNCHANGED <<gone, official, file, round, pc, faults>>

\* Both nodes have a mined transaction.
Mined(t) ==
    /\ t \in mempool /\ Parents[t] \subseteq gone
    /\ mempool' = mempool \ {t} /\ gone' = gone \cup {t} /\ official' = official \cup {t}
    /\ UNCHANGED <<file, round, pc, faults>>

Relay(t) ==
    /\ t \in mempool \ official /\ Parents[t] \subseteq official
    /\ official' = official \cup {t}
    /\ UNCHANGED <<mempool, gone, file, round, pc, faults>>

-----------------------------------------------------------------------------
(* runOnce.                                                                *)

Fail == faults < MaxFault /\ faults' = faults + 1

EndRound == pc' = "sleep"

\* getrawmempool, loadRecord and what is still to be posted.
List ==
    /\ pc = "sleep"
    /\ LET kept == file \cap mempool
           new == mempool \ kept IN
        /\ record' = kept
        /\ IF new = {}
           THEN EndRound /\ file' = kept /\ UNCHANGED toFetch
           ELSE pc' = "fetch" /\ toFetch' = new /\ UNCHANGED file
    /\ txMap' = {}
    /\ UNCHANGED <<node, indegree, queue, next, faults>>

\* One getrawtransaction; one that fails, or is not in the mempool any more, is skipped.
Fetch(t) ==
    /\ pc = "fetch" /\ t \in toFetch
    /\ toFetch' = toFetch \ {t}
    /\ \/ t \in mempool /\ txMap' = txMap \cup {t} /\ UNCHANGED faults
       \/ t \notin mempool /\ UNCHANGED <<txMap, faults>>
       \/ Fail /\ UNCHANGED txMap
    /\ UNCHANGED <<node, file, pc, record, indegree, queue, next>>

\* The graph of what was fetched, and its first layer in any order.
Graph ==
    /\ pc = "fetch" /\ toFetch = {}
    /\ IF txMap = {}
       THEN EndRound /\ file' = record /\ UNCHANGED <<indegree, queue>>
       ELSE /\ pc' = "layer" /\ UNCHANGED file
            /\ indegree' = [t \in Tx |-> Cardinality(Parents[t] \cap txMap)]
            /\ queue' \in SetToSeqs({t \in txMap : Parents[t] \cap txMap = {}})
    /\ UNCHANGED <<node, record, toFetch, txMap, next, faults>>

\* while (queue.length > 0): batch = queue, queue.length = 0.
Layer ==
    /\ pc = "layer"
    /\ IF Len(queue) > 0
       THEN pc' = "post" /\ queue' = <<>> /\ next' = 1 /\ UNCHANGED file
       ELSE EndRound /\ file' = record /\ UNCHANGED <<queue, next>>
    /\ UNCHANGED <<node, record, toFetch, txMap, indegree, faults>>

\* broadcastOne is answered with ok or already; the children of t lose a parent.
Post ==
    /\ pc = "post" /\ next <= Len(queue)
    /\ LET t == queue[next]
           children == {c \in txMap : t \in Parents[c]}
           free == {c \in children : indegree[c] = 1} IN
        /\ Parents[t] \subseteq official
        /\ official' = official \cup {t} /\ record' = record \cup {t}
        /\ indegree' = [c \in Tx |-> IF c \in children THEN indegree[c] - 1 ELSE indegree[c]]
        /\ \E s \in SetToSeqs(free) : queue' = queue \o s
    /\ next' = next + 1
    /\ UNCHANGED <<mempool, gone, file, pc, toFetch, txMap, faults>>

\* Any other answer ends the round.
PostFails ==
    /\ pc = "post" /\ next <= Len(queue)
    /\ \/ ~(Parents[queue[next]] \subseteq official) /\ UNCHANGED faults
       \/ Fail
    /\ EndRound /\ file' = record
    /\ UNCHANGED <<node, round>>

LayerEnd ==
    /\ pc = "post" /\ next > Len(queue)
    /\ pc' = "layer"
    /\ UNCHANGED <<node, file, round, faults>>

\* getrawmempool fails, or the process dies: what is not in the file is lost.
Die ==
    /\ Fail /\ EndRound
    /\ UNCHANGED <<node, file, round>>

RunOnce ==
    \/ List \/ Graph \/ Layer \/ Post \/ PostFails \/ LayerEnd
    \/ \E t \in Tx : Fetch(t)

Next ==
    \/ \E t \in Tx : Arrive(t) \/ Mined(t) \/ Relay(t)
    \/ RunOnce \/ Die

\* The watch mode runs for ever; getrawtransaction answers for what is in the mempool.
Spec == Init /\ [][Next]_vars /\ WF_vars(RunOnce)

-----------------------------------------------------------------------------
(* Properties.                                                             *)

\* What stays in the local mempool is in the end known to the official node: "each
\* round pushes the new transactions", parents before children, and a failed one is
\* tried again in the next round.  The array of a layer is empty before its loop
\* begins, so no round posts anything.
StayersArePushed == \A t \in Tx : <>[](t \in mempool) => <>(t \in official)
=============================================================================
