------------------------------ MODULE BlockRow ------------------------------
(***************************************************************************)
(* What the pipeline promises about the rows of the block table, without   *)
(* daemons, queues, files and failures: which status follows which, and    *)
(* that a block is only reported completed, and only passes the double     *)
(* check, when it is stored in full.  BlockIndex implements it.            *)
(*                                                                         *)
(* Two promises are conditional.  Once a chunk could not be saved or an    *)
(* item could not be decoded (lossless is FALSE), a status says nothing    *)
(* about the tables.  Once a row was taken a second time while its         *)
(* transactions were still on their way (single is FALSE), two daemons may *)
(* hold the row and its statuses come in any order.                        *)
(***************************************************************************)
CONSTANT Blocks

VARIABLES
    status,    \* block.processStatus
    whole,     \* the blocks whose transactions have all their rows
    lossless,  \* nothing that was decoded or saved has failed
    single     \* no row was taken while T still worked on it

vars == <<status, whole, lossless, single>>

Init ==
    /\ status = [b \in Blocks |-> "nostart"]
    /\ whole = {}
    /\ lossless = TRUE /\ single = TRUE

\* One row goes on, from one of the statuses in which the daemon looks for it.
Move(b, from, to) ==
    /\ single => status[b] \in from
    /\ status' = [status EXCEPT ![b] = to]
    /\ UNCHANGED <<whole, lossless, single>>

Download(b) == Move(b, {"nostart", "downloading"}, "downloading")
Downloaded(b) == Move(b, {"downloading"}, "downloaded")
Take(b) == Move(b, {"downloaded", "processing"}, "processing")
Reject(b) == Move(b, {"downloaded", "processing"}, "nostart")

Complete(b) ==
    /\ lossless => b \in whole
    /\ Move(b, {"processing"}, "completed")

Pass(b) ==
    /\ lossless => b \in whole
    /\ Move(b, {"completed"}, "doubleCheck")

\* The double check sends a block back only when something was lost.
Refuse(b) ==
    /\ ~lossless
    /\ Move(b, {"completed"}, "nostart")

Store ==
    /\ whole \subseteq whole' /\ whole' \subseteq Blocks
    /\ UNCHANGED <<status, lossless, single>>

Lose == lossless' = FALSE /\ UNCHANGED <<status, whole, single>>

Repeat == single' = FALSE /\ UNCHANGED <<status, whole, lossless>>

Next ==
    \/ \E b \in Blocks : \/ Download(b) \/ Downloaded(b) \/ Take(b) \/ Reject(b)
                         \/ Complete(b) \/ Pass(b) \/ Refuse(b)
    \/ Store \/ Lose \/ Repeat

Spec == Init /\ [][Next]_vars
=============================================================================
