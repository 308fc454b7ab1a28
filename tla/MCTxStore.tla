------------------------------ MODULE MCTxStore -----------------------------
(***************************************************************************)
(* Transactions for TxStore.  Outpoints that play no part are left out: a  *)
(* transaction without Ins spends only outputs of no interest, one without *)
(* Outs has no output worth a satoshi.                                     *)
(***************************************************************************)
EXTENDS TxStore

\* 1 creates the outpoint "b" and is mined, 2 spends it from the mempool.
Two == {1, 2}
OneCoin == {"b"}
PairIns == [t \in Two |-> IF t = 1 THEN {} ELSE {"b"}]
PairOuts == [t \in Two |-> IF t = 1 THEN {"b"} ELSE {}]
FirstMined == [t \in Two |-> IF t = 1 THEN 1 ELSE 0]

\* A double spend: 2 and 3 spend the output of 1, only 2 is mined.
Rivals == {1, 2, 3}
RivalIns == [t \in Rivals |-> IF t = 1 THEN {} ELSE {"b"}]
RivalOuts == [t \in Rivals |-> IF t = 1 THEN {"b"} ELSE {}]
RivalBlock == [t \in Rivals |-> IF t = 3 THEN 0 ELSE 1]

\* Both spend "b", which is never indexed, only 1 is mined.
DuelIns == [t \in Two |-> {"b"}]
DuelOuts == [t \in Two |-> {}]

\* A single transaction, which is mined.
One == {1}
OneIns == [t \in One |-> {"b"}]
OneOuts == [t \in One |-> {}]
OneBlock == [t \in One |-> 1]
=============================================================================
