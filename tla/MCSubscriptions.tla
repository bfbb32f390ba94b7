--------------------------- MODULE MCSubscriptions ---------------------------
(***************************************************************************)
(* Small instances of Subscriptions: a wallet spends from one scripthash   *)
(* to another; an old payment stands on the first.                         *)
(***************************************************************************)
EXTENDS Subscriptions

\* Transaction "pay" spends from "from" to "to"; "gift" pays "from".
MCOutputsOf == [t \in Txs |-> IF t = "pay" THEN {"to"} ELSE {"from"}]
MCInputsOf == [t \in Txs |-> IF t = "pay" THEN {"from"} ELSE {}]
=============================================================================
