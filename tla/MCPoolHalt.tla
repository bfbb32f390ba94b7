----------------------------- MODULE MCPoolHalt -----------------------------
(***************************************************************************)
(* A small instance of PoolHalt: transactions without an nLockTime.        *)
(***************************************************************************)
EXTENDS PoolHalt

NoLock == [t \in Txs |-> 0]

\* Which transaction each row holds.
TwoRows == <<"first", "second">>
=============================================================================
