------------------------------ MODULE MCChainTip ------------------------------
(***************************************************************************)
(* A small instance of ChainTip: a wallet of either kind on the shared     *)
(* port.                                                                   *)
(***************************************************************************)
EXTENDS ChainTip

MCLabel == [s \in Sessions |-> "sparrow"]
=============================================================================
