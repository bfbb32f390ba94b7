--------------------------- MODULE MCBroadcastPool ---------------------------
(***************************************************************************)
(* Small instances of BroadcastPool.  The transactions are named after the *)
(* nLockTime signed into them; with LockThreshold = 2 the heights are 0..2 *)
(* and the times start at 3.                                               *)
(***************************************************************************)
EXTENDS PoolClaims, TLC

MCOwnLock == [t \in Txs |-> CASE t = "free"   -> 0
                              [] t = "height" -> 1
                              [] t = "time"   -> 4]

\* Which transaction each row holds.
OneFree   == <<"free">>
OneHeight == <<"height">>
OneTime   == <<"time">>
HeightTime == <<"height", "time">>

CallerSymmetry == Permutations(Callers)
=============================================================================
