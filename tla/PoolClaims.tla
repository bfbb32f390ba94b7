----------------------------- MODULE PoolClaims -----------------------------
(***************************************************************************)
(* What a comment of the repository says of the pool, stated of            *)
(* BroadcastPool.  The code does not keep this promise in every            *)
(* interleaving; the run on it exhibits where it does not.                 *)
(***************************************************************************)
EXTENDS BroadcastPool

\* db/mod.rs, reseal_row_mac: resealing is there "so a legitimate write
\* doesn't leave row_mac stale and get flagged as tampered on the next read".
\* Nothing in the model edits a row behind the program's back, so an alarm
\* (enter_safe_mode) is a false one.
NoFalseAlarm == ~safe_mode
=============================================================================
