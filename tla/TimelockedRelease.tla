--------------------------- MODULE TimelockedRelease ---------------------------
(***************************************************************************)
(* What the pool promises about time, with nothing of how it keeps it: it  *)
(* takes transactions in custody, each under a lock, and hands one to the  *)
(* network at most once for the first time, not before the chain has       *)
(* reached a lock it holds it under.  No row, loop, retry or restart is    *)
(* mentioned; BroadcastPool is shown to implement this.                    *)
(***************************************************************************)
EXTENDS Naturals

CONSTANTS
    Txs,
    Locks,       \* the locks it may be asked for, natural numbers
    Threshold    \* locks up to it are heights, above it median times

VARIABLES
    held,        \* [Txs -> SUBSET Locks]: the locks it was taken under
    released,    \* SUBSET Txs: known to the network
    height, mtp  \* the chain

vars == <<held, released, height, mtp>>

Init ==
    /\ held = [t \in Txs |-> {}]
    /\ released = {}
    /\ height \in Nat /\ mtp \in Nat

Met(lock) == lock <= IF lock <= Threshold THEN height ELSE mtp

\* A lock once taken is never forgotten or replaced; a second copy of a
\* transaction may bring another.
Take(t) ==
    /\ \E lock \in Locks : held' = [held EXCEPT ![t] = @ \union {lock}]
    /\ UNCHANGED <<released, height, mtp>>

Release(t) ==
    /\ \E lock \in held[t] : Met(lock)
    /\ released' = released \union {t}
    /\ UNCHANGED <<held, height, mtp>>

Grow ==
    /\ height' \in Nat /\ height' >= height
    /\ mtp' \in Nat /\ mtp' >= mtp
    /\ UNCHANGED <<held, released>>

Next == (\E t \in Txs : Take(t) \/ Release(t)) \/ Grow

Spec == Init /\ [][Next]_vars
=============================================================================
