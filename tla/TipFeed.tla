-------------------------------- MODULE TipFeed --------------------------------
(***************************************************************************)
(* What wallets are promised about the tips they are shown, with nothing   *)
(* of how the tips reach them: a height the chain has had, or, as long as  *)
(* a height is armed and to a wallet that may be fooled, that fiction;     *)
(* and nothing to a wallet that has not asked.  No cache, channel, queue   *)
(* or refresher is mentioned; ChainTip is shown to implement this.         *)
(***************************************************************************)
EXTENDS Naturals

CONSTANTS
    Sessions,
    Nothing     \* what a wallet has been shown before the first tip

VARIABLES
    peak,       \* the heights the chain has had are 1 .. peak
    target,     \* the height armed, or 0
    gullible,   \* the wallets that may be shown a fiction
    asked,      \* the wallets that want tips
    shown       \* the last tip each has been shown

vars == <<peak, target, gullible, asked, shown>>

Init ==
    /\ peak = 1 /\ target = 0
    /\ gullible = Sessions /\ asked = {}
    /\ shown = [s \in Sessions |-> Nothing]

Grow ==
    /\ peak' = peak + 1
    /\ UNCHANGED <<target, gullible, asked, shown>>

Arm ==
    /\ target' \in Nat
    /\ UNCHANGED <<peak, gullible, asked, shown>>

\* For good: a wallet that has said who it is is shown the chain.
Introduce(s) ==
    /\ gullible' = gullible \ {s}
    /\ UNCHANGED <<peak, target, asked, shown>>

Ask(s) ==
    /\ asked' = asked \union {s}
    /\ UNCHANGED <<peak, target, gullible, shown>>

\* Ahead of the chain by the height armed, or by a block when that has passed.
Fiction(h) == IF target > h + 1 THEN target ELSE h + 1

Mislead(s) == s \in gullible /\ target # 0

Show(s) ==
    /\ asked' = asked \union {s}
    /\ \E h \in 1 .. peak :
         \/ shown' = [shown EXCEPT ![s] = h]
         \/ Mislead(s) /\ shown' = [shown EXCEPT ![s] = Fiction(h)]
    /\ UNCHANGED <<peak, target, gullible>>

Next ==
    \/ Grow \/ Arm
    \/ \E s \in Sessions : Introduce(s) \/ Ask(s) \/ Show(s)

Spec == Init /\ [][Next]_vars
=============================================================================
