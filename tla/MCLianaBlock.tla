---------------------------- MODULE MCLianaBlock ----------------------------
(***************************************************************************)
(* Small instances of LianaBlock.                                          *)
(***************************************************************************)
EXTENDS LianaBlock

\* Arm with each target, switch off, arm again with the target left as it is,
\* and a request refused for its notification settings.
AllKinds ==
    {r \in Request : r.notify_ok}
    \union {r \in Request : r.enable = "on" /\ ~r.notify_ok}

\* Save the form with the block ticked.
On == {r \in Request : r.notify_ok /\ r.enable = "on" /\ r.target # NoTarget}
=============================================================================
