------------------------------ MODULE TimedVault ------------------------------
(***************************************************************************)
(* What the encrypted archive promises its user, with nothing of how it    *)
(* keeps it: a row leaves the shelf only for the vault and what is in the  *)
(* vault stays there; the vault opens for its user alone, once it has a    *)
(* password, and shuts by itself when left alone.  No key, salt, lifetime, *)
(* handler or retention loop is mentioned; ArchiveKeys is shown to         *)
(* implement this.                                                         *)
(***************************************************************************)
EXTENDS Naturals

CONSTANTS
    Rows,
    Patience    \* how long it may stay open after its user has left

VARIABLES
    shelf,      \* the rows not put away
    vault,      \* the rows put away
    keyed,      \* it has a password
    open,       \* it opens, for whoever asks
    idle        \* the time since its user was last there

vars == <<shelf, vault, keyed, open, idle>>

Init ==
    /\ shelf = Rows /\ vault = {}
    /\ keyed = FALSE /\ open = FALSE
    /\ idle = 0

\* For good: there is no way to take the password away.
SetPassword ==
    /\ ~keyed
    /\ keyed' = TRUE
    /\ UNCHANGED <<shelf, vault, open, idle>>

\* The user opens it, or is there while it is open.
Use ==
    /\ keyed
    /\ open' = TRUE
    /\ idle' = 0
    /\ UNCHANGED <<shelf, vault, keyed>>

Shut ==
    /\ open' = FALSE
    /\ UNCHANGED <<shelf, vault, keyed, idle>>

\* In one piece: never on the shelf and in the vault at once.  It may be shut
\* meanwhile, what was taken in hand is put away all the same.
Store(row) ==
    /\ keyed
    /\ vault' = vault \union {row}
    /\ shelf' = shelf \ {row}
    /\ UNCHANGED <<keyed, open, idle>>

Wait ==
    /\ idle' = idle + 1
    /\ open' \in {FALSE, open /\ idle' < Patience}
    /\ UNCHANGED <<shelf, vault, keyed>>

Next ==
    \/ SetPassword \/ Use \/ Shut \/ Wait
    \/ \E row \in Rows : Store(row)

Spec == Init /\ [][Next]_vars
=============================================================================
