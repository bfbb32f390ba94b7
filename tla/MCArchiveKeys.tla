----------------------------- MODULE MCArchiveKeys -----------------------------
(***************************************************************************)
(* A small instance of ArchiveKeys.                                        *)
(***************************************************************************)
EXTENDS ArchiveKeys, TLC

Symmetry == Permutations(Requests) \union Permutations(Passwords)
                                   \union Permutations(Rows)
=============================================================================
