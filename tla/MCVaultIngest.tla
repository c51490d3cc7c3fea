--------------------------- MODULE MCVaultIngest ----------------------------
(***************************************************************************)
(* Small instances of VaultIngest.                                         *)
(***************************************************************************)
EXTENDS VaultIngest, TLC

CONSTANTS n1, n2, g1, g2    \* notes and tags

\* Each note has a tag of its own.
OwnTag(n) == IF n = n1 THEN g1 ELSE g2

\* iai gives both notes the same tag.
SharedTag(n) == g1

Symmetry == Permutations(Runs) \cup Permutations(Texts) \cup Permutations(Stores)
            \cup Permutations(Ids \ {EmptyId})
=============================================================================
