------------------------- MODULE MCVaultTransaction -------------------------
(***************************************************************************)
(* Small instances of VaultTransaction.                                    *)
(***************************************************************************)
EXTENDS VaultTransaction, TLC

CONSTANTS n1, d1    \* one vault note, one inbox draft

Symmetry == Permutations(Tokens) \cup Permutations(Workers)

\* Which paths other programs write, one definition per run.
NoEdits == {}
AllEdits == {n1, d1}
=============================================================================
