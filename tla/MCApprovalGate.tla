--------------------------- MODULE MCApprovalGate ----------------------------
(***************************************************************************)
(* Small instance of ApprovalGate.                                         *)
(***************************************************************************)
EXTENDS ApprovalGate, TLC

Symmetry == Permutations(Threads) \cup Permutations(Keys)
=============================================================================
