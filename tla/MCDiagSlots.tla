----------------------------- MODULE MCDiagSlots -----------------------------
(* Instances of DiagSlots for TLC.                                          *)
EXTENDS DiagSlots, TLC

Symmetry == Permutations(Threads) \cup Permutations(Cells) \cup Permutations(AllocIds)
=============================================================================
