------------------------ MODULE MCDiagnosticProfiler ------------------------
(* Instances of DiagnosticProfiler for TLC.                                  *)
EXTENDS DiagnosticProfiler, TLC

\* The answer of a close that fails.
MinusOne == -1

Symmetry == Permutations(Threads) \cup Permutations(Cells) \cup Permutations(AllocIds)
=============================================================================
