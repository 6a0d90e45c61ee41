------------------------ MODULE MCProductionProfiler ------------------------
(* Instances of ProductionProfiler for TLC.                                  *)
EXTENDS ProductionProfiler, TLC

HashDistinct == [g \in Granules |-> g]

Symmetry == Permutations(Threads)
=============================================================================
