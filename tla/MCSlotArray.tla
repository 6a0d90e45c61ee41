----------------------------- MODULE MCSlotArray -----------------------------
(* Instances of SlotArray for TLC: hash functions on small sets of ids.     *)
EXTENDS SlotArray, TLC

\* Every id has a slot of its own.
HashDistinct == [g \in Granules |-> g]

\* Every id hashes to slot 0: each open after the first is displaced.
HashSame == [g \in Granules |-> 0]

Symmetry == Permutations(Threads)
=============================================================================
