------------------------- MODULE MCMemoryPartition --------------------------
(* The memory manager on small instances.                                  *)
EXTENDS MemoryPartition, TLC

UserSymmetry == Permutations(Users)
=============================================================================
