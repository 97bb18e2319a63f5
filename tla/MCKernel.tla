------------------------------ MODULE MCKernel ------------------------------
(* The kernel on small instances.                                          *)
EXTENDS Overview, TLC

UserSymmetry == Permutations(Users)

FileSymmetry == Permutations(FileNames)
=============================================================================
