----------------------------- MODULE MCInstances ----------------------------
(* The windows of the program on small instances.                          *)
EXTENDS Instances, TLC

WindowSymmetry == Permutations(Windows)
=============================================================================
