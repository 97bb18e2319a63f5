------------------------------ MODULE QueueOps ------------------------------
(***************************************************************************)
(* Filtering a ready queue.  std::deque's erase(remove(...)) and the       *)
(* erase-while-iterating loops of ProcessManager.cpp drop entries and keep *)
(* the others in their order.  SelectSeq would say the same, but it is     *)
(* recursive and out of the provers' reach: the k-th entry of the result   *)
(* is written here in closed form, and an assumption of MCProcessTable has *)
(* TLC check that the two agree.                                           *)
(***************************************************************************)
EXTENDS Integers, Sequences, FiniteSets, Functions

(* How many positions of K lie at or before i.                             *)
Rank(K, i) == Cardinality({j \in K : j <= i})

(* The entries of q at the positions K, in their order.                    *)
KeepAt(q, K) ==
    [k \in 1 .. Cardinality(K) |-> q[CHOOSE i \in K : Rank(K, i) = k]]

(* The positions of q whose value is not in S.                             *)
Kept(q, S) == {i \in DOMAIN q : q[i] \notin S}

(* q without the values in S.                                              *)
Erase(q, S) == KeepAt(q, Kept(q, S))
=============================================================================
