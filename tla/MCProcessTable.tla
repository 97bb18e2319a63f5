--------------------------- MODULE MCProcessTable ---------------------------
(* The scheduler and the process table on small instances.                 *)
EXTENDS ProcessTable, ProcessViews, TLC

UserSymmetry == Permutations(Users)

(* The closed form by which QueueOps filters a queue is the library's      *)
(* recursive filter, which keeps the order as erase(remove(...)) does.     *)
ASSUME EraseIsFilter ==
    \A n \in 0 .. 4 : \A q \in [1 .. n -> 1 .. 3], S \in SUBSET (1 .. 3) :
        LET Keeps(pid) == pid \notin S
        IN  Erase(q, S) = SelectSeq(q, Keeps)
=============================================================================
