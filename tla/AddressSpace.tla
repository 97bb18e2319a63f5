---------------------------- MODULE AddressSpace ----------------------------
(***************************************************************************)
(* What a memory manager promises, without saying how it finds or keeps    *)
(* its free memory: the extents handed out lie within the memory and never *)
(* overlap; an extent stays where it is until it is given back, except     *)
(* that a compaction slides all of them down to address 0 in their order.  *)
(***************************************************************************)
EXTENDS Integers

CONSTANTS Size,   \* the size of the memory
          Tags    \* what an extent is labelled with

VARIABLE extents

Extent == [start : 0 .. Size - 1, size : 1 .. Size, tag : Tags]

Interval(e) == e.start .. e.start + e.size - 1

Occupied == UNION {Interval(e) : e \in extents}

Init == extents = {}

Allocate ==
    \E e \in Extent :
        /\ Interval(e) \subseteq (0 .. Size - 1) \ Occupied
        /\ extents' = extents \cup {e}

Release ==
    \E R \in SUBSET extents : extents' = extents \ R

(* to[e] is where e goes.                                                  *)
Compact ==
    \E to \in [extents -> 0 .. Size - 1] :
        /\ extents' = {[e EXCEPT !.start = to[e]] : e \in extents}
        /\ \A e, f \in extents :
              e.start < f.start => to[e] + e.size <= to[f]
        /\ \E top \in 0 .. Size : Occupied' = 0 .. top - 1

Next == Allocate \/ Release \/ Compact

Spec == Init /\ [][Next]_extents
=============================================================================
