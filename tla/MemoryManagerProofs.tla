------------------------- MODULE MemoryManagerProofs ------------------------
(***************************************************************************)
(* What the operations of the memory manager do to a partition, as lemmas  *)
(* about partitions as values: merging, releasing, splitting and           *)
(* compacting keep the blocks a tiling of the memory whose FREE neighbours *)
(* are merged.  There is only one such tiling around given allocations,    *)
(* and the sizes of its blocks make up the memory.                         *)
(***************************************************************************)
EXTENDS MemoryManager, QueueOpsProofs

-----------------------------------------------------------------------------
(* Least and greatest elements of sets of addresses, which the runs of     *)
(* Merged are made of.                                                     *)

Addresses == 0 .. TotalMemoryKB

LEMMA SubsetsFinite ==
    ASSUME NEW K \in SUBSET Addresses
    PROVE  K \in SUBSET Int /\ IsFiniteSet(K)
<1>1. TotalMemoryKB \in Int
  BY MemoryAssumption
<1>2. IsFiniteSet(Addresses) /\ Addresses \subseteq Int
  BY <1>1, FS_Interval DEF Addresses
<1> QED
  BY <1>2, FS_Subset

LEMMA HasLeast ==
    ASSUME NEW K \in SUBSET Addresses, K # {}
    PROVE  \E m \in K : \A k \in K : m <= k
BY SubsetsFinite, Smallest

LEMMA HasGreatest ==
    ASSUME NEW K \in SUBSET Addresses, K # {}
    PROVE  \E m \in K : \A k \in K : k <= m
<1>1. K \in SUBSET Int /\ IsFiniteSet(K)
  BY SubsetsFinite
<1>2. /\ Cardinality(K) \in Nat
      /\ \A i \in K : Rank(K, i) \in 1 .. Cardinality(K)
      /\ \A i, j \in K : i < j => Rank(K, i) < Rank(K, j)
      /\ \A k \in 1 .. Cardinality(K) : \E i \in K : Rank(K, i) = k
  BY <1>1, RankBijective
<1>3. PICK m \in K : Rank(K, m) = Cardinality(K)
  BY <1>2
<1>4. \A k \in K : ~(m < k)
  BY <1>2, <1>3
<1> QED
  BY <1>1, <1>3, <1>4

-----------------------------------------------------------------------------
(* Partitions.                                                             *)

Valid(B) == B \subseteq MemoryBlock /\ validateBlocks(B)

Coalesced(B) == \A b, c \in FreeBlocks(B) : EndOf(b) # c.start

(* What validateBlocks says, in terms of addresses.                        *)
LEMMA ValidBlocks ==
    ASSUME NEW B, Valid(B)
    PROVE  /\ \A b \in B : /\ b \in MemoryBlock
                           /\ b.start \in Nat /\ EndOf(b) \in Nat
                           /\ b.start < EndOf(b) /\ EndOf(b) <= TotalMemoryKB
                           /\ b.size = EndOf(b) - b.start
           /\ \A b, c \in B : \A k \in Int :
                 /\ b.start <= k /\ k < EndOf(b)
                 /\ c.start <= k /\ k < EndOf(c)
                 => b = c
           /\ \A k \in Int : 0 <= k /\ k < TotalMemoryKB
                 => \E b \in B : b.start <= k /\ k < EndOf(b)
<1> USE MemoryAssumption
<1>1. \A b \in B : b \in MemoryBlock /\ b.size > 0 /\ EndOf(b) <= TotalMemoryKB
  BY DEF Valid, validateBlocks
<1>2. \A b \in B : /\ b.start \in Nat /\ EndOf(b) \in Nat
                   /\ b.start < EndOf(b) /\ b.size = EndOf(b) - b.start
  BY <1>1 DEF MemoryBlock, EndOf
<1>3. \A b \in B : \A k \in Int : k \in Cells(b) <=> b.start <= k /\ k < EndOf(b)
  BY <1>2 DEF Cells
<1>4. \A b, c \in B : b # c => Cells(b) \cap Cells(c) = {}
  BY DEF Valid, validateBlocks
<1>5. \A k \in 0 .. TotalMemoryKB - 1 : \E b \in B : k \in Cells(b)
  BY DEF Valid, validateBlocks
<1>6. ASSUME NEW b \in B, NEW c \in B, NEW k \in Int,
             b.start <= k, k < EndOf(b), c.start <= k, k < EndOf(c)
      PROVE  b = c
  <2>1. k \in Cells(b) /\ k \in Cells(c)
    BY <1>3, <1>6
  <2> QED
    BY <1>4, <2>1
<1>7. ASSUME NEW k \in Int, 0 <= k, k < TotalMemoryKB
      PROVE  \E b \in B : b.start <= k /\ k < EndOf(b)
  <2>1. k \in 0 .. TotalMemoryKB - 1
    BY <1>7
  <2> QED
    BY <1>3, <1>5, <2>1
<1> QED
  BY <1>1, <1>2, <1>6, <1>7

(* ... and back.                                                           *)
LEMMA BlocksValid ==
    ASSUME NEW B,
           \A b \in B : /\ b \in MemoryBlock
                        /\ b.start < EndOf(b) /\ EndOf(b) <= TotalMemoryKB
                        /\ b.type = "FREE" => b.pid = 0 /\ b.owner = NoUser,
           \A b, c \in B : \A k \in Int :
              b.start <= k /\ k < EndOf(b) /\ c.start <= k /\ k < EndOf(c) => b = c,
           \A k \in Int : 0 <= k /\ k < TotalMemoryKB
              => \E b \in B : b.start <= k /\ k < EndOf(b)
    PROVE  Valid(B)
<1> USE MemoryAssumption
<1>1. \A b \in B : b.start \in Nat /\ b.size \in Nat /\ EndOf(b) \in Nat /\ b.size > 0
  BY DEF MemoryBlock, EndOf
<1>2. \A b \in B : \A k \in Int : k \in Cells(b) <=> b.start <= k /\ k < EndOf(b)
  BY <1>1 DEF Cells
<1>3. \A b \in B : Cells(b) \subseteq Int
  BY <1>1 DEF Cells
<1>4. \A b, c \in B : b # c => Cells(b) \cap Cells(c) = {}
  BY <1>2, <1>3
<1>5. \A k \in 0 .. TotalMemoryKB - 1 : \E b \in B : k \in Cells(b)
  BY <1>2
<1> QED
  BY <1>1, <1>4, <1>5 DEF Valid, validateBlocks

-----------------------------------------------------------------------------
(* Merging.                                                                *)

InBlock(b, k) == b.start <= k /\ k < EndOf(b)

FreeCell(B, k) == \E f \in FreeBlocks(B) : InBlock(f, k)

RunStarts(B) == {f.start : f \in {g \in FreeBlocks(B) :
                     \A h \in FreeBlocks(B) : EndOf(h) # g.start}}

RunStops(B) == {EndOf(f) : f \in {g \in FreeBlocks(B) :
                     \A h \in FreeBlocks(B) : h.start # EndOf(g)}}

RunEnd(B, s) ==
    CHOOSE e \in RunStops(B) : e > s /\ \A x \in RunStops(B) : x > s => e <= x

LEMMA MergedIs ==
    ASSUME NEW B
    PROVE  Merged(B) = Allocated(B) \cup {FreeBlock(s, RunEnd(B, s) - s) : s \in RunStarts(B)}
BY DEF Merged, RunStarts, RunStops, RunEnd

LEMMA FreeFacts ==
    ASSUME NEW B, Valid(B)
    PROVE  /\ \A f \in FreeBlocks(B) :
                 /\ f \in B /\ f.start \in Nat /\ EndOf(f) \in Nat
                 /\ f.start < EndOf(f) /\ EndOf(f) <= TotalMemoryKB
           /\ \A f, g \in B : \A k \in Int : InBlock(f, k) /\ InBlock(g, k) => f = g
           /\ RunStarts(B) \in SUBSET Addresses
           /\ RunStops(B) \in SUBSET Addresses
           /\ \A s \in RunStarts(B) :
                 /\ \E f \in FreeBlocks(B) : f.start = s
                 /\ \A h \in FreeBlocks(B) : EndOf(h) # s
           /\ \A e \in RunStops(B) :
                 /\ \E f \in FreeBlocks(B) : EndOf(f) = e
                 /\ \A h \in FreeBlocks(B) : h.start # e
<1>1. \A f \in FreeBlocks(B) :
         /\ f \in B /\ f.start \in Nat /\ EndOf(f) \in Nat
         /\ f.start < EndOf(f) /\ EndOf(f) <= TotalMemoryKB
  BY ValidBlocks DEF FreeBlocks
<1>2. \A f, g \in B : \A k \in Int : InBlock(f, k) /\ InBlock(g, k) => f = g
  BY ValidBlocks DEF InBlock
<1>3. \A f \in FreeBlocks(B) : f.start \in Addresses /\ EndOf(f) \in Addresses
  BY <1>1, MemoryAssumption DEF Addresses
<1>4. RunStarts(B) \in SUBSET Addresses /\ RunStops(B) \in SUBSET Addresses
  BY <1>3 DEF RunStarts, RunStops
<1> QED
  BY <1>1, <1>2, <1>4 DEF RunStarts, RunStops

(* A run ends at the first end after its start, and is free throughout.    *)
LEMMA RunFacts ==
    ASSUME NEW B, Valid(B), NEW s \in RunStarts(B)
    PROVE  /\ RunEnd(B, s) \in RunStops(B) /\ s < RunEnd(B, s)
           /\ \A x \in RunStops(B) : x > s => RunEnd(B, s) <= x
           /\ \A k \in Int : s <= k /\ k < RunEnd(B, s) => FreeCell(B, k)
<1> USE MemoryAssumption
<1>1. /\ \A f \in FreeBlocks(B) :
            /\ f \in B /\ f.start \in Nat /\ EndOf(f) \in Nat
            /\ f.start < EndOf(f) /\ EndOf(f) <= TotalMemoryKB
      /\ RunStops(B) \in SUBSET Addresses /\ s \in Nat
  BY FreeFacts DEF Addresses
<1>2. PICK first \in FreeBlocks(B) : first.start = s
  BY FreeFacts
<1>3. \E e \in RunStops(B) : e > s
  <2> DEFINE K == {EndOf(f) : f \in FreeBlocks(B)}
  <2>1. K \in SUBSET Addresses /\ K # {}
    BY <1>1, <1>2 DEF Addresses
  <2>2. PICK e \in K : \A k \in K : k <= e
    BY <2>1, HasGreatest
  <2>3. PICK f \in FreeBlocks(B) : EndOf(f) = e
    BY <2>2
  <2>4. \A h \in FreeBlocks(B) : EndOf(h) <= e
    BY <2>2
  <2> HIDE DEF K
  <2>5. \A h \in FreeBlocks(B) : h.start # e
    BY <1>1, <2>3, <2>4
  <2>6. e \in RunStops(B)
    BY <2>3, <2>5 DEF RunStops
  <2>7. e > s
    BY <1>1, <1>2, <2>3, <2>4
  <2> QED
    BY <2>6, <2>7
<1>4. \E e \in RunStops(B) : e > s /\ \A x \in RunStops(B) : x > s => e <= x
  <2> DEFINE K == {e \in RunStops(B) : e > s}
  <2>1. PICK e \in K : \A k \in K : e <= k
    BY <1>1, <1>3, HasLeast
  <2> QED
    BY <2>1
<1> DEFINE e == RunEnd(B, s)
<1>5. e \in RunStops(B) /\ e > s /\ \A x \in RunStops(B) : x > s => e <= x
  BY <1>4 DEF RunEnd
<1> HIDE DEF e
<1>6. e \in Nat /\ e <= TotalMemoryKB
  BY <1>1, <1>5 DEF Addresses
<1>7. \A k \in Int : s <= k /\ k < e => FreeCell(B, k)
  <2> DEFINE K == {k \in Addresses : s <= k /\ k < e /\ ~FreeCell(B, k)}
  <2>1. SUFFICES ASSUME K # {} PROVE FALSE
    BY <1>1, <1>6 DEF Addresses
  <2>2. PICK k \in K : \A j \in K : k <= j
    BY <2>1, HasLeast
  <2>3. FreeCell(B, s)
    BY <1>1, <1>2 DEF FreeCell, InBlock
  <2>4. k \in Nat /\ s < k /\ k < e
    BY <1>1, <2>2, <2>3 DEF Addresses
  <2>5. k - 1 \in Addresses /\ s <= k - 1 /\ k - 1 < e
    BY <1>1, <1>6, <2>4 DEF Addresses
  <2>6. FreeCell(B, k - 1)
    <3>1. SUFFICES ASSUME k - 1 \in K PROVE FALSE
      BY <2>5
    <3> HIDE DEF K
    <3>2. k <= k - 1
      BY <2>2, <3>1
    <3> QED
      BY <2>4, <3>2
  <2>7. PICK f \in FreeBlocks(B) : InBlock(f, k - 1)
    BY <2>6 DEF FreeCell
  <2>8. EndOf(f) = k
    BY <1>1, <2>2, <2>4, <2>7 DEF InBlock, FreeCell
  <2>9. \A h \in FreeBlocks(B) : h.start # k
    BY <1>1, <2>2, <2>4 DEF FreeCell, InBlock
  <2>10. k \in RunStops(B)
    BY <2>8, <2>9 DEF RunStops
  <2> QED
    BY <1>5, <2>4, <2>10, <1>6
<1> QED
  BY <1>5, <1>7 DEF e

(* Every free cell is in a run.                                            *)
LEMMA CellInRun ==
    ASSUME NEW B, Valid(B), NEW k \in Int, FreeCell(B, k)
    PROVE  \E s \in RunStarts(B) : s <= k /\ k < RunEnd(B, s)
<1> USE MemoryAssumption
<1>1. /\ \A f \in FreeBlocks(B) :
            /\ f \in B /\ f.start \in Nat /\ EndOf(f) \in Nat
            /\ f.start < EndOf(f) /\ EndOf(f) <= TotalMemoryKB
      /\ \A f, g \in B : \A j \in Int : InBlock(f, j) /\ InBlock(g, j) => f = g
      /\ RunStops(B) \in SUBSET Addresses
  BY FreeFacts
<1>2. k \in Nat /\ k < TotalMemoryKB
  BY <1>1 DEF FreeCell, InBlock
<1> DEFINE K == {m \in Addresses : m <= k /\ \A i \in Int : m <= i /\ i <= k => FreeCell(B, i)}
<1>3. k \in K
  BY <1>2 DEF Addresses
<1>4. PICK m \in K : \A j \in K : m <= j
  <2> HIDE DEF K
  <2>1. K \in SUBSET Addresses
    BY DEF K
  <2> QED
    BY <1>3, <2>1, HasLeast
<1>5. /\ m \in Nat /\ m <= k
      /\ \A i \in Int : m <= i /\ i <= k => FreeCell(B, i)
      /\ \A j \in Addresses : j < m => ~(\A i \in Int : j <= i /\ i <= k => FreeCell(B, i))
  BY <1>2, <1>4 DEF Addresses
<1>6. PICK f \in FreeBlocks(B) : InBlock(f, m)
  BY <1>5 DEF FreeCell
<1>7. f.start = m
  <2>1. SUFFICES ASSUME f.start < m PROVE FALSE
    BY <1>1, <1>5, <1>6 DEF InBlock
  <2>2. f.start \in Addresses
    BY <1>1 DEF Addresses
  <2>3. ASSUME NEW i \in Int, f.start <= i, i <= k PROVE FreeCell(B, i)
    <3>1. CASE i < m
      BY <1>1, <1>5, <1>6, <2>3, <3>1 DEF FreeCell, InBlock
    <3>2. CASE m <= i
      BY <1>5, <2>3, <3>2
    <3> QED
      BY <1>5, <3>1, <3>2
  <2> QED
    BY <1>5, <2>1, <2>2, <2>3
<1>8. \A h \in FreeBlocks(B) : EndOf(h) # m
  <2> SUFFICES ASSUME NEW h \in FreeBlocks(B), EndOf(h) = m PROVE FALSE
    OBVIOUS
  <2>1. InBlock(h, m - 1) /\ m - 1 \in Nat
    BY <1>1 DEF InBlock
  <2>2. m - 1 \in Addresses
    BY <1>2, <1>5, <2>1 DEF Addresses
  <2>3. ASSUME NEW i \in Int, m - 1 <= i, i <= k PROVE FreeCell(B, i)
    <3>1. CASE i = m - 1
      BY <2>1, <3>1 DEF FreeCell
    <3>2. CASE i # m - 1
      BY <1>5, <2>3, <3>2
    <3> QED
      BY <3>1, <3>2
  <2> QED
    BY <1>5, <2>2, <2>3
<1>9. m \in RunStarts(B)
  BY <1>6, <1>7, <1>8 DEF RunStarts
<1>10. k < RunEnd(B, m)
  <2> DEFINE e == RunEnd(B, m)
  <2>1. e \in RunStops(B) /\ m < e
    BY <1>9, RunFacts
  <2> HIDE DEF e
  <2>2. e \in Nat
    BY <1>1, <2>1 DEF Addresses
  <2>3. PICK g \in FreeBlocks(B) : EndOf(g) = e
    BY <2>1, FreeFacts
  <2>4. \A h \in FreeBlocks(B) : h.start # e
    BY <2>1, FreeFacts
  <2>5. SUFFICES ASSUME e <= k PROVE FALSE
    BY <2>2 DEF e
  <2>6. PICK h \in FreeBlocks(B) : InBlock(h, e)
    BY <1>5, <2>1, <2>2, <2>5 DEF FreeCell
  <2>7. InBlock(h, e - 1) /\ InBlock(g, e - 1)
    BY <1>1, <2>2, <2>3, <2>4, <2>6 DEF InBlock
  <2>8. g = h
    BY <1>1, <2>2, <2>7
  <2> QED
    BY <1>1, <2>3, <2>6, <2>8 DEF InBlock
<1> QED
  BY <1>5, <1>9, <1>10

(* A run ends before the next one begins.                                  *)
LEMMA RunsApart ==
    ASSUME NEW B, Valid(B), NEW s \in RunStarts(B), NEW t \in RunStarts(B), s < t
    PROVE  RunEnd(B, s) < t
<1>1. /\ \A f \in FreeBlocks(B) :
            /\ f \in B /\ f.start \in Nat /\ EndOf(f) \in Nat
            /\ f.start < EndOf(f) /\ EndOf(f) <= TotalMemoryKB
      /\ \A f, g \in B : \A j \in Int : InBlock(f, j) /\ InBlock(g, j) => f = g
      /\ RunStops(B) \in SUBSET Addresses /\ s \in Nat /\ t \in Nat
  BY FreeFacts DEF Addresses
<1> DEFINE e == RunEnd(B, s)
<1>2. /\ e \in RunStops(B) /\ s < e
      /\ \A k \in Int : s <= k /\ k < e => FreeCell(B, k)
  BY RunFacts
<1> HIDE DEF e
<1>3. e \in Nat
  BY <1>1, <1>2 DEF Addresses
<1>4. PICK g \in FreeBlocks(B) : g.start = t
  BY FreeFacts
<1>5. e # t
  BY <1>2, <1>4, FreeFacts
<1>6. ASSUME t < e PROVE FALSE
  <2>1. PICK f \in FreeBlocks(B) : InBlock(f, t - 1)
    BY <1>1, <1>2, <1>6, <1>3 DEF FreeCell
  <2>2. EndOf(f) # t
    BY FreeFacts
  <2>3. InBlock(f, t) /\ InBlock(g, t)
    BY <1>1, <1>4, <2>1, <2>2 DEF InBlock
  <2>4. f = g
    BY <1>1, <2>3
  <2> QED
    BY <1>1, <1>4, <2>1, <2>4 DEF InBlock
<1> QED
  BY <1>1, <1>3, <1>5, <1>6 DEF e

(* Merging keeps a partition a partition, and leaves no free neighbours.   *)
LEMMA MergedValid ==
    ASSUME NEW B, Valid(B) PROVE Valid(Merged(B)) /\ Coalesced(Merged(B))
<1> USE MemoryAssumption
<1> DEFINE M == Merged(B)
           run(s) == FreeBlock(s, RunEnd(B, s) - s)
<1>1. M = Allocated(B) \cup {run(s) : s \in RunStarts(B)}
  BY MergedIs
<1>2. /\ \A b \in B : /\ b \in MemoryBlock
                       /\ b.start \in Nat /\ EndOf(b) \in Nat
                       /\ b.start < EndOf(b) /\ EndOf(b) <= TotalMemoryKB
      /\ \A b, c \in B : \A k \in Int : InBlock(b, k) /\ InBlock(c, k) => b = c
      /\ \A k \in Int : 0 <= k /\ k < TotalMemoryKB => \E b \in B : InBlock(b, k)
  BY ValidBlocks DEF InBlock
<1>3. \A s \in RunStarts(B) :
         /\ s \in Nat /\ RunEnd(B, s) \in Nat /\ s < RunEnd(B, s)
         /\ RunEnd(B, s) <= TotalMemoryKB
         /\ \A k \in Int : s <= k /\ k < RunEnd(B, s) => FreeCell(B, k)
  BY RunFacts, FreeFacts DEF Addresses
<1>4. ASSUME NEW s \in RunStarts(B)
      PROVE  /\ run(s) \in MemoryBlock /\ run(s).type = "FREE"
             /\ run(s).pid = 0 /\ run(s).owner = NoUser
             /\ run(s).start = s /\ EndOf(run(s)) = RunEnd(B, s)
  <2>1. RunEnd(B, s) - s \in Nat /\ s \in Nat /\ RunEnd(B, s) \in Nat
    BY <1>3
  <2> QED
    BY <2>1 DEF FreeBlock, MemoryBlock, EndOf
<1> HIDE DEF M, run
<1>5. \A b \in M :
         \/ b \in B /\ b.type # "FREE"
         \/ \E s \in RunStarts(B) : b = run(s)
  BY <1>1 DEF Allocated
<1>6. ASSUME NEW b \in M
      PROVE  /\ b \in MemoryBlock
             /\ b.start < EndOf(b) /\ EndOf(b) <= TotalMemoryKB
             /\ b.type = "FREE" => b.pid = 0 /\ b.owner = NoUser
  <2>1. CASE b \in B /\ b.type # "FREE"
    BY <1>2, <2>1
  <2>2. ASSUME NEW s \in RunStarts(B), b = run(s)
        PROVE  /\ b \in MemoryBlock
               /\ b.start < EndOf(b) /\ EndOf(b) <= TotalMemoryKB
               /\ b.pid = 0 /\ b.owner = NoUser
    BY <1>3, <1>4, <2>2
  <2> QED
    BY <1>5, <2>1, <2>2
<1>7. \A s, t \in RunStarts(B) : \A k \in Int :
         InBlock(run(s), k) /\ InBlock(run(t), k) => s = t
  <2> SUFFICES ASSUME NEW s \in RunStarts(B), NEW t \in RunStarts(B), NEW k \in Int,
                      s <= k, k < RunEnd(B, s), t <= k, k < RunEnd(B, t)
               PROVE  s = t
    BY <1>4 DEF InBlock
  <2>1. ~(s < t) /\ ~(t < s)
    BY <1>3, RunsApart
  <2> QED
    BY <1>3, <2>1
<1>8. \A b \in B : \A s \in RunStarts(B) : \A k \in Int :
         InBlock(b, k) /\ InBlock(run(s), k) => b.type = "FREE"
  <2> SUFFICES ASSUME NEW b \in B, NEW s \in RunStarts(B), NEW k \in Int,
                      InBlock(b, k), s <= k, k < RunEnd(B, s)
               PROVE  b.type = "FREE"
    BY <1>4 DEF InBlock
  <2>1. PICK f \in FreeBlocks(B) : InBlock(f, k)
    BY <1>3 DEF FreeCell
  <2> QED
    BY <1>2, <2>1 DEF FreeBlocks
<1>9. ASSUME NEW b \in M, NEW c \in M, NEW k \in Int, InBlock(b, k), InBlock(c, k)
      PROVE  b = c
  <2>1. CASE b \in B /\ c \in B
    BY <1>2, <1>9, <2>1
  <2>2. CASE b \in B /\ b.type # "FREE" /\ \E s \in RunStarts(B) : c = run(s)
    BY <1>8, <1>9, <2>2
  <2>3. CASE c \in B /\ c.type # "FREE" /\ \E s \in RunStarts(B) : b = run(s)
    BY <1>8, <1>9, <2>3
  <2>4. CASE (\E s \in RunStarts(B) : b = run(s)) /\ (\E s \in RunStarts(B) : c = run(s))
    BY <1>7, <1>9, <2>4
  <2> QED
    BY <1>5, <2>1, <2>2, <2>3, <2>4
<1>10. ASSUME NEW k \in Int, 0 <= k, k < TotalMemoryKB
       PROVE  \E b \in M : InBlock(b, k)
  <2>1. PICK b \in B : InBlock(b, k)
    BY <1>2, <1>10
  <2>2. CASE b.type # "FREE"
    BY <1>1, <2>1, <2>2 DEF Allocated
  <2>3. CASE b.type = "FREE"
    <3>1. FreeCell(B, k)
      BY <2>1, <2>3 DEF FreeCell, FreeBlocks
    <3>2. PICK s \in RunStarts(B) : s <= k /\ k < RunEnd(B, s)
      BY <3>1, CellInRun
    <3>3. InBlock(run(s), k) /\ run(s) \in M
      BY <1>1, <1>4, <3>2 DEF InBlock
    <3> QED
      BY <3>3
  <2> QED
    BY <2>2, <2>3
<1>11. Valid(M)
  BY <1>6, <1>9, <1>10, BlocksValid DEF InBlock
<1>12. Coalesced(M)
  <2> SUFFICES ASSUME NEW b \in FreeBlocks(M), NEW c \in FreeBlocks(M), EndOf(b) = c.start
               PROVE  FALSE
    BY DEF Coalesced
  <2>1. PICK s \in RunStarts(B), t \in RunStarts(B) : b = run(s) /\ c = run(t)
    BY <1>5 DEF FreeBlocks
  <2>2. RunEnd(B, s) = t
    BY <1>4, <2>1
  <2>3. s < t
    BY <1>3, <2>2
  <2> QED
    BY <1>3, <2>2, <2>3, RunsApart
<1> QED
  BY <1>11, <1>12 DEF M

-----------------------------------------------------------------------------
(* Releasing and placing.                                                  *)

LEMMA ReleasedValid ==
    ASSUME NEW B, Valid(B), NEW R \in SUBSET B
    PROVE  Valid(Released(B, R)) /\ Coalesced(Released(B, R))
<1> DEFINE free(b) == FreeBlock(b.start, b.size)
           C == (B \ R) \cup {free(b) : b \in R}
<1>1. /\ \A b \in B : /\ b \in MemoryBlock
                       /\ b.start \in Nat /\ EndOf(b) \in Nat
                       /\ b.start < EndOf(b) /\ EndOf(b) <= TotalMemoryKB
      /\ \A b, c \in B : \A k \in Int : InBlock(b, k) /\ InBlock(c, k) => b = c
      /\ \A k \in Int : 0 <= k /\ k < TotalMemoryKB => \E b \in B : InBlock(b, k)
      /\ \A b \in B : b.type = "FREE" => b.pid = 0 /\ b.owner = NoUser
  BY ValidBlocks DEF InBlock, Valid, validateBlocks
<1>2. \A b \in R : /\ free(b) \in MemoryBlock
                   /\ free(b).start = b.start /\ EndOf(free(b)) = EndOf(b)
                   /\ free(b).pid = 0 /\ free(b).owner = NoUser
  BY <1>1 DEF FreeBlock, MemoryBlock, EndOf
<1> HIDE DEF free
(* Each block of C has the extent of one of B.                             *)
<1>3. \A c \in C :
         \/ c \in B \ R
         \/ \E b \in R : c = free(b)
  OBVIOUS
<1>4. ASSUME NEW b \in C
      PROVE  /\ b \in MemoryBlock
             /\ b.start < EndOf(b) /\ EndOf(b) <= TotalMemoryKB
             /\ b.type = "FREE" => b.pid = 0 /\ b.owner = NoUser
  BY <1>1, <1>2, <1>3
<1>5. ASSUME NEW b \in C, NEW c \in C, NEW k \in Int, InBlock(b, k), InBlock(c, k)
      PROVE  b = c
  <2>1. \A r \in R : InBlock(free(r), k) <=> InBlock(r, k)
    BY <1>2 DEF InBlock
  <2>2. CASE b \in B \ R /\ c \in B \ R
    BY <1>1, <1>5, <2>2
  <2>3. CASE b \in B \ R /\ \E r \in R : c = free(r)
    BY <1>1, <1>5, <2>1, <2>3
  <2>4. CASE c \in B \ R /\ \E r \in R : b = free(r)
    BY <1>1, <1>5, <2>1, <2>4
  <2>5. CASE (\E r \in R : b = free(r)) /\ (\E r \in R : c = free(r))
    BY <1>1, <1>5, <2>1, <2>5
  <2> QED
    BY <1>3, <2>2, <2>3, <2>4, <2>5
<1>6. ASSUME NEW k \in Int, 0 <= k, k < TotalMemoryKB
      PROVE  \E b \in C : InBlock(b, k)
  <2>1. PICK b \in B : InBlock(b, k)
    BY <1>1, <1>6
  <2>2. b \in R => InBlock(free(b), k)
    BY <1>2, <2>1 DEF InBlock
  <2> QED
    BY <2>1, <2>2
<1> HIDE DEF C
<1>7. Valid(C)
  BY <1>4, <1>5, <1>6, BlocksValid DEF InBlock
<1> QED
  BY <1>7, MergedValid DEF Released, C, free

LEMMA PlacedValid ==
    ASSUME NEW B, Valid(B), Coalesced(B), NEW b \in FreeBlocks(B),
           NEW sizeKB \in Nat, sizeKB > 0, sizeKB <= b.size,
           NEW type \in {"PROCESS", "KERNEL"}, NEW pid \in Nat, NEW owner \in Users
    PROVE  LET P == Placed(B, b, sizeKB, type, pid, owner)
           IN  Valid(P) /\ Coalesced(P)
<1> DEFINE P == Placed(B, b, sizeKB, type, pid, owner)
           new == [start |-> b.start, size |-> sizeKB, type |-> type,
                   pid |-> pid, owner |-> owner]
           rest == FreeBlock(b.start + sizeKB, b.size - sizeKB)
<1>1. /\ \A c \in B : /\ c \in MemoryBlock
                       /\ c.start \in Nat /\ EndOf(c) \in Nat
                       /\ c.start < EndOf(c) /\ EndOf(c) <= TotalMemoryKB
                       /\ c.size = EndOf(c) - c.start
      /\ \A c, d \in B : \A k \in Int : InBlock(c, k) /\ InBlock(d, k) => c = d
      /\ \A k \in Int : 0 <= k /\ k < TotalMemoryKB => \E c \in B : InBlock(c, k)
      /\ \A c \in B : c.type = "FREE" => c.pid = 0 /\ c.owner = NoUser
  BY ValidBlocks DEF InBlock, Valid, validateBlocks
<1>2. b \in B /\ b.type = "FREE"
  BY DEF FreeBlocks
<1>3. /\ new \in MemoryBlock /\ new.type # "FREE"
      /\ new.start = b.start /\ EndOf(new) = b.start + sizeKB
  BY <1>1, <1>2 DEF MemoryBlock, EndOf
<1>4. sizeKB < b.size =>
         /\ rest \in MemoryBlock /\ rest.pid = 0 /\ rest.owner = NoUser
         /\ rest.start = b.start + sizeKB /\ EndOf(rest) = EndOf(b)
  BY <1>1, <1>2 DEF MemoryBlock, FreeBlock, EndOf
<1>5. P = (B \ {b}) \cup {new} \cup (IF b.size = sizeKB THEN {} ELSE {rest})
  BY DEF Placed
<1> HIDE DEF P, new, rest
<1>50. b.size \in Nat /\ (sizeKB < b.size <=> b.size # sizeKB)
  BY <1>1, <1>2
<1>51. \A c : c \in P <=>
          \/ c \in B /\ c # b
          \/ c = new
          \/ c = rest /\ sizeKB < b.size
  BY <1>5, <1>50
<1>6. ASSUME NEW c \in P
      PROVE  /\ c \in MemoryBlock
             /\ c.start < EndOf(c) /\ EndOf(c) <= TotalMemoryKB
             /\ c.type = "FREE" => c.pid = 0 /\ c.owner = NoUser
  <2>1. CASE c \in B
    BY <1>1, <2>1
  <2>2. CASE c = new
    <3>1. b.start < b.start + sizeKB /\ b.start + sizeKB <= EndOf(b) /\ EndOf(b) <= TotalMemoryKB
      BY <1>1, <1>2
    <3> QED
      BY <1>1, <1>2, <1>3, <2>2, <3>1, MemoryAssumption
  <2>3. CASE c = rest /\ sizeKB < b.size
    <3>1. b.start + sizeKB < EndOf(b) /\ EndOf(b) <= TotalMemoryKB
      BY <1>1, <1>2, <2>3
    <3> QED
      BY <1>4, <2>3, <3>1
  <2> QED
    BY <1>51, <2>1, <2>2, <2>3
(* The pieces lie where b was.                                             *)
<1>7. ASSUME NEW k \in Int
      PROVE  /\ InBlock(new, k) <=> InBlock(b, k) /\ k < b.start + sizeKB
             /\ sizeKB < b.size =>
                   (InBlock(rest, k) <=> InBlock(b, k) /\ b.start + sizeKB <= k)
             /\ sizeKB = b.size => (InBlock(b, k) => k < b.start + sizeKB)
  BY <1>1, <1>2, <1>3, <1>4 DEF InBlock
<1>8. ASSUME NEW c \in P, NEW d \in P, NEW k \in Int, InBlock(c, k), InBlock(d, k)
      PROVE  c = d
  <2>1. CASE InBlock(b, k)
    <3>1. \A x \in P : InBlock(x, k) => x = new \/ (x = rest /\ sizeKB < b.size)
      BY <1>1, <1>2, <1>51, <2>1
    <3>2. ~(InBlock(new, k) /\ InBlock(rest, k) /\ sizeKB < b.size)
      <4>1. b.start + sizeKB \in Int
        BY <1>1, <1>2
      <4> QED
        BY <1>7, <4>1
    <3> QED
      BY <1>8, <3>1, <3>2
  <2>2. CASE ~InBlock(b, k)
    <3>1. \A x \in P : InBlock(x, k) => x \in B
      BY <1>51, <1>7, <2>2
    <3> QED
      BY <1>1, <1>8, <3>1
  <2> QED
    BY <2>1, <2>2
<1>9. ASSUME NEW k \in Int, 0 <= k, k < TotalMemoryKB
      PROVE  \E c \in P : InBlock(c, k)
  <2>1. PICK c \in B : InBlock(c, k)
    BY <1>1, <1>9
  <2>2. CASE c # b
    BY <1>51, <2>1, <2>2
  <2>3. CASE c = b
    <3>1. CASE k < b.start + sizeKB
      BY <1>7, <1>51, <2>1, <2>3, <3>1
    <3>2. CASE ~(k < b.start + sizeKB)
      <4>1. sizeKB < b.size
        BY <1>7, <1>50, <2>1, <2>3, <3>2
      <4>2. b.start + sizeKB <= k
        BY <1>1, <1>2, <3>2
      <4> QED
        BY <1>7, <1>51, <2>1, <2>3, <4>1, <4>2
    <3> QED
      BY <3>1, <3>2
  <2> QED
    BY <2>2, <2>3
<1>10. Valid(P)
  <2>1. \A c, d \in P : \A k \in Int : InBlock(c, k) /\ InBlock(d, k) => c = d
    BY <1>8
  <2>2. \A k \in Int : 0 <= k /\ k < TotalMemoryKB => \E c \in P : InBlock(c, k)
    BY <1>9
  <2> QED
    BY <1>6, <2>1, <2>2, BlocksValid DEF InBlock
<1>11. Coalesced(P)
  <2> SUFFICES ASSUME NEW c \in FreeBlocks(P), NEW d \in FreeBlocks(P), EndOf(c) = d.start
               PROVE  FALSE
    BY DEF Coalesced
  <2>1. /\ (c \in FreeBlocks(B) /\ c # b) \/ (c = rest /\ sizeKB < b.size)
        /\ (d \in FreeBlocks(B) /\ d # b) \/ (d = rest /\ sizeKB < b.size)
    BY <1>3, <1>51 DEF FreeBlocks
  <2>2. \A x, y \in FreeBlocks(B) : EndOf(x) # y.start
    BY DEF Coalesced
  <2>3. CASE c \in FreeBlocks(B) /\ d \in FreeBlocks(B)
    BY <2>2, <2>3
  <2>4. CASE c = rest /\ sizeKB < b.size /\ d \in FreeBlocks(B)
    BY <1>4, <2>2, <2>4
  <2>5. CASE c \in FreeBlocks(B) /\ c # b /\ d = rest /\ sizeKB < b.size
    <3>1. c \in B /\ EndOf(c) = b.start + sizeKB
      BY <1>4, <2>5 DEF FreeBlocks
    <3>2. b.start + sizeKB - 1 \in Int
          /\ InBlock(c, b.start + sizeKB - 1) /\ InBlock(b, b.start + sizeKB - 1)
      BY <1>1, <1>2, <3>1 DEF InBlock
    <3> QED
      BY <1>1, <1>2, <2>5, <3>1, <3>2
  <2>6. CASE c = rest /\ d = rest /\ sizeKB < b.size
    BY <1>1, <1>2, <1>4, <2>6
  <2> QED
    BY <2>1, <2>3, <2>4, <2>5, <2>6
<1> QED
  BY <1>10, <1>11 DEF P

-----------------------------------------------------------------------------
(* Compacting.                                                             *)

UsedCell(B, k) == \E b \in Allocated(B) : k \in Cells(b)

(* CompactedStart counts the allocated cells below an address.             *)
LEMMA CompactedCounts ==
    ASSUME NEW B, NEW addr \in Nat
    PROVE  /\ CompactedStart(B, addr) \in Nat
           /\ CompactedStart(B, addr) <= addr
           /\ CompactedStart(B, 0) = 0
           /\ UsedCell(B, addr) => CompactedStart(B, addr + 1) = CompactedStart(B, addr) + 1
           /\ ~UsedCell(B, addr) => CompactedStart(B, addr + 1) = CompactedStart(B, addr)
           /\ \A a \in Nat : a <= addr => CompactedStart(B, a) <= CompactedStart(B, addr)
<1> DEFINE below(a) == {k \in 0 .. a - 1 : UsedCell(B, k)}
<1>1. \A a \in Nat : CompactedStart(B, a) = Cardinality(below(a))
  BY DEF CompactedStart, UsedCell
<1>2. \A a \in Nat : IsFiniteSet(0 .. a - 1) /\ Cardinality(0 .. a - 1) = a
  BY FS_Interval
<1>3. \A a \in Nat : /\ IsFiniteSet(below(a)) /\ Cardinality(below(a)) \in Nat
                     /\ Cardinality(below(a)) <= a
  <2> TAKE a \in Nat
  <2>1. below(a) \subseteq 0 .. a - 1
    OBVIOUS
  <2> HIDE DEF below
  <2> QED
    BY <1>2, <2>1, FS_Subset, FS_CardinalityType
<1>4. below(0) = {}
  OBVIOUS
<1>5. UsedCell(B, addr) => below(addr + 1) = below(addr) \cup {addr}
  OBVIOUS
<1>6. ~UsedCell(B, addr) => below(addr + 1) = below(addr)
  OBVIOUS
<1>7. addr \notin below(addr)
  OBVIOUS
<1>8. \A a \in Nat : a <= addr => below(a) \subseteq below(addr)
  OBVIOUS
<1> HIDE DEF below
<1>9. UsedCell(B, addr) => Cardinality(below(addr + 1)) = Cardinality(below(addr)) + 1
  BY <1>3, <1>5, <1>7, FS_AddElement
<1>10. \A a \in Nat : a <= addr => Cardinality(below(a)) <= Cardinality(below(addr))
  BY <1>3, <1>8, FS_Subset
<1>11. Cardinality(below(0)) = 0
  BY <1>4, FS_EmptySet
<1>12. addr + 1 \in Nat
  OBVIOUS
<1> QED
  BY <1>1, <1>3, <1>6, <1>9, <1>10, <1>11, <1>12

(* A block keeps its size.                                                 *)
LEMMA CompactedSize ==
    ASSUME NEW B, Valid(B), NEW b \in Allocated(B)
    PROVE  CompactedStart(B, EndOf(b)) = CompactedStart(B, b.start) + b.size
<1> USE MemoryAssumption
<1>1. /\ b \in B /\ b.start \in Nat /\ b.size \in Nat
      /\ EndOf(b) = b.start + b.size /\ b.size <= TotalMemoryKB
  BY ValidBlocks DEF Allocated, EndOf, MemoryBlock
<1> DEFINE cs(a) == CompactedStart(B, a)
           K == {j \in Addresses : j <= b.size /\ cs(b.start + j) # cs(b.start) + j}
<1>2. \A a \in Nat : cs(a) \in Nat
  BY CompactedCounts
<1>3. \A j \in Nat : j < b.size => cs(b.start + j + 1) = cs(b.start + j) + 1
  <2> SUFFICES ASSUME NEW j \in Nat, j < b.size
               PROVE  cs(b.start + j + 1) = cs(b.start + j) + 1
    OBVIOUS
  <2>1. b.start + j \in Nat /\ b.start + j \in Cells(b)
    BY <1>1 DEF Cells
  <2>2. UsedCell(B, b.start + j)
    BY <2>1 DEF UsedCell
  <2> QED
    BY <2>1, <2>2, CompactedCounts
<1> HIDE DEF cs
<1>4. K = {}
  <2>1. SUFFICES ASSUME K # {} PROVE FALSE
    OBVIOUS
  <2>2. PICK j \in K : \A i \in K : j <= i
    BY <2>1, HasLeast
  <2>3. /\ j \in Nat /\ j <= TotalMemoryKB /\ j <= b.size
        /\ cs(b.start + j) # cs(b.start) + j
    BY DEF Addresses
  <2>4. j # 0
    BY <1>1, <1>2, <2>3
  <2>5. j - 1 \in Nat /\ j - 1 \in Addresses /\ j - 1 < b.size
    BY <1>1, <2>3, <2>4 DEF Addresses
  <2>6. cs(b.start + (j - 1)) = cs(b.start) + (j - 1)
    <3>1. SUFFICES ASSUME j - 1 \in K PROVE FALSE
      BY <1>1, <2>5
    <3> HIDE DEF K
    <3>2. j <= j - 1
      BY <2>2, <3>1
    <3> QED
      BY <2>3, <3>2
  <2>7. b.start + (j - 1) + 1 = b.start + j
    BY <1>1, <2>3
  <2>8. cs(b.start + j) = cs(b.start) + (j - 1) + 1
    BY <1>3, <2>5, <2>6, <2>7
  <2> QED
    BY <1>1, <1>2, <2>3, <2>8
<1>5. b.size \in Addresses
  BY <1>1 DEF Addresses
<1> QED
  BY <1>1, <1>4, <1>5 DEF cs

(* Every address below the end of the used memory is in a moved block.     *)
LEMMA CompactedCovers ==
    ASSUME NEW B, Valid(B), NEW m \in Nat, m < CompactedStart(B, TotalMemoryKB)
    PROVE  \E b \in Allocated(B) :
              CompactedStart(B, b.start) <= m /\ m < CompactedStart(B, EndOf(b))
<1> USE MemoryAssumption
<1> DEFINE cs(a) == CompactedStart(B, a)
           K == {k \in Addresses : m < cs(k)}
<1>1. \A b \in Allocated(B) : b.start \in Nat /\ EndOf(b) \in Nat
  BY ValidBlocks DEF Allocated
<1>2. /\ \A a \in Nat : cs(a) \in Nat
      /\ \A a, c \in Nat : a <= c => cs(a) <= cs(c)
      /\ cs(0) = 0
  BY CompactedCounts
<1>3. \A a \in Nat : ~UsedCell(B, a) => cs(a + 1) = cs(a)
  BY CompactedCounts
<1>4. m < cs(TotalMemoryKB)
  OBVIOUS
<1> HIDE DEF cs
<1>5. TotalMemoryKB \in K
  BY <1>4 DEF Addresses
<1>6. PICK k \in K : \A j \in K : k <= j
  BY <1>5, HasLeast
<1>7. k \in Nat /\ k <= TotalMemoryKB /\ m < cs(k)
  BY DEF Addresses
<1>8. k # 0
  BY <1>2, <1>7
<1>9. k - 1 \in Nat /\ k - 1 \in Addresses /\ k - 1 < k /\ k - 1 + 1 = k
  BY <1>7, <1>8 DEF Addresses
<1>10. cs(k - 1) \in Nat /\ cs(k - 1) <= m
  <2>1. cs(k - 1) \in Nat
    BY <1>2, <1>9
  <2>2. SUFFICES ASSUME k - 1 \in K PROVE FALSE
    BY <1>9, <2>1
  <2> HIDE DEF K
  <2>3. k <= k - 1
    BY <1>6, <2>2
  <2> QED
    BY <1>7, <2>3
<1>11. UsedCell(B, k - 1)
  <2>1. SUFFICES ASSUME ~UsedCell(B, k - 1) PROVE FALSE
    OBVIOUS
  <2>2. cs(k) = cs(k - 1)
    BY <1>3, <1>9, <2>1
  <2> QED
    BY <1>7, <1>10, <2>2
<1>12. PICK b \in Allocated(B) : k - 1 \in Cells(b)
  BY <1>11 DEF UsedCell
<1>13. b.start <= k - 1 /\ k <= EndOf(b)
  <2>1. b.start \in Nat /\ EndOf(b) \in Nat
    BY <1>1
  <2>2. b.start <= k - 1 /\ k - 1 <= EndOf(b) - 1
    BY <1>9, <1>12, <2>1 DEF Cells
  <2> QED
    BY <1>7, <2>1, <2>2
<1>14. /\ cs(b.start) \in Nat /\ cs(EndOf(b)) \in Nat /\ cs(k) \in Nat
       /\ cs(b.start) <= cs(k - 1) /\ cs(k) <= cs(EndOf(b))
  BY <1>1, <1>2, <1>7, <1>9, <1>13
<1>15. cs(b.start) <= m /\ m < cs(EndOf(b))
  BY <1>7, <1>10, <1>14
<1> QED
  BY <1>15 DEF cs

(* The moved blocks fill the memory from 0 without gap or overlap.         *)
LEMMA CompactedValid ==
    ASSUME NEW B, Valid(B) PROVE Valid(Compacted(B)) /\ Coalesced(Compacted(B))
<1> USE MemoryAssumption
<1> DEFINE cs(a) == CompactedStart(B, a)
           moved(b) == [b EXCEPT !.start = cs(b.start)]
           used == cs(TotalMemoryKB)
           rest == FreeBlock(used, TotalMemoryKB - used)
           C == Compacted(B)
<1>1. C = {moved(b) : b \in Allocated(B)} \cup (IF used < TotalMemoryKB THEN {rest} ELSE {})
  BY DEF Compacted
<1>2. \A b \in Allocated(B) :
         /\ b \in B /\ b \in MemoryBlock /\ b.type # "FREE"
         /\ b.start \in Nat /\ EndOf(b) \in Nat /\ b.size \in Nat
         /\ b.start < EndOf(b) /\ EndOf(b) <= TotalMemoryKB /\ b.size = EndOf(b) - b.start
  BY ValidBlocks DEF Allocated, MemoryBlock
<1>3. \A b, c \in Allocated(B) : \A k \in Int : InBlock(b, k) /\ InBlock(c, k) => b = c
  BY ValidBlocks DEF InBlock, Allocated
<1>4. /\ \A a \in Nat : cs(a) \in Nat /\ cs(a) <= a
      /\ \A a, c \in Nat : a <= c => cs(a) <= cs(c)
  BY CompactedCounts
<1>7. \A b \in Allocated(B) : cs(EndOf(b)) = cs(b.start) + b.size
  BY CompactedSize
<1> HIDE DEF cs
<1>8. \A b \in Allocated(B) :
         /\ moved(b) \in MemoryBlock /\ moved(b).type # "FREE"
         /\ moved(b).start = cs(b.start) /\ EndOf(moved(b)) = cs(EndOf(b))
         /\ cs(b.start) < cs(EndOf(b)) /\ cs(EndOf(b)) <= used
  <2> SUFFICES ASSUME NEW b \in Allocated(B)
               PROVE  /\ moved(b) \in MemoryBlock /\ moved(b).type # "FREE"
                      /\ moved(b).start = cs(b.start) /\ EndOf(moved(b)) = cs(EndOf(b))
                      /\ cs(b.start) < cs(EndOf(b)) /\ cs(EndOf(b)) <= used
    OBVIOUS
  <2>1. cs(b.start) \in Nat /\ b \in MemoryBlock
    BY <1>2, <1>4
  <2>2. /\ moved(b) \in MemoryBlock /\ moved(b).type = b.type
        /\ moved(b).start = cs(b.start) /\ moved(b).size = b.size
    BY <2>1 DEF MemoryBlock
  <2>3. EndOf(moved(b)) = cs(EndOf(b))
    BY <1>7, <2>2 DEF EndOf
  <2>4. cs(b.start) < cs(EndOf(b))
    BY <1>2, <1>4, <1>7
  <2>5. cs(EndOf(b)) <= used
    BY <1>2, <1>4
  <2> QED
    BY <1>2, <2>2, <2>3, <2>4, <2>5
<1>9. used \in Nat /\ used <= TotalMemoryKB
  BY <1>4
<1>10. used < TotalMemoryKB =>
          /\ rest \in MemoryBlock /\ rest.type = "FREE" /\ rest.pid = 0 /\ rest.owner = NoUser
          /\ rest.start = used /\ EndOf(rest) = TotalMemoryKB
  BY <1>9 DEF MemoryBlock, FreeBlock, EndOf
<1> HIDE DEF moved, used, rest, C
<1>11. \A c \in C : \/ \E b \in Allocated(B) : c = moved(b)
                    \/ c = rest /\ used < TotalMemoryKB
  BY <1>1
<1>12. \A c \in C :
          /\ c \in MemoryBlock
          /\ c.start < EndOf(c) /\ EndOf(c) <= TotalMemoryKB
          /\ c.type = "FREE" => c.pid = 0 /\ c.owner = NoUser
  <2> SUFFICES ASSUME NEW c \in C
               PROVE  /\ c \in MemoryBlock
                      /\ c.start < EndOf(c) /\ EndOf(c) <= TotalMemoryKB
                      /\ c.type = "FREE" => c.pid = 0 /\ c.owner = NoUser
    OBVIOUS
  <2>1. CASE c = rest /\ used < TotalMemoryKB
    BY <1>9, <1>10, <2>1
  <2>2. ASSUME NEW b \in Allocated(B), c = moved(b)
        PROVE  /\ c \in MemoryBlock /\ c.type # "FREE"
               /\ c.start < EndOf(c) /\ EndOf(c) <= TotalMemoryKB
    <3>1. cs(b.start) \in Nat /\ cs(EndOf(b)) \in Nat
      BY <1>2, <1>4
    <3> QED
      BY <1>8, <1>9, <2>2, <3>1
  <2> QED
    BY <1>11, <2>1, <2>2
(* Two allocated blocks stay in order.                                     *)
<1>13. \A b, c \in Allocated(B) : \A k \in Int :
          InBlock(moved(b), k) /\ InBlock(moved(c), k) => b = c
  <2> SUFFICES ASSUME NEW b \in Allocated(B), NEW c \in Allocated(B), NEW k \in Int,
                      cs(b.start) <= k, k < cs(EndOf(b)), cs(c.start) <= k, k < cs(EndOf(c))
               PROVE  b = c
    BY <1>8 DEF InBlock
  <2>1. /\ cs(b.start) \in Nat /\ cs(EndOf(b)) \in Nat
        /\ cs(c.start) \in Nat /\ cs(EndOf(c)) \in Nat
    BY <1>2, <1>4
  <2>2. ~(EndOf(b) <= c.start)
    BY <1>2, <1>4, <2>1
  <2>3. ~(EndOf(c) <= b.start)
    BY <1>2, <1>4, <2>1
  <2>4. CASE b.start <= c.start
    <3>1. InBlock(b, c.start) /\ InBlock(c, c.start) /\ c.start \in Int
      BY <1>2, <2>2, <2>4 DEF InBlock
    <3> QED
      BY <1>3, <3>1
  <2>5. CASE c.start <= b.start
    <3>1. InBlock(b, b.start) /\ InBlock(c, b.start) /\ b.start \in Int
      BY <1>2, <2>3, <2>5 DEF InBlock
    <3> QED
      BY <1>3, <3>1
  <2> QED
    BY <1>2, <2>4, <2>5
<1>14. used < TotalMemoryKB =>
          \A b \in Allocated(B) : \A k \in Int : ~(InBlock(moved(b), k) /\ InBlock(rest, k))
  <2> SUFFICES ASSUME used < TotalMemoryKB, NEW b \in Allocated(B), NEW k \in Int,
                      InBlock(moved(b), k), InBlock(rest, k)
               PROVE  FALSE
    OBVIOUS
  <2>1. cs(EndOf(b)) \in Nat
    BY <1>2, <1>4
  <2>2. k < cs(EndOf(b)) /\ used <= k
    BY <1>8, <1>10 DEF InBlock
  <2> QED
    BY <1>8, <1>9, <2>1, <2>2
<1>15. \A c, d \in C : \A k \in Int : InBlock(c, k) /\ InBlock(d, k) => c = d
  BY <1>11, <1>13, <1>14
<1>16. \A k \in Int : 0 <= k /\ k < TotalMemoryKB => \E c \in C : InBlock(c, k)
  <2> SUFFICES ASSUME NEW m \in Int, 0 <= m, m < TotalMemoryKB
               PROVE  \E c \in C : InBlock(c, m)
    OBVIOUS
  <2>1. CASE used <= m
    <3>1. used < TotalMemoryKB /\ rest \in C
      BY <1>1, <1>9, <2>1
    <3> QED
      BY <1>10, <2>1, <3>1 DEF InBlock
  <2>2. CASE m < used
    <3>1. PICK b \in Allocated(B) : cs(b.start) <= m /\ m < cs(EndOf(b))
      BY <2>2, CompactedCovers DEF cs, used
    <3>2. InBlock(moved(b), m) /\ moved(b) \in C
      BY <1>1, <1>8, <3>1 DEF InBlock
    <3> QED
      BY <3>2
  <2> QED
    BY <1>9, <2>1, <2>2
<1>17. Valid(C)
  BY <1>12, <1>15, <1>16, BlocksValid DEF InBlock
<1>18. Coalesced(C)
  <2>1. \A f \in FreeBlocks(C) : f = rest /\ used < TotalMemoryKB
    BY <1>8, <1>11 DEF FreeBlocks
  <2>2. \A f, g \in FreeBlocks(C) : EndOf(f) = TotalMemoryKB /\ g.start = used
                                    /\ used < TotalMemoryKB
    BY <1>10, <2>1
  <2> QED
    BY <1>9, <2>2 DEF Coalesced
<1> QED
  BY <1>17, <1>18 DEF C

-----------------------------------------------------------------------------
(* Which blocks are allocated afterwards.                                  *)

LEMMA MergedAllocated ==
    ASSUME NEW B PROVE Allocated(Merged(B)) = Allocated(B)
<1> DEFINE F == {FreeBlock(s, RunEnd(B, s) - s) : s \in RunStarts(B)}
<1>1. \A f \in F : f.type = "FREE"
  BY DEF FreeBlock
<1>2. Merged(B) = Allocated(B) \cup F
  BY MergedIs
<1> HIDE DEF F
<1> QED
  BY <1>1, <1>2 DEF Allocated

LEMMA ReleasedAllocated ==
    ASSUME NEW B, NEW R \in SUBSET B
    PROVE  Allocated(Released(B, R)) = Allocated(B) \ R
<1> DEFINE F == {FreeBlock(b.start, b.size) : b \in R}
<1>1. \A f \in F : f.type = "FREE"
  BY DEF FreeBlock
<1>2. Allocated(Released(B, R)) = Allocated((B \ R) \cup F)
  BY MergedAllocated DEF Released
<1> HIDE DEF F
<1> QED
  BY <1>1, <1>2 DEF Allocated

LEMMA PlacedAllocated ==
    ASSUME NEW B, NEW b \in FreeBlocks(B), NEW sizeKB,
           NEW type \in {"PROCESS", "KERNEL"}, NEW pid, NEW owner
    PROVE  Allocated(Placed(B, b, sizeKB, type, pid, owner)) =
              Allocated(B) \cup {[start |-> b.start, size |-> sizeKB, type |-> type,
                                  pid |-> pid, owner |-> owner]}
<1> DEFINE new == [start |-> b.start, size |-> sizeKB, type |-> type,
                   pid |-> pid, owner |-> owner]
           rest == IF b.size = sizeKB THEN {}
                   ELSE {FreeBlock(b.start + sizeKB, b.size - sizeKB)}
<1>1. new.type # "FREE" /\ b.type = "FREE"
  BY DEF FreeBlocks
<1>2. \A f \in rest : f.type = "FREE"
  BY DEF FreeBlock
<1>3. Placed(B, b, sizeKB, type, pid, owner) = (B \ {b}) \cup {new} \cup rest
  BY DEF Placed
<1> HIDE DEF new, rest
<1>4. Allocated((B \ {b}) \cup {new} \cup rest) = Allocated(B) \cup {new}
  BY <1>1, <1>2 DEF Allocated
<1> QED
  BY <1>3, <1>4 DEF new

LEMMA CompactedAllocated ==
    ASSUME NEW B, Valid(B)
    PROVE  Allocated(Compacted(B)) =
              {[b EXCEPT !.start = CompactedStart(B, b.start)] : b \in Allocated(B)}
<1> DEFINE moved(b) == [b EXCEPT !.start = CompactedStart(B, b.start)]
           used == CompactedStart(B, TotalMemoryKB)
           rest == IF used < TotalMemoryKB
                   THEN {FreeBlock(used, TotalMemoryKB - used)} ELSE {}
           M == {moved(b) : b \in Allocated(B)}
<1>1. \A b \in Allocated(B) : b \in MemoryBlock /\ b.type # "FREE"
  BY DEF Allocated, Valid
<1>2. \A b \in Allocated(B) : moved(b).type # "FREE"
  BY <1>1 DEF MemoryBlock
<1>3. \A f \in rest : f.type = "FREE"
  BY DEF FreeBlock
<1>4. Compacted(B) = M \cup rest
  BY DEF Compacted
<1>5. \A m \in M : m.type # "FREE"
  BY <1>2
<1> HIDE DEF M, rest
<1>6. Allocated(M \cup rest) = M
  BY <1>3, <1>5 DEF Allocated
<1> QED
  BY <1>4, <1>6 DEF M

-----------------------------------------------------------------------------
(* There is only one way to merge the memory around given allocations:     *)
(* the FREE blocks are the maximal runs of what is left.                   *)

LEMMA FreeBlocksUnique ==
    ASSUME NEW B, Valid(B), Coalesced(B), NEW C, Valid(C), Coalesced(C),
           Allocated(C) = Allocated(B), NEW f \in FreeBlocks(B)
    PROVE  f \in C
<1> USE MemoryAssumption
<1>1. \A X : Valid(X) =>
         /\ \A b \in X : /\ b \in MemoryBlock
                         /\ b.start \in Nat /\ EndOf(b) \in Nat
                         /\ b.start < EndOf(b) /\ EndOf(b) <= TotalMemoryKB
                         /\ b.size = EndOf(b) - b.start
         /\ \A b, c \in X : \A k \in Int : InBlock(b, k) /\ InBlock(c, k) => b = c
         /\ \A k \in Int : 0 <= k /\ k < TotalMemoryKB => \E b \in X : InBlock(b, k)
  BY ValidBlocks DEF InBlock
<1>2. f \in B /\ f.type = "FREE"
  BY DEF FreeBlocks
(* An address that a FREE block of one covers is covered by a FREE block   *)
(* of the other.                                                           *)
<1>3. ASSUME NEW X, Valid(X), NEW Y, Valid(Y), Allocated(Y) = Allocated(X),
             NEW k \in Int, NEW x \in FreeBlocks(X), InBlock(x, k)
      PROVE  \E y \in FreeBlocks(Y) : InBlock(y, k)
  <2>1. x \in X /\ x.type = "FREE" /\ 0 <= k /\ k < TotalMemoryKB
    BY <1>1, <1>3 DEF FreeBlocks, InBlock
  <2>2. PICK y \in Y : InBlock(y, k)
    BY <1>1, <1>3, <2>1
  <2>3. y.type = "FREE"
    <3>1. SUFFICES ASSUME y.type # "FREE" PROVE FALSE
      OBVIOUS
    <3>2. y \in X
      BY <1>3, <3>1, <2>2 DEF Allocated
    <3> QED
      BY <1>1, <1>3, <2>1, <2>2, <3>1, <3>2
  <2> QED
    BY <2>2, <2>3 DEF FreeBlocks
<1>4. PICK g \in FreeBlocks(C) : InBlock(g, f.start)
  <2>1. InBlock(f, f.start) /\ f.start \in Int
    BY <1>1, <1>2 DEF InBlock
  <2> QED
    BY <1>3, <2>1
<1>5. /\ f.start \in Nat /\ EndOf(f) \in Nat /\ f.start < EndOf(f)
      /\ f.size = EndOf(f) - f.start
      /\ g \in C /\ g.type = "FREE" /\ g.start \in Nat /\ EndOf(g) \in Nat
      /\ g.start <= f.start /\ f.start < EndOf(g)
      /\ g.size = EndOf(g) - g.start
  BY <1>1, <1>2, <1>4 DEF InBlock, FreeBlocks
<1>6. g.start = f.start
  <2>1. SUFFICES ASSUME g.start < f.start PROVE FALSE
    BY <1>5
  <2>2. f.start - 1 \in Int /\ InBlock(g, f.start - 1)
    BY <1>5, <2>1 DEF InBlock
  <2>3. PICK h \in FreeBlocks(B) : InBlock(h, f.start - 1)
    BY <1>3, <1>4, <2>2
  <2>4. h \in B /\ h.start \in Nat /\ EndOf(h) \in Nat
    BY <1>1, <2>3 DEF FreeBlocks
  <2>5. EndOf(h) >= f.start
    BY <1>5, <2>3, <2>4 DEF InBlock
  <2>6. ~(EndOf(h) > f.start)
    <3>1. SUFFICES ASSUME EndOf(h) > f.start PROVE FALSE
      OBVIOUS
    <3>2. InBlock(h, f.start) /\ InBlock(f, f.start)
      BY <1>5, <2>3, <2>4, <3>1 DEF InBlock
    <3>3. h = f
      BY <1>1, <1>2, <1>5, <2>4, <3>2
    <3> QED
      BY <1>5, <2>3, <3>3 DEF InBlock
  <2>7. EndOf(h) = f.start
    BY <1>5, <2>4, <2>5, <2>6
  <2> QED
    BY <2>3, <2>7 DEF Coalesced
<1>7. ~(EndOf(f) < EndOf(g))
  <2>1. SUFFICES ASSUME EndOf(f) < EndOf(g) PROVE FALSE
    OBVIOUS
  <2>2. EndOf(f) \in Int /\ InBlock(g, EndOf(f))
    BY <1>5, <1>6, <2>1 DEF InBlock
  <2>3. PICK h \in FreeBlocks(B) : InBlock(h, EndOf(f))
    BY <1>3, <1>4, <2>2
  <2>4. h \in B /\ h.start \in Nat /\ EndOf(h) \in Nat /\ h.start <= EndOf(f)
        /\ EndOf(f) < EndOf(h)
    BY <1>1, <2>3 DEF FreeBlocks, InBlock
  <2>5. ~(h.start < EndOf(f))
    <3>1. SUFFICES ASSUME h.start < EndOf(f) PROVE FALSE
      OBVIOUS
    <3>2. InBlock(h, EndOf(f) - 1) /\ InBlock(f, EndOf(f) - 1) /\ EndOf(f) - 1 \in Int
      BY <1>5, <2>4, <3>1 DEF InBlock
    <3>3. h = f
      BY <1>1, <1>2, <2>4, <3>2
    <3> QED
      BY <1>5, <2>4, <3>3
  <2>6. h.start = EndOf(f)
    BY <1>5, <2>4, <2>5
  <2> QED
    BY <2>3, <2>6 DEF Coalesced
<1>8. ~(EndOf(g) < EndOf(f))
  <2>1. SUFFICES ASSUME EndOf(g) < EndOf(f) PROVE FALSE
    OBVIOUS
  <2>2. EndOf(g) \in Int /\ InBlock(f, EndOf(g))
    BY <1>5, <2>1 DEF InBlock
  <2>3. PICK h \in FreeBlocks(C) : InBlock(h, EndOf(g))
    BY <1>3, <2>2
  <2>4. h \in C /\ h.start \in Nat /\ EndOf(h) \in Nat /\ h.start <= EndOf(g)
        /\ EndOf(g) < EndOf(h)
    BY <1>1, <2>3 DEF FreeBlocks, InBlock
  <2>5. ~(h.start < EndOf(g))
    <3>1. SUFFICES ASSUME h.start < EndOf(g) PROVE FALSE
      OBVIOUS
    <3>2. InBlock(h, EndOf(g) - 1) /\ InBlock(g, EndOf(g) - 1) /\ EndOf(g) - 1 \in Int
      BY <1>5, <2>4, <3>1 DEF InBlock
    <3>3. h = g
      BY <1>1, <1>5, <2>4, <3>2
    <3> QED
      BY <1>5, <2>4, <3>3
  <2>6. h.start = EndOf(g)
    BY <1>5, <2>4, <2>5
  <2> QED
    BY <1>4, <2>3, <2>6 DEF Coalesced
<1>9. g.start = f.start /\ g.size = f.size
  BY <1>5, <1>6, <1>7, <1>8
<1>10. \A X : Valid(X) => \A b \in X : b.type = "FREE" => b.pid = 0 /\ b.owner = NoUser
  BY DEF Valid, validateBlocks
<1>11. /\ f.pid = 0 /\ f.owner = NoUser /\ g.pid = 0 /\ g.owner = NoUser
       /\ f \in MemoryBlock /\ g \in MemoryBlock
  BY <1>1, <1>2, <1>5, <1>10
<1>12. f = g
  BY <1>2, <1>5, <1>9, <1>11 DEF MemoryBlock
<1> QED
  BY <1>5, <1>12

LEMMA PartitionUnique ==
    ASSUME NEW B, Valid(B), Coalesced(B), NEW C, Valid(C), Coalesced(C),
           Allocated(C) = Allocated(B)
    PROVE  C = B
<1>1. \A f \in FreeBlocks(B) : f \in C
  BY FreeBlocksUnique
<1>2. \A f \in FreeBlocks(C) : f \in B
  BY FreeBlocksUnique
<1> QED
  BY <1>1, <1>2 DEF Allocated, FreeBlocks

(* Merging what is merged changes nothing.                                 *)
LEMMA MergedSame ==
    ASSUME NEW B, Valid(B), Coalesced(B) PROVE Merged(B) = B
BY MergedValid, MergedAllocated, PartitionUnique

(* Giving back at once what was just handed out changes nothing.           *)
LEMMA PlacedReleased ==
    ASSUME NEW B, Valid(B), Coalesced(B), NEW b \in FreeBlocks(B),
           NEW sizeKB \in Nat, sizeKB > 0, sizeKB <= b.size,
           NEW pid \in Nat, NEW owner \in Users,
           \A c \in B : c.type = "PROCESS" => c.pid # pid
    PROVE  LET P == Placed(B, b, sizeKB, "PROCESS", pid, owner)
           IN  Released(P, ProcessBlocks(P, owner, {pid})) = B
<1> DEFINE P == Placed(B, b, sizeKB, "PROCESS", pid, owner)
           R == ProcessBlocks(P, owner, {pid})
           new == [start |-> b.start, size |-> sizeKB, type |-> "PROCESS",
                   pid |-> pid, owner |-> owner]
<1>1. Valid(P)
  BY PlacedValid
<1>2. Allocated(P) = Allocated(B) \cup {new}
  BY PlacedAllocated
<1>3. new.type = "PROCESS" /\ new.pid = pid /\ new.owner = owner
  OBVIOUS
<1>4. R \in SUBSET P
  BY DEF ProcessBlocks
<1> HIDE DEF P, new
<1>5. R = {new}
  BY <1>2, <1>3 DEF ProcessBlocks, Allocated
<1>6. new \notin B
  BY <1>3
<1> HIDE DEF R
<1>7. Allocated(Released(P, R)) = Allocated(B)
  BY <1>2, <1>4, <1>5, <1>6, ReleasedAllocated DEF Allocated
<1>8. Valid(Released(P, R)) /\ Coalesced(Released(P, R))
  BY <1>1, <1>4, ReleasedValid
<1>9. Released(P, R) = B
  BY <1>7, <1>8, PartitionUnique
<1> QED
  BY <1>9 DEF P, R

-----------------------------------------------------------------------------
(* The calls.                                                              *)

PartitionInv == Valid(blocks) /\ Coalesced(blocks)

LEMMA PartitionInit == MMInit => PartitionInv
<1> SUFFICES ASSUME MMInit PROVE PartitionInv
  OBVIOUS
<1> DEFINE f == FreeBlock(0, TotalMemoryKB)
<1>1. /\ f \in MemoryBlock /\ f.start = 0 /\ EndOf(f) = TotalMemoryKB
      /\ f.pid = 0 /\ f.owner = NoUser /\ 0 < TotalMemoryKB /\ TotalMemoryKB \in Nat
  BY MemoryAssumption DEF FreeBlock, MemoryBlock, EndOf
<1>2. blocks = {f}
  BY DEF MMInit
<1> HIDE DEF f
<1>3. Valid(blocks)
  BY <1>1, <1>2, BlocksValid
<1>4. Coalesced(blocks)
  BY <1>1, <1>2 DEF Coalesced, FreeBlocks
<1> QED
  BY <1>3, <1>4 DEF PartitionInv

LEMMA AllocateKeeps ==
    ASSUME PartitionInv, NEW owner \in Users, NEW pid \in Nat, NEW sizeKB \in Nat,
           NEW type \in {"PROCESS", "KERNEL"}, NEW start,
           allocate(owner, pid, sizeKB, type, start)
    PROVE  PartitionInv'
<1>1. sizeKB > 0
  BY DEF allocate
<1>2. PICK b \in blocks :
         /\ findFreeBlock(blocks, algorithm, sizeKB, b)
         /\ blocks' = Placed(blocks, b, sizeKB, type, pid, owner)
  BY DEF allocate
<1>3. b \in FreeBlocks(blocks) /\ b.size >= sizeKB
  BY <1>2 DEF findFreeBlock, LargeEnough
<1>4. Valid(blocks) /\ Coalesced(blocks)
  BY DEF PartitionInv
<1>5. b.size \in Nat
  BY <1>4, <1>2 DEF Valid, MemoryBlock
<1>6. sizeKB <= b.size
  BY <1>3, <1>5
<1>7. Valid(blocks') /\ Coalesced(blocks')
  BY <1>1, <1>2, <1>3, <1>4, <1>6, PlacedValid
<1> QED
  BY <1>7 DEF PartitionInv, Valid, Coalesced, validateBlocks, FreeBlocks, MemoryBlock, EndOf, Cells

LEMMA ReleaseKeeps ==
    ASSUME PartitionInv, NEW R \in SUBSET blocks, blocks' = Released(blocks, R)
    PROVE  PartitionInv'
<1>1. Valid(blocks') /\ Coalesced(blocks')
  BY ReleasedValid DEF PartitionInv
<1> QED
  BY <1>1 DEF PartitionInv, Valid, Coalesced, validateBlocks, FreeBlocks, MemoryBlock, EndOf, Cells

-----------------------------------------------------------------------------
(* Sums over finite sets.                                                  *)

(* What holds of a set if it holds of it with any one element less holds   *)
(* of every subset of a finite set.                                        *)
LEMMA SubsetInduction ==
    ASSUME NEW S, IsFiniteSet(S), NEW Good,
           \A s \in SUBSET S : (\A x \in s : s \ {x} \in Good) => s \in Good
    PROVE  \A s \in SUBSET S : s \in Good
<1> SUFFICES ASSUME NEW bad \in SUBSET S, bad \notin Good PROVE FALSE
  OBVIOUS
<1>1. \A s \in SUBSET S : IsFiniteSet(s) /\ Cardinality(s) \in Nat
  BY FS_Subset, FS_CardinalityType
<1> DEFINE N == {n \in 0 .. Cardinality(S) : \E s \in SUBSET S : s \notin Good /\ Cardinality(s) = n}
<1>2. /\ N \in SUBSET Int /\ N # {} /\ IsFiniteSet(N)
      /\ \A s \in SUBSET S : s \notin Good => Cardinality(s) \in N
  <2>1. \A s \in SUBSET S : Cardinality(s) \in 0 .. Cardinality(S)
    BY <1>1, FS_Subset
  <2>2. IsFiniteSet(0 .. Cardinality(S))
    BY <1>1, FS_Interval
  <2>3. IsFiniteSet(N)
    BY <2>2, FS_Subset
  <2> QED
    BY <2>1, <2>3
<1>3. PICK n \in N : \A m \in N : n <= m
  BY <1>2, Smallest
<1>4. PICK s \in SUBSET S : s \notin Good /\ Cardinality(s) = n
  OBVIOUS
<1>5. PICK x \in s : s \ {x} \notin Good
  BY <1>4
<1>6. s \ {x} \in SUBSET S /\ Cardinality(s \ {x}) = n - 1 /\ n \in Nat
  BY <1>1, <1>4, FS_RemoveElement
<1>7. n - 1 \in N
  BY <1>2, <1>5, <1>6
<1> QED
  BY <1>3, <1>6, <1>7

(* h takes every x in S to an element of T of the same value.              *)
Corresponds(h, S, f, T, ft) ==
    /\ \A x \in S : h[x] \in T /\ ft[h[x]] = f[x]
    /\ \A x, y \in S : h[x] = h[y] => x = y

ImageOf(h, s) == {h[x] : x \in s}

(* C holds disjoint sets of the sizes that f holds.                        *)
Counted(C, S, f) ==
    /\ \A x \in S : IsFiniteSet(C[x]) /\ Cardinality(C[x]) = f[x]
    /\ \A x, y \in S : x # y => C[x] \cap C[y] = {}

UnionOf(C, s) == UNION {C[x] : x \in s}

Summands(f, S) == IsFiniteSet(S) /\ \A x \in S : f[x] \in Nat

(* g gives the sum of f over every subset of S.                            *)
AddsUp(g, f, S) ==
    /\ g[{}] = 0
    /\ \A s \in SUBSET S : /\ g[s] \in Nat
                           /\ \A x \in s : g[s] = f[x] + g[s \ {x}]

(* The sum by way of chosen elements, as MapThenFoldSet has it.            *)
OneMore(g, f, s) ==
    IF s = {} THEN 0 ELSE f[CHOOSE x \in s : TRUE] + g[s \ {CHOOSE x \in s : TRUE}]

FoldOf(g, f, S) == g = [s \in SUBSET S |-> OneMore(g, f, s)]

(* The recursion has a solution: it has one up to any size of the subsets. *)
LEMMA FoldExists ==
    ASSUME NEW S, IsFiniteSet(S), NEW f PROVE \E g : FoldOf(g, f, S)
<1>1. \A s \in SUBSET S : IsFiniteSet(s) /\ Cardinality(s) \in Nat
  BY FS_Subset, FS_CardinalityType
<1> DEFINE UpTo(n) == \E g : \A s \in SUBSET S : Cardinality(s) <= n => g[s] = OneMore(g, f, s)
           N == {n \in 0 .. Cardinality(S) : ~UpTo(n)}
<1>2. \A n \in 0 .. Cardinality(S) : UpTo(n)
  <2> SUFFICES ASSUME N # {} PROVE FALSE
    OBVIOUS
  <2>1. PICK n \in N : \A m \in N : n <= m
    <3>1. IsFiniteSet(0 .. Cardinality(S))
      BY <1>1, FS_Interval
    <3> HIDE DEF UpTo
    <3>2. N \in SUBSET (0 .. Cardinality(S))
      OBVIOUS
    <3> HIDE DEF N
    <3>3. IsFiniteSet(N)
      BY <3>1, <3>2, FS_Subset
    <3>4. N \in SUBSET Int
      BY <3>2
    <3> QED
      BY <3>3, <3>4, Smallest
  <2>2. CASE n = 0
    <3> DEFINE g == [s \in SUBSET S |-> 0]
    <3>1. \A s \in SUBSET S : Cardinality(s) <= 0 => s = {}
      BY <1>1, FS_EmptySet
    <3>2. \A s \in SUBSET S : Cardinality(s) <= 0 => g[s] = OneMore(g, f, s)
      BY <3>1 DEF OneMore
    <3> QED
      BY <2>1, <2>2, <3>2
  <2>3. CASE n # 0
    <3>1. n - 1 \in 0 .. Cardinality(S) /\ n - 1 \notin N
      <4>1. n \in 0 .. Cardinality(S) /\ Cardinality(S) \in Nat
        BY <1>1
      <4>2. ~(n <= n - 1)
        BY <4>1
      <4> QED
        BY <2>1, <2>3, <4>1, <4>2
    <3>2. PICK g : \A s \in SUBSET S : Cardinality(s) <= n - 1 => g[s] = OneMore(g, f, s)
      BY <3>1
    <3> DEFINE h == [s \in SUBSET S |-> OneMore(g, f, s)]
    <3>3. ASSUME NEW s \in SUBSET S, Cardinality(s) <= n PROVE h[s] = OneMore(h, f, s)
      <4>1. h[s] = OneMore(g, f, s)
        OBVIOUS
      <4>2. CASE s = {}
        BY <4>1, <4>2 DEF OneMore
      <4>3. CASE s # {}
        <5> DEFINE c == CHOOSE x \in s : TRUE
        <5>1. c \in s
          BY <4>3
        <5> HIDE DEF c
        <5>2. s \ {c} \in SUBSET S /\ Cardinality(s \ {c}) <= n - 1
          BY <1>1, <3>1, <3>3, <5>1, FS_RemoveElement
        <5>3. h[s \ {c}] = OneMore(g, f, s \ {c})
          BY <5>2
        <5>4. h[s \ {c}] = g[s \ {c}]
          BY <3>2, <5>2, <5>3
        <5> HIDE DEF h
        <5> QED
          BY <4>1, <4>3, <5>4 DEF OneMore, c
      <4> QED
        BY <4>2, <4>3
    <3> HIDE DEF h
    <3>4. UpTo(n)
      BY <3>3
    <3> QED
      BY <2>1, <3>4
  <2> QED
    BY <2>2, <2>3
<1>3. PICK g : \A s \in SUBSET S : Cardinality(s) <= Cardinality(S) => g[s] = OneMore(g, f, s)
  <2>1. Cardinality(S) \in Nat
    BY <1>1
  <2> QED
    BY <1>2, <2>1
<1>4. \A s \in SUBSET S : g[s] = OneMore(g, f, s)
  BY <1>1, <1>3, FS_Subset
<1> DEFINE h == [s \in SUBSET S |-> g[s]]
<1>5. \A s \in SUBSET S : OneMore(h, f, s) = OneMore(g, f, s)
  BY DEF OneMore
<1>6. FoldOf(h, f, S)
  BY <1>4, <1>5 DEF FoldOf
<1> QED
  BY <1>6

(* The order in which the elements are chosen does not matter.             *)
LEMMA FoldAddsUp ==
    ASSUME NEW S, NEW f, Summands(f, S),
           NEW g, FoldOf(g, f, S)
    PROVE  AddsUp(g, f, S)
<1>1. \A s \in SUBSET S : g[s] = OneMore(g, f, s)
  BY DEF FoldOf
<1> DEFINE Number == {s \in SUBSET S : g[s] \in Nat}
<1>2. \A s \in SUBSET S : g[s] \in Nat
  <2>1. ASSUME NEW s \in SUBSET S, \A x \in s : g[s \ {x}] \in Nat PROVE g[s] \in Nat
    <3>1. CASE s = {}
      <4>1. g[s] = OneMore(g, f, s)
        BY <1>1
      <4>2. OneMore(g, f, s) = 0
        BY <3>1 DEF OneMore
      <4> QED
        BY <4>1, <4>2
    <3>2. CASE s # {}
      <4> DEFINE c == CHOOSE x \in s : TRUE
      <4>1. c \in s
        BY <3>2
      <4>2. g[s] = f[c] + g[s \ {c}]
        BY <1>1, <3>2 DEF OneMore
      <4> HIDE DEF c
      <4>3. f[c] \in Nat /\ g[s \ {c}] \in Nat
        BY <2>1, <4>1 DEF Summands
      <4> QED
        BY <4>2, <4>3
    <3> QED
      BY <3>1, <3>2
  <2>2. \A s \in SUBSET S : (\A x \in s : s \ {x} \in Number) => s \in Number
    BY <2>1
  <2>3. \A s \in SUBSET S : s \in Number
    <3> HIDE DEF Number
    <3> QED
      BY <2>2, SubsetInduction DEF Summands
  <2> QED
    BY <2>3
<1> DEFINE Right(s) == \A x \in s : g[s] = f[x] + g[s \ {x}]
           Good == {s \in SUBSET S : Right(s)}
<1>3. \A s \in SUBSET S : Right(s)
  <2>1. ASSUME NEW s \in SUBSET S, \A x \in s : Right(s \ {x}), NEW x \in s
        PROVE  g[s] = f[x] + g[s \ {x}]
    <3> DEFINE c == CHOOSE y \in s : TRUE
    <3>1. c \in s
      OBVIOUS
    <3>2. g[s] = f[c] + g[s \ {c}]
      BY <1>1 DEF OneMore
    <3> HIDE DEF c
    <3>3. CASE x # c
      <4> DEFINE r == (s \ {c}) \ {x}
      <4>1. r = (s \ {x}) \ {c} /\ r \in SUBSET S
        OBVIOUS
      <4>2. g[s \ {c}] = f[x] + g[r]
        BY <2>1, <3>1, <3>3
      <4>3. g[s \ {x}] = f[c] + g[(s \ {x}) \ {c}]
        BY <2>1, <3>1, <3>3
      <4> HIDE DEF r
      <4>4. f[x] \in Nat /\ f[c] \in Nat /\ g[r] \in Nat
        BY <1>2, <3>1, <4>1 DEF Summands
      <4> QED
        BY <3>2, <4>1, <4>2, <4>3, <4>4
    <3> QED
      BY <3>2, <3>3
  <2>2. \A s \in SUBSET S : (\A x \in s : s \ {x} \in Good) => s \in Good
    BY <2>1
  <2>3. \A s \in SUBSET S : s \in Good
    <3> HIDE DEF Good
    <3> QED
      BY <2>2, SubsetInduction DEF Summands
  <2> QED
    BY <2>3
<1>4. g[{}] = 0
  BY <1>1 DEF OneMore
<1> QED
  BY <1>2, <1>3, <1>4 DEF AddsUp

LEMMA SumOfUnion ==
    ASSUME NEW S, NEW f, Summands(f, S),
           NEW g, AddsUp(g, f, S), NEW t \in SUBSET S
    PROVE  \A s \in SUBSET S : s \cap t = {} => g[s \cup t] = g[s] + g[t]
<1> DEFINE Right(s) == s \cap t = {} => g[s \cup t] = g[s] + g[t]
           Good == {s \in SUBSET S : Right(s)}
<1>1. /\ g[{}] = 0
      /\ \A s \in SUBSET S : g[s] \in Nat
      /\ \A s \in SUBSET S : \A x \in s : g[s] = f[x] + g[s \ {x}]
  BY DEF AddsUp
<1>2. ASSUME NEW s \in SUBSET S, \A x \in s : Right(s \ {x}), s \cap t = {}
      PROVE  g[s \cup t] = g[s] + g[t]
  <2>1. CASE s = {}
    <3>1. s \cup t = t
      BY <2>1
    <3>2. g[s] = 0 /\ g[t] \in Nat
      BY <1>1, <2>1
    <3>3. 0 + g[t] = g[t]
      BY <3>2
    <3> QED
      BY Zenon, <3>1, <3>2, <3>3
  <2>2. CASE s # {}
    <3>1. PICK x \in s : TRUE
      BY <2>2
    <3>2. (s \cup t) \ {x} = (s \ {x}) \cup t /\ (s \ {x}) \cap t = {} /\ s \cup t \in SUBSET S
      BY <1>2
    <3>3. g[s \cup t] = f[x] + g[(s \cup t) \ {x}]
      BY <1>1, <3>2
    <3>4. g[(s \ {x}) \cup t] = g[s \ {x}] + g[t]
      BY <1>2, <3>2
    <3>5. g[s] = f[x] + g[s \ {x}]
      BY <1>1
    <3>6. f[x] \in Nat /\ g[t] \in Nat /\ g[s \ {x}] \in Nat
      BY <1>1 DEF Summands
    <3>7. \A i, j, k \in Nat : i + (j + k) = (i + j) + k
      OBVIOUS
    <3>8. g[s \cup t] = f[x] + (g[s \ {x}] + g[t])
      BY Zenon, <3>2, <3>3, <3>4
    <3>9. f[x] + (g[s \ {x}] + g[t]) = (f[x] + g[s \ {x}]) + g[t]
      BY Zenon, <3>6, <3>7
    <3> QED
      BY Zenon, <3>5, <3>8, <3>9
  <2> QED
    BY <2>1, <2>2
<1>3. \A s \in SUBSET S : (\A x \in s : s \ {x} \in Good) => s \in Good
  BY <1>2
<1>4. \A s \in SUBSET S : s \in Good
  <2> HIDE DEF Good
  <2> QED
    BY <1>3, SubsetInduction DEF Summands
<1> QED
  BY <1>4

(* Sums over two sets whose elements correspond are equal.                 *)
LEMMA SumOfImage ==
    ASSUME NEW S, NEW f, Summands(f, S), NEW g, AddsUp(g, f, S),
           NEW T, NEW ft, NEW gt, AddsUp(gt, ft, T),
           NEW h, Corresponds(h, S, f, T, ft)
    PROVE  \A s \in SUBSET S : gt[ImageOf(h, s)] = g[s]
<1> DEFINE Right(s) == gt[ImageOf(h, s)] = g[s]
           Good == {s \in SUBSET S : Right(s)}
<1>1. /\ g[{}] = 0 /\ gt[{}] = 0
      /\ \A s \in SUBSET S : \A x \in s : g[s] = f[x] + g[s \ {x}]
      /\ \A s \in SUBSET T : \A x \in s : gt[s] = ft[x] + gt[s \ {x}]
  BY DEF AddsUp
<1>2. ASSUME NEW s \in SUBSET S, \A x \in s : Right(s \ {x})
      PROVE  Right(s)
  <2>1. CASE s = {}
    <3>1. ImageOf(h, s) = {}
      BY <2>1 DEF ImageOf
    <3> QED
      BY <1>1, <2>1, <3>1
  <2>2. CASE s # {}
    <3>1. PICK x \in s : TRUE
      BY <2>2
    <3>2. ImageOf(h, s) \in SUBSET T /\ h[x] \in ImageOf(h, s)
      BY DEF Corresponds, ImageOf
    <3>3. ImageOf(h, s) \ {h[x]} = ImageOf(h, s \ {x})
      BY DEF Corresponds, ImageOf
    <3>7. ft[h[x]] = f[x]
      BY DEF Corresponds
    <3>4. gt[ImageOf(h, s)] = ft[h[x]] + gt[ImageOf(h, s) \ {h[x]}]
      BY <1>1, <3>2
    <3>5. g[s] = f[x] + g[s \ {x}]
      BY <1>1
    <3>6. gt[ImageOf(h, s \ {x})] = g[s \ {x}]
      BY <1>2
    <3> QED
      BY <3>3, <3>4, <3>5, <3>6, <3>7
  <2> QED
    BY <2>1, <2>2
<1>3. \A s \in SUBSET S : (\A x \in s : s \ {x} \in Good) => s \in Good
  <2> HIDE DEF Right
  <2> QED
    BY <1>2
<1>4. \A s \in SUBSET S : s \in Good
  <2> HIDE DEF Good
  <2> QED
    BY <1>3, SubsetInduction DEF Summands
<1> QED
  BY <1>4

LEMMA DisjointUnion ==
    ASSUME NEW A, IsFiniteSet(A), NEW B, IsFiniteSet(B), A \cap B = {}
    PROVE  /\ IsFiniteSet(A \cup B)
           /\ Cardinality(A \cup B) = Cardinality(A) + Cardinality(B)
<1>1. Cardinality(A) \in Nat /\ Cardinality(B) \in Nat
  BY FS_CardinalityType
<1>2. /\ IsFiniteSet(A \cup B)
      /\ Cardinality(A \cup B) =
             Cardinality(A) + Cardinality(B) - Cardinality(A \cap B)
  BY FS_Union
<1>3. Cardinality(A \cap B) = 0
  BY FS_EmptySet
<1> QED
  BY <1>1, <1>2, <1>3

(* A sum of the sizes of disjoint sets counts their union.                 *)
LEMMA SumIsCount ==
    ASSUME NEW S, NEW f, Summands(f, S), NEW g, AddsUp(g, f, S),
           NEW C, Counted(C, S, f)
    PROVE  \A s \in SUBSET S : /\ IsFiniteSet(UnionOf(C, s))
                               /\ g[s] = Cardinality(UnionOf(C, s))
<1> DEFINE Right(s) == IsFiniteSet(UnionOf(C, s)) /\ g[s] = Cardinality(UnionOf(C, s))
           Good == {s \in SUBSET S : Right(s)}
<1>1. /\ g[{}] = 0
      /\ \A s \in SUBSET S : \A x \in s : g[s] = f[x] + g[s \ {x}]
  BY DEF AddsUp
<1>2. ASSUME NEW s \in SUBSET S, \A x \in s : Right(s \ {x})
      PROVE  Right(s)
  <2>1. CASE s = {}
    <3>1. UnionOf(C, s) = {}
      BY <2>1 DEF UnionOf
    <3> QED
      BY <1>1, <2>1, <3>1, FS_EmptySet
  <2>2. CASE s # {}
    <3>1. PICK x \in s : TRUE
      BY <2>2
    <3>2. UnionOf(C, s) = C[x] \cup UnionOf(C, s \ {x})
      BY DEF UnionOf
    <3>3. C[x] \cap UnionOf(C, s \ {x}) = {}
      BY DEF UnionOf, Counted
    <3>4. IsFiniteSet(UnionOf(C, s \ {x})) /\ g[s \ {x}] = Cardinality(UnionOf(C, s \ {x}))
      BY <1>2
    <3>5. /\ IsFiniteSet(C[x] \cup UnionOf(C, s \ {x}))
          /\ Cardinality(C[x] \cup UnionOf(C, s \ {x})) =
                 Cardinality(C[x]) + Cardinality(UnionOf(C, s \ {x}))
      <4>1. IsFiniteSet(C[x])
        BY DEF Counted
      <4> QED
        BY Zenon, <3>3, <3>4, <4>1, DisjointUnion
    <3>7. g[s] = f[x] + g[s \ {x}]
      BY <1>1
    <3>8. Cardinality(C[x]) = f[x]
      BY DEF Counted
    <3> QED
      BY <3>2, <3>4, <3>5, <3>7, <3>8
  <2> QED
    BY <2>1, <2>2
<1>3. \A s \in SUBSET S : (\A x \in s : s \ {x} \in Good) => s \in Good
  <2> HIDE DEF Right
  <2> QED
    BY <1>2
<1>4. \A s \in SUBSET S : s \in Good
  <2> HIDE DEF Good
  <2> QED
    BY <1>3, SubsetInduction DEF Summands
<1> QED
  BY <1>4

(* A sum as MapThenSumSet makes it, of values that f holds.                *)
SumOver(f, B) == (CHOOSE g : FoldOf(g, f, B))[B]

(* The sum over a set is the sum over the set it corresponds to.           *)
LEMMA SumOverImage ==
    ASSUME NEW R, NEW f, Summands(f, R), NEW T, NEW ft, NEW gt, AddsUp(gt, ft, T),
           NEW h, Corresponds(h, R, f, T, ft)
    PROVE  SumOver(f, R) = gt[ImageOf(h, R)]
<1> DEFINE g == CHOOSE g : FoldOf(g, f, R)
<1>1. FoldOf(g, f, R)
  BY FoldExists DEF Summands
<1> HIDE DEF g
<1>2. AddsUp(g, f, R)
  BY <1>1, FoldAddsUp DEF Summands
<1>3. gt[ImageOf(h, R)] = g[R]
  <2>1. R \in SUBSET R
    OBVIOUS
  <2> QED
    BY <1>2, <2>1, SumOfImage DEF Summands, Corresponds
<1> QED
  BY <1>3 DEF SumOver, g

LEMMA SumOverPart ==
    ASSUME NEW T, NEW ft, Summands(ft, T), NEW gt, AddsUp(gt, ft, T), NEW R \in SUBSET T,
           NEW f, \A x \in R : f[x] = ft[x]
    PROVE  SumOver(f, R) = gt[R]
<1> DEFINE h == [x \in R |-> x]
<1>1. Summands(f, R)
  BY FS_Subset DEF Summands
<1>2. Corresponds(h, R, f, T, ft) /\ ImageOf(h, R) = R
  BY DEF Corresponds, ImageOf
<1> HIDE DEF h
<1>3. SumOver(f, R) = gt[ImageOf(h, R)]
  BY ONLY SMT, AddsUp(gt, ft, T), <1>1, <1>2, SumOverImage
<1> QED
  BY <1>2, <1>3

-----------------------------------------------------------------------------
(* Sums over the blocks of a partition.                                    *)

(* Fewer blocks than addresses.                                            *)
LEMMA BlocksFinite ==
    ASSUME NEW B, Valid(B) PROVE IsFiniteSet(B)
<1> DEFINE f == [b \in B |-> b.start]
<1>1. f \in [B -> Addresses]
  BY ValidBlocks, MemoryAssumption DEF Addresses
<1>2. \A b, c \in B : f[b] = f[c] => b = c
  BY ValidBlocks
<1>3. f \in Injection(B, Addresses)
  BY <1>1, <1>2 DEF Injection, IsInjective
<1>4. IsFiniteSet(Addresses)
  BY SubsetsFinite
<1> QED
  BY <1>3, <1>4, FS_Injection

(* The sizes of the blocks of a valid partition make up the memory.        *)
LEMMA SizesAddUp ==
    ASSUME NEW B, Valid(B), NEW g, AddsUp(g, [b \in B |-> b.size], B)
    PROVE  g[B] = TotalMemoryKB
<1> DEFINE f == [b \in B |-> b.size]
           C == [b \in B |-> Cells(b)]
<1>1. IsFiniteSet(B)
  BY BlocksFinite
<1>2. ASSUME NEW b \in B PROVE  IsFiniteSet(C[b]) /\ Cardinality(C[b]) = f[b]
  <2>1. /\ b.start \in Int /\ EndOf(b) - 1 \in Int
        /\ b.start <= EndOf(b) - 1 /\ b.size = (EndOf(b) - 1) - b.start + 1
    BY ValidBlocks
  <2>2. /\ IsFiniteSet(b.start .. EndOf(b) - 1)
        /\ Cardinality(b.start .. EndOf(b) - 1) = b.size
    BY <2>1, FS_Interval
  <2> QED
    BY <2>2 DEF Cells
<1>3. \A b, c \in B : b # c => C[b] \cap C[c] = {}
  BY DEF Valid, validateBlocks
<1>4. Counted(C, B, f)
  BY <1>2, <1>3 DEF Counted
<1>5. UnionOf(C, B) = 0 .. TotalMemoryKB - 1
  <2>1. \A b \in B : C[b] \subseteq 0 .. TotalMemoryKB - 1
    BY ValidBlocks, MemoryAssumption DEF Cells
  <2>2. \A k \in 0 .. TotalMemoryKB - 1 : \E b \in B : k \in C[b]
    BY DEF Valid, validateBlocks
  <2> QED
    BY <2>1, <2>2 DEF UnionOf
<1> HIDE DEF C
<1>6. g[B] = Cardinality(UnionOf(C, B))
  <2>1. B \in SUBSET B
    OBVIOUS
  <2>2. Summands(f, B)
    BY <1>1, ValidBlocks DEF Summands, MemoryBlock
  <2>3. AddsUp(g, f, B)
    OBVIOUS
  <2> HIDE DEF f
  <2> QED
    BY ONLY SMT, <1>4, <2>1, <2>2, <2>3, SumIsCount
<1>7. Cardinality(0 .. TotalMemoryKB - 1) = TotalMemoryKB
  BY MemoryAssumption, FS_Interval
<1> QED
  BY <1>5, <1>6, <1>7
=============================================================================
