---------------------------- MODULE MemoryProofs ----------------------------
(***************************************************************************)
(* The partition of a memory of any size: no KB is lost or handed out      *)
(* twice, free neighbours are merged, and what fits is not refused.        *)
(***************************************************************************)
EXTENDS MemoryPartition, MemoryManagerProofs

(* Every call keeps the partition valid and merged.                        *)
LEMMA PartitionStep == PartitionInv /\ [PartitionNext]_mmVars => PartitionInv'
<1> SUFFICES ASSUME PartitionInv, [PartitionNext]_mmVars PROVE PartitionInv'
  OBVIOUS
<1>0. ASSUME blocks' = blocks PROVE PartitionInv'
  BY <1>0 DEF PartitionInv, Valid, Coalesced, validateBlocks, FreeBlocks, MemoryBlock, EndOf, Cells
<1>1. ASSUME NEW owner \in Users, PartitionAllocate(owner) PROVE PartitionInv'
  <2>1. PICK sizeKB \in BlockSizes, start \in Starts :
           \/ allocateManual(owner, sizeKB, start)
           \/ \E pid \in BlockPids \ {b.pid : b \in blocks} :
                 allocateForProcess(owner, pid, sizeKB, start)
    BY <1>1 DEF PartitionAllocate
  <2>2. sizeKB \in Nat /\ 0 \in Nat
    BY PartitionAssumption
  <2>3. ASSUME allocateManual(owner, sizeKB, start) PROVE PartitionInv'
    BY <2>2, <2>3, AllocateKeeps DEF allocateManual
  <2>4. ASSUME NEW pid \in BlockPids, allocateForProcess(owner, pid, sizeKB, start)
        PROVE  PartitionInv'
    <3>1. pid \in Nat
      BY PartitionAssumption
    <3> QED
      BY <2>2, <2>4, <3>1, AllocateKeeps DEF allocateForProcess
  <2> QED
    BY <2>1, <2>3, <2>4
<1>2. ASSUME NEW owner \in Users, PartitionFree(owner) PROVE PartitionInv'
  <2>1. ASSUME NEW addr \in Starts, freeByAddress(owner, addr) PROVE PartitionInv'
    <3>1. PICK b \in blocks : blocks' = Released(blocks, {b})
      BY <2>1 DEF freeByAddress
    <3> QED
      BY <3>1, ReleaseKeeps
  <2>2. \A pids : ProcessBlocks(blocks, owner, pids) \in SUBSET blocks
    BY DEF ProcessBlocks
  <2>3. ASSUME NEW pids, freeByPids(owner, pids) PROVE PartitionInv'
    BY <2>2, <2>3, ReleaseKeeps DEF freeByPids
  <2>4. ASSUME NEW pid, swapOutProcess(owner, pid) PROVE PartitionInv'
    BY <2>2, <2>4, ReleaseKeeps DEF swapOutProcess
  <2> QED
    BY <1>2, <2>1, <2>3, <2>4 DEF PartitionFree
<1>3. CASE compact
  <2>1. Valid(blocks') /\ Coalesced(blocks')
    BY <1>3, CompactedValid DEF compact, PartitionInv
  <2> QED
    BY <2>1 DEF PartitionInv, Valid, Coalesced, validateBlocks, FreeBlocks, MemoryBlock, EndOf, Cells
<1>4. ASSUME NEW algo, setAlgorithm(algo) PROVE PartitionInv'
  BY <1>0, <1>4 DEF setAlgorithm
<1>5. CASE UNCHANGED mmVars
  BY <1>0, <1>5 DEF mmVars
<1> QED
  BY <1>1, <1>2, <1>3, <1>4, <1>5 DEF PartitionNext

-----------------------------------------------------------------------------
(* Blocks and the algorithm are well typed in every state.                 *)
THEOREM MemoryTypes == PartitionSpec => []MMTypeOK
<1>1. MMInit => algorithm \in AllocAlgorithm
  BY DEF MMInit, AllocAlgorithm
<1>2. algorithm \in AllocAlgorithm /\ [PartitionNext]_mmVars => (algorithm \in AllocAlgorithm)'
  <2> SUFFICES ASSUME algorithm \in AllocAlgorithm, [PartitionNext]_mmVars
               PROVE  algorithm' \in AllocAlgorithm
    OBVIOUS
  <2>1. ASSUME NEW owner \in Users, PartitionAllocate(owner) PROVE algorithm' = algorithm
    BY <2>1, Zenon DEF PartitionAllocate, allocateManual, allocateForProcess, allocate
  <2>2. ASSUME NEW owner \in Users, PartitionFree(owner) PROVE algorithm' = algorithm
    BY <2>2, Zenon DEF PartitionFree, freeByAddress, freeByPids, swapOutProcess
  <2>3. CASE compact
    BY <2>3 DEF compact
  <2>4. ASSUME NEW algo \in AllocAlgorithm, setAlgorithm(algo)
        PROVE  algorithm' \in AllocAlgorithm
    BY <2>4 DEF setAlgorithm
  <2>5. CASE UNCHANGED mmVars
    BY <2>5 DEF mmVars
  <2> QED
    BY <2>1, <2>2, <2>3, <2>4, <2>5 DEF PartitionNext
<1>3. PartitionInv /\ algorithm \in AllocAlgorithm => MMTypeOK
  BY DEF PartitionInv, Valid, MMTypeOK
<1> QED
  BY <1>1, <1>2, <1>3, PartitionInit, PartitionStep, PTL DEF PartitionSpec

(* In every state the blocks tile the memory, so the snapshot validation   *)
(* of the code accepts them.                                               *)
THEOREM PartitionAlwaysValid == PartitionSpec => []PartitionValid
<1>1. PartitionInv => PartitionValid
  BY DEF PartitionInv, Valid, PartitionValid
<1> QED
  BY <1>1, PartitionInit, PartitionStep, PTL DEF PartitionSpec

(* In every state no two FREE blocks are adjacent.                         *)
THEOREM AlwaysCoalesced == PartitionSpec => []FreeCoalesced
<1>1. PartitionInv => FreeCoalesced
  BY DEF PartitionInv, Coalesced, FreeCoalesced
<1> QED
  BY <1>1, PartitionInit, PartitionStep, PTL DEF PartitionSpec

(* In every state a request that fits in consecutive free KBs finds a      *)
(* block: the cells lie in one FREE block, because the next would be       *)
(* adjacent to it.                                                         *)
THEOREM NeverRefusedFalsely == PartitionSpec => []NoFalseRefusal
<1>1. PartitionInv => NoFalseRefusal
  <2> USE MemoryAssumption
  <2> SUFFICES ASSUME PartitionInv,
                      NEW s \in 0 .. TotalMemoryKB - 1, NEW e \in 0 .. TotalMemoryKB - 1,
                      s <= e,
                      \A k \in s .. e : \A b \in Allocated(blocks) : k \notin Cells(b)
               PROVE  LargeEnough(blocks, e - s + 1) # {}
    BY DEF NoFalseRefusal
  <2>1. /\ \A b \in blocks : /\ b.start \in Nat /\ EndOf(b) \in Nat
                             /\ b.start < EndOf(b) /\ b.size = EndOf(b) - b.start
        /\ \A b, c \in blocks : \A k \in Int : InBlock(b, k) /\ InBlock(c, k) => b = c
        /\ \A k \in Int : 0 <= k /\ k < TotalMemoryKB => \E b \in blocks : InBlock(b, k)
    BY ValidBlocks DEF InBlock, PartitionInv
  <2>2. ASSUME NEW k \in Int, s <= k, k <= e
        PROVE  \E f \in FreeBlocks(blocks) : InBlock(f, k)
    <3>1. PICK b \in blocks : InBlock(b, k)
      BY <2>1, <2>2
    <3>2. k \in Cells(b)
      BY <2>1, <3>1 DEF Cells, InBlock
    <3> QED
      BY <2>2, <3>1, <3>2 DEF FreeBlocks, Allocated
  <2>3. PICK f \in FreeBlocks(blocks) : InBlock(f, s)
    BY <2>2
  <2>4. f \in blocks
    BY DEF FreeBlocks
  <2>5. e < EndOf(f)
    <3>1. SUFFICES ASSUME EndOf(f) <= e PROVE FALSE
      BY <2>1, <2>4
    <3>2. PICK g \in FreeBlocks(blocks) : InBlock(g, EndOf(f))
      BY <2>1, <2>2, <2>3, <2>4, <3>1 DEF InBlock
    <3>3. g \in blocks /\ EndOf(f) # g.start
      BY DEF FreeBlocks, PartitionInv, Coalesced
    <3>4. InBlock(g, EndOf(f) - 1) /\ InBlock(f, EndOf(f) - 1)
      BY <2>1, <2>4, <3>2, <3>3 DEF InBlock
    <3>5. f = g
      BY <2>1, <2>4, <3>3, <3>4
    <3> QED
      BY <2>1, <2>4, <3>2, <3>5 DEF InBlock
  <2>6. f.size >= e - s + 1
    BY <2>1, <2>3, <2>4, <2>5 DEF InBlock
  <2> QED
    BY <2>6 DEF LargeEnough
<1> QED
  BY <1>1, PartitionInit, PartitionStep, PTL DEF PartitionSpec

-----------------------------------------------------------------------------
(* The partition implements an address space.                              *)

Extents == {ExtentOf(b) : b \in Allocated(blocks)}

LEMMA AllocateMaps ==
    ASSUME PartitionInv, NEW owner \in Users, NEW pid \in BlockPids \cup {0},
           NEW sizeKB \in Nat, NEW type \in {"PROCESS", "KERNEL"}, NEW start,
           allocate(owner, pid, sizeKB, type, start)
    PROVE  Space!Allocate
<1> USE MemoryAssumption
<1>1. sizeKB > 0
  BY DEF allocate
<1>2. PICK b \in blocks :
         /\ findFreeBlock(blocks, algorithm, sizeKB, b)
         /\ blocks' = Placed(blocks, b, sizeKB, type, pid, owner)
  BY DEF allocate
<1> DEFINE new == [start |-> b.start, size |-> sizeKB, type |-> type,
                   pid |-> pid, owner |-> owner]
           e == ExtentOf(new)
<1>3. b.type = "FREE" /\ b.size >= sizeKB
  BY <1>2 DEF findFreeBlock, LargeEnough, FreeBlocks
<1>4. /\ \A c \in blocks : /\ c.start \in Nat /\ EndOf(c) \in Nat /\ c.size \in Nat
                           /\ c.start < EndOf(c) /\ EndOf(c) <= TotalMemoryKB
                           /\ EndOf(c) = c.start + c.size
      /\ \A c, d \in blocks : \A k \in Int : InBlock(c, k) /\ InBlock(d, k) => c = d
  BY ValidBlocks DEF InBlock, PartitionInv, EndOf
<1>5. /\ e.start = b.start /\ e.size = sizeKB /\ e \in Space!Extent
  <2>1. b.start \in 0 .. TotalMemoryKB - 1 /\ sizeKB \in 1 .. TotalMemoryKB
    BY <1>1, <1>3, <1>4
  <2> QED
    BY <2>1 DEF ExtentOf, ExtentTags, Space!Extent
<1>6. \A c : c \in Allocated(blocks)' <=> c \in Allocated(blocks) \/ c = new
  <2>1. \A c : c \in blocks' => c \in blocks \/ c = new \/ c.type = "FREE"
    BY <1>2 DEF Placed, FreeBlock
  <2>2. new \in blocks' /\ new.type # "FREE"
    BY <1>2 DEF Placed
  <2>3. \A c \in Allocated(blocks) : c \in blocks'
    BY <1>2, <1>3 DEF Placed, Allocated
  <2> HIDE DEF new
  <2> QED
    BY <2>1, <2>2, <2>3 DEF Allocated
<1> HIDE DEF new
<1>7. Extents' = Extents \cup {e}
  BY <1>6 DEF Extents
<1>8. Space!Interval(e) \subseteq (0 .. TotalMemoryKB - 1) \ Space!Occupied
  <2> SUFFICES ASSUME NEW k \in Space!Interval(e)
               PROVE  k \in 0 .. TotalMemoryKB - 1 /\ k \notin Space!Occupied
    OBVIOUS
  <2>1. k \in Int /\ b.start <= k /\ k < b.start + sizeKB
    BY <1>4, <1>5 DEF Space!Interval
  <2>2. InBlock(b, k) /\ k \in 0 .. TotalMemoryKB - 1
    BY <1>3, <1>4, <2>1 DEF InBlock
  <2>3. ASSUME NEW c \in Allocated(blocks), k \in Space!Interval(ExtentOf(c)) PROVE FALSE
    <3>1. c \in blocks /\ c.type # "FREE"
      BY DEF Allocated
    <3>2. ExtentOf(c).start = c.start /\ ExtentOf(c).size = c.size
      BY DEF ExtentOf
    <3>3. InBlock(c, k)
      BY <1>4, <2>1, <2>3, <3>1, <3>2 DEF Space!Interval, InBlock
    <3> QED
      BY <1>3, <1>4, <2>1, <2>2, <3>1, <3>3
  <2> QED
    BY <2>2, <2>3 DEF Space!Occupied
<1> QED
  BY <1>5, <1>7, <1>8 DEF Space!Allocate, Extents

LEMMA ReleaseMaps ==
    ASSUME NEW R \in SUBSET blocks, blocks' = Released(blocks, R)
    PROVE  Space!Release
<1>1. \A c \in Allocated(blocks)' : c \in Allocated(blocks)
  <2> DEFINE C == (blocks \ R) \cup {FreeBlock(b.start, b.size) : b \in R}
  <2>1. \A c \in C : c \in blocks \/ c.type = "FREE"
    BY DEF FreeBlock
  <2>2. blocks' = Allocated(C) \cup {FreeBlock(s, RunEnd(C, s) - s) : s \in RunStarts(C)}
    BY MergedIs DEF Released
  <2> HIDE DEF C
  <2>3. \A c \in blocks' : c \in Allocated(C) \/ c.type = "FREE"
    BY <2>2 DEF FreeBlock
  <2> QED
    BY <2>1, <2>3 DEF Allocated
<1>2. Extents' \subseteq Extents
  BY <1>1 DEF Extents
<1>3. Extents' = Extents \ (Extents \ Extents')
  BY <1>2
<1> QED
  BY <1>3 DEF Space!Release, Extents

LEMMA CompactMaps ==
    ASSUME PartitionInv, blocks' = Compacted(blocks)
    PROVE  Space!Compact
<1> USE MemoryAssumption
<1> DEFINE cs(a) == CompactedStart(blocks, a)
           moved(b) == [b EXCEPT !.start = cs(b.start)]
           used == cs(TotalMemoryKB)
           to == [e \in Extents |-> cs(e.start)]
<1>1. Valid(blocks)
  BY DEF PartitionInv
<1>2. /\ \A b \in Allocated(blocks) :
            /\ b \in blocks /\ b \in MemoryBlock /\ b.type # "FREE"
            /\ b.start \in Nat /\ EndOf(b) \in Nat /\ b.size \in Nat
            /\ b.start < EndOf(b) /\ EndOf(b) <= TotalMemoryKB /\ EndOf(b) = b.start + b.size
      /\ \A b, c \in Allocated(blocks) : \A k \in Int : InBlock(b, k) /\ InBlock(c, k) => b = c
  BY <1>1, ValidBlocks DEF Allocated, MemoryBlock, InBlock, EndOf
<1>3. /\ \A a \in Nat : cs(a) \in Nat /\ cs(a) <= a
      /\ \A a, c \in Nat : a <= c => cs(a) <= cs(c)
  BY CompactedCounts
<1>4. \A b \in Allocated(blocks) : cs(EndOf(b)) = cs(b.start) + b.size
  BY <1>1, CompactedSize
<1>5. \A m \in Nat : m < used => \E b \in Allocated(blocks) : cs(b.start) <= m /\ m < cs(EndOf(b))
  BY <1>1, CompactedCovers
<1>6. \A c : c \in Allocated(blocks)' <=> \E b \in Allocated(blocks) : c = moved(b)
  <2>1. \A b \in Allocated(blocks) : moved(b).type # "FREE"
    BY DEF Allocated, MemoryBlock, PartitionInv, Valid
  <2>2. blocks' = {moved(b) : b \in Allocated(blocks)}
                  \cup (IF used < TotalMemoryKB
                        THEN {FreeBlock(used, TotalMemoryKB - used)} ELSE {})
    BY DEF Compacted
  <2> HIDE DEF moved, used
  <2>3. \A c \in blocks' : c.type = "FREE" \/ \E b \in Allocated(blocks) : c = moved(b)
    BY <2>2 DEF FreeBlock
  <2> QED
    BY <2>1, <2>2, <2>3 DEF Allocated
<1>7. \A b \in Allocated(blocks) : ExtentOf(b).start = b.start /\ ExtentOf(b).size = b.size
  BY DEF ExtentOf
<1>8. \A b \in Allocated(blocks) :
         ExtentOf(moved(b)) = [ExtentOf(b) EXCEPT !.start = cs(b.start)]
  BY <1>2 DEF ExtentOf, MemoryBlock
<1>9. \A b \in Allocated(blocks) : moved(b).start = cs(b.start) /\ moved(b).size = b.size
  BY <1>2 DEF MemoryBlock
<1> HIDE DEF cs, moved, used
<1>11. \A e \in Extents : to[e] = cs(e.start)
  OBVIOUS
<1>12. \A b \in Allocated(blocks) : ExtentOf(b) \in Extents /\ to[ExtentOf(b)] = cs(b.start)
  BY <1>7 DEF Extents
<1>13. to \in [Extents -> 0 .. TotalMemoryKB - 1]
  <2>1. ASSUME NEW b \in Allocated(blocks) PROVE cs(b.start) \in 0 .. TotalMemoryKB - 1
    <3>1. cs(b.start) \in Nat /\ cs(b.start) <= b.start
      BY <1>2, <1>3
    <3> QED
      BY <1>2, <3>1
  <2> QED
    BY <1>7, <2>1 DEF Extents
<1> HIDE DEF to
<1>14. Extents' = {[e EXCEPT !.start = to[e]] : e \in Extents}
  <2>1. \A x : x \in Extents' <=> \E b \in Allocated(blocks) : x = ExtentOf(moved(b))
    BY <1>6 DEF Extents
  <2>2. \A x : x \in Extents'
            <=> \E b \in Allocated(blocks) :
                    x = [ExtentOf(b) EXCEPT !.start = to[ExtentOf(b)]]
    BY <1>8, <1>12, <2>1
  <2> QED
    BY <2>2 DEF Extents
<1>15. ASSUME NEW e \in Extents, NEW f \in Extents, e.start < f.start
       PROVE  to[e] + e.size <= to[f]
  <2>1. PICK b \in Allocated(blocks), c \in Allocated(blocks) : e = ExtentOf(b) /\ f = ExtentOf(c)
    BY DEF Extents
  <2>2. b.start < c.start
    BY <1>7, <1>15, <2>1
  <2>3. EndOf(b) <= c.start
    <3>1. SUFFICES ASSUME c.start < EndOf(b) PROVE FALSE
      BY <1>2
    <3>2. InBlock(b, c.start) /\ InBlock(c, c.start)
      BY <1>2, <2>2, <3>1 DEF InBlock
    <3> QED
      BY <1>2, <2>2, <3>2
  <2>4. cs(b.start) + b.size <= cs(c.start)
    BY <1>2, <1>3, <1>4, <2>3
  <2> QED
    BY <1>7, <1>12, <2>1, <2>4
<1>16. used \in Nat
  BY <1>3 DEF used
<1>18. (Space!Occupied)' = 0 .. used - 1
  <2>1. ASSUME NEW b \in Allocated(blocks)
        PROVE  /\ Space!Interval(ExtentOf(moved(b))) = cs(b.start) .. cs(EndOf(b)) - 1
               /\ cs(b.start) \in Nat /\ cs(EndOf(b)) \in Nat /\ cs(EndOf(b)) <= used
    <3>1. ExtentOf(moved(b)).start = cs(b.start) /\ ExtentOf(moved(b)).size = b.size
      BY <1>9 DEF ExtentOf
    <3>2. cs(b.start) \in Nat /\ cs(EndOf(b)) \in Nat /\ cs(EndOf(b)) <= used
      BY <1>2, <1>3 DEF used
    <3>3. cs(b.start) + b.size - 1 = cs(EndOf(b)) - 1
      <4>1. cs(b.start) + b.size = cs(EndOf(b)) /\ b.size \in Nat
        BY <1>2, <1>4
      <4> QED
        BY <3>2, <4>1
    <3> QED
      BY <3>1, <3>2, <3>3 DEF Space!Interval
  <2>2. \A k : k \in (Space!Occupied)'
            <=> \E b \in Allocated(blocks) : k \in Space!Interval(ExtentOf(moved(b)))
    BY <1>6 DEF Space!Occupied, Space!Interval
  <2>3. \A k : k \in (Space!Occupied)'
            <=> \E b \in Allocated(blocks) : k \in cs(b.start) .. cs(EndOf(b)) - 1
    BY <2>1, <2>2
  <2>4. ASSUME NEW b \in Allocated(blocks), NEW k \in cs(b.start) .. cs(EndOf(b)) - 1
        PROVE  k \in 0 .. used - 1
    BY <1>16, <2>1
  <2>5. ASSUME NEW k \in 0 .. used - 1
        PROVE  \E b \in Allocated(blocks) : k \in cs(b.start) .. cs(EndOf(b)) - 1
    <3>1. k \in Nat /\ k < used
      BY <1>16
    <3>2. PICK b \in Allocated(blocks) : cs(b.start) <= k /\ k < cs(EndOf(b))
      BY <1>5, <3>1
    <3> QED
      BY <2>1, <3>1, <3>2
  <2> QED
    BY <2>3, <2>4, <2>5
<1> QED
  <2>1. used \in 0 .. TotalMemoryKB
    BY <1>3, <1>16 DEF used
  <2>2. \E t \in [Extents -> 0 .. TotalMemoryKB - 1] :
           /\ Extents' = {[e EXCEPT !.start = t[e]] : e \in Extents}
           /\ \A e, f \in Extents : e.start < f.start => t[e] + e.size <= t[f]
           /\ \E top \in 0 .. TotalMemoryKB : (Space!Occupied)' = 0 .. top - 1
    <3>1. \A e, f \in Extents : e.start < f.start => to[e] + e.size <= to[f]
      BY <1>15
    <3> WITNESS to \in [Extents -> 0 .. TotalMemoryKB - 1]
    <3> QED
      BY <1>14, <1>18, <2>1, <3>1
  <2> QED
    BY <2>2 DEF Space!Compact, Extents

(* Every call on the partition is a step of an address space or leaves it  *)
(* alone: memory that is handed out never overlaps, stays where it is      *)
(* until it is released, and keeps its order when it is compacted.         *)
THEOREM PartitionImplements == PartitionSpec => ImplementsAddressSpace
<1>1. MMInit => Space!Init
  <2> SUFFICES ASSUME MMInit PROVE Extents = {}
    BY DEF Space!Init, Extents
  <2>1. \A b \in blocks : b.type = "FREE"
    BY DEF MMInit, FreeBlock
  <2> QED
    BY <2>1 DEF Extents, Allocated
<1>2. PartitionInv /\ [PartitionNext]_mmVars => [Space!Next]_Extents
  <2> SUFFICES ASSUME PartitionInv, [PartitionNext]_mmVars PROVE Space!Next \/ UNCHANGED Extents
    OBVIOUS
  <2>0. ASSUME blocks' = blocks PROVE UNCHANGED Extents
    BY <2>0 DEF Extents, Allocated, ExtentOf
  <2>1. ASSUME NEW owner \in Users, PartitionAllocate(owner) PROVE Space!Allocate
    <3>1. PICK sizeKB \in BlockSizes, start \in Starts :
             \/ allocateManual(owner, sizeKB, start)
             \/ \E pid \in BlockPids \ {b.pid : b \in blocks} :
                   allocateForProcess(owner, pid, sizeKB, start)
      BY <2>1 DEF PartitionAllocate
    <3>2. sizeKB \in Nat
      BY PartitionAssumption
    <3>3. ASSUME allocateManual(owner, sizeKB, start) PROVE Space!Allocate
      BY <3>2, <3>3, AllocateMaps DEF allocateManual
    <3>4. ASSUME NEW pid \in BlockPids, allocateForProcess(owner, pid, sizeKB, start)
          PROVE  Space!Allocate
      BY <3>2, <3>4, AllocateMaps DEF allocateForProcess
    <3> QED
      BY <3>1, <3>3, <3>4
  <2>2. ASSUME NEW owner \in Users, PartitionFree(owner) PROVE Space!Release
    <3>1. ASSUME NEW addr \in Starts, freeByAddress(owner, addr) PROVE Space!Release
      <4>1. PICK b \in blocks : blocks' = Released(blocks, {b})
        BY <3>1 DEF freeByAddress
      <4> QED
        BY <4>1, ReleaseMaps
    <3>2. \A pids : ProcessBlocks(blocks, owner, pids) \in SUBSET blocks
      BY DEF ProcessBlocks
    <3>3. ASSUME NEW pids, freeByPids(owner, pids) PROVE Space!Release
      BY <3>2, <3>3, ReleaseMaps DEF freeByPids
    <3>4. ASSUME NEW pid, swapOutProcess(owner, pid) PROVE Space!Release
      BY <3>2, <3>4, ReleaseMaps DEF swapOutProcess
    <3> QED
      BY <2>2, <3>1, <3>3, <3>4 DEF PartitionFree
  <2>3. CASE compact
    BY <2>3, CompactMaps DEF compact, Space!Next
  <2>4. ASSUME NEW algo, setAlgorithm(algo) PROVE UNCHANGED Extents
    BY <2>0, <2>4 DEF setAlgorithm
  <2>5. CASE UNCHANGED mmVars
    BY <2>0, <2>5 DEF mmVars
  <2> QED
    BY <2>1, <2>2, <2>3, <2>4, <2>5 DEF PartitionNext, Space!Next
<1> QED
  BY <1>1, <1>2, PartitionInit, PartitionStep, PTL
     DEF PartitionSpec, ImplementsAddressSpace, Space!Spec, Extents
=============================================================================
