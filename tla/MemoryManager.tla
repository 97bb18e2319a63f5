---------------------------- MODULE MemoryManager ---------------------------
(***************************************************************************)
(* The dynamic partitions of src/src/memory/MemoryManager.cpp.  blocks_ is *)
(* a vector that the code sorts by start address after every change, so it *)
(* is a set of blocks here and "earlier in the vector" is "at a lower      *)
(* address".  A block's tag is left out: only messages read it.  Every     *)
(* public method holds mutex_ throughout and is one action; the methods    *)
(* that compose are also operators on a partition B.                       *)
(***************************************************************************)
EXTENDS Integers, FiniteSets, Owners

CONSTANT TotalMemoryKB   \* totalMemoryKB_ (1024 in the program)

ASSUME MemoryAssumption == TotalMemoryKB \in Nat \ {0}

VARIABLES blocks,      \* blocks_
          algorithm    \* algorithm_

mmVars == <<blocks, algorithm>>

AllocAlgorithm == {"FIRST_FIT", "BEST_FIT", "WORST_FIT"}

MemoryBlock == [start : Nat, size : Nat, type : {"FREE", "PROCESS", "KERNEL"},
                pid : Nat, owner : Users \cup {NoUser}]

-----------------------------------------------------------------------------
(* Helpers.                                                                *)

FreeBlock(start, size) ==
    [start |-> start, size |-> size, type |-> "FREE", pid |-> 0, owner |-> NoUser]

EndOf(b) == b.start + b.size

Cells(b) == b.start .. EndOf(b) - 1

FreeBlocks(B) == {b \in B : b.type = "FREE"}

Allocated(B) == {b \in B : b.type # "FREE"}

(* mergeFreeBlocksLocked: every maximal run of adjacent FREE blocks becomes *)
(* one block.  A run begins where no FREE block ends and ends where none    *)
(* begins.                                                                  *)
Merged(B) ==
    LET heads == {f.start : f \in {g \in FreeBlocks(B) :
                     \A h \in FreeBlocks(B) : EndOf(h) # g.start}}
        ends  == {EndOf(f) : f \in {g \in FreeBlocks(B) :
                     \A h \in FreeBlocks(B) : h.start # EndOf(g)}}
        runEnd(s) == CHOOSE e \in ends :
                        e > s /\ \A x \in ends : x > s => e <= x
    IN  Allocated(B) \cup {FreeBlock(s, runEnd(s) - s) : s \in heads}

(* Mutant of Released: adjacent FREE blocks stay apart.                    *)
ReleasedUnmerged(B, R) == (B \ R) \cup {FreeBlock(b.start, b.size) : b \in R}

(* The blocks in R are freed and the partition is merged.                  *)
Released(B, R) ==
    Merged((B \ R) \cup {FreeBlock(b.start, b.size) : b \in R})

(* findFreeBlockLocked returns b: the first, smallest or largest FREE      *)
(* block that is large enough; of equals, the one at the lowest address.   *)
Preferred(algo, b, c) ==
    CASE algo = "FIRST_FIT" -> b.start < c.start
      [] algo = "BEST_FIT"  -> b.size < c.size \/ (b.size = c.size /\ b.start < c.start)
      [] algo = "WORST_FIT" -> b.size > c.size \/ (b.size = c.size /\ b.start < c.start)

(* Mutant of LargeEnough: an exact fit will not do.                        *)
LargerOnly(B, sizeKB) == {b \in FreeBlocks(B) : b.size > sizeKB}

LargeEnough(B, sizeKB) == {b \in FreeBlocks(B) : b.size >= sizeKB}

findFreeBlock(B, algo, sizeKB, b) ==
    /\ b \in LargeEnough(B, sizeKB)
    /\ \A c \in LargeEnough(B, sizeKB) \ {b} : Preferred(algo, b, c)

(* The chosen FREE block is replaced, or split and its front replaced.     *)
Placed(B, b, sizeKB, type, pid, owner) ==
    (B \ {b})
    \cup {[start |-> b.start, size |-> sizeKB, type |-> type,
           pid |-> pid, owner |-> owner]}
    \cup (IF b.size = sizeKB THEN {}
          ELSE {FreeBlock(b.start + sizeKB, b.size - sizeKB)})

ProcessBlocks(B, owner, pids) ==
    {b \in B : b.type = "PROCESS" /\ b.owner = owner /\ b.pid \in pids}

(* Mutant of CompactedStart: the cell at the address counts as well.       *)
CompactedStartAfter(B, addr) ==
    Cardinality({k \in 0 .. addr : \E b \in Allocated(B) : k \in Cells(b)})

(* Where a compaction moves an address: below it lie the allocated cells   *)
(* that were below it before.                                              *)
CompactedStart(B, addr) ==
    Cardinality({k \in 0 .. addr - 1 : \E b \in Allocated(B) : k \in Cells(b)})

Compacted(B) ==
    LET used == CompactedStart(B, TotalMemoryKB)
    IN  {[b EXCEPT !.start = CompactedStart(B, b.start)] : b \in Allocated(B)}
        \cup (IF used < TotalMemoryKB
              THEN {FreeBlock(used, TotalMemoryKB - used)} ELSE {})

(* CompactionResult::pidNewStart.                                          *)
pidNewStart(B) ==
    LET process == {b \in B : b.type = "PROCESS"}
    IN  [pid \in {b.pid : b \in process} |->
            CompactedStart(B, (CHOOSE b \in process : b.pid = pid).start)]

-----------------------------------------------------------------------------
(* The operations.                                                         *)

Starts == {b.start : b \in blocks}

MMInit ==
    /\ blocks = {FreeBlock(0, TotalMemoryKB)}
    /\ algorithm = "FIRST_FIT"

(* Mutant of allocate: a request for nothing is served.                    *)
allocateAnything(owner, pid, sizeKB, type, start) ==
    /\ \E b \in blocks :
          /\ findFreeBlock(blocks, algorithm, sizeKB, b)
          /\ b.start = start
          /\ blocks' = Placed(blocks, b, sizeKB, type, pid, owner)
    /\ UNCHANGED algorithm

(* allocateLocked: the block handed out is at start.                       *)
allocate(owner, pid, sizeKB, type, start) ==
    /\ sizeKB > 0
    /\ \E b \in blocks :
          /\ findFreeBlock(blocks, algorithm, sizeKB, b)
          /\ b.start = start
          /\ blocks' = Placed(blocks, b, sizeKB, type, pid, owner)
    /\ UNCHANGED algorithm

allocateForProcess(owner, pid, sizeKB, start) ==
    allocate(owner, pid, sizeKB, "PROCESS", start)

allocateManual(owner, sizeKB, start) ==
    allocate(owner, 0, sizeKB, "KERNEL", start)

freeByAddress(owner, addr) ==
    /\ \E b \in blocks :
          /\ b.start = addr
          /\ b.type # "FREE" /\ b.owner = owner /\ b.type # "PROCESS"
          /\ blocks' = Released(blocks, {b})
    /\ UNCHANGED algorithm

(* freeByPid for each of the removed PIDs; a PID without a block is        *)
(* skipped.  Merging after each or after all gives the same partition.     *)
freeByPids(owner, pids) ==
    /\ blocks' = Released(blocks, ProcessBlocks(blocks, owner, pids))
    /\ UNCHANGED algorithm

swapOutProcess(owner, pid) ==
    /\ ProcessBlocks(blocks, owner, {pid}) # {}
    /\ blocks' = Released(blocks, ProcessBlocks(blocks, owner, {pid}))
    /\ UNCHANGED algorithm

compact ==
    /\ blocks' = Compacted(blocks)
    /\ UNCHANGED algorithm

setAlgorithm(algo) ==
    /\ algorithm' = algo
    /\ UNCHANGED blocks

(* Mutant of importMemory: the algorithm is not restored.                  *)
importBlocksOnly(B, algo) ==
    /\ blocks' = Merged(B)
    /\ UNCHANGED algorithm

(* setAlgorithmDirect and importBlocks.                                    *)
importMemory(B, algo) ==
    /\ blocks' = Merged(B)
    /\ algorithm' = algo

-----------------------------------------------------------------------------
(* What holds of the partition between two calls.                          *)

(* Blocks and the algorithm are well typed.                                *)
MMTypeOK ==
    /\ blocks \subseteq MemoryBlock
    /\ algorithm \in AllocAlgorithm

(* validateBlocks: blocks are not empty, FREE blocks belong to nobody, and *)
(* the blocks lie end to end from 0 to the size of the memory.             *)
validateBlocks(B) ==
    /\ \A b \in B : /\ b.size > 0
                    /\ EndOf(b) <= TotalMemoryKB
                    /\ b.type = "FREE" => b.pid = 0 /\ b.owner = NoUser
    /\ \A b, c \in B : b # c => Cells(b) \cap Cells(c) = {}
    /\ \A k \in 0 .. TotalMemoryKB - 1 : \E b \in B : k \in Cells(b)

(* The partition is one the code accepts on loading a snapshot: no KB is   *)
(* lost, none is in two blocks.                                            *)
PartitionValid == validateBlocks(blocks)

(* No two FREE blocks are adjacent: a request is never refused for a hole  *)
(* that is only split in the table.                                        *)
FreeCoalesced ==
    \A b, c \in FreeBlocks(blocks) : EndOf(b) # c.start
=============================================================================
