------------------------------ MODULE Overview ------------------------------
(***************************************************************************)
(* The figures that overview, mem_stat and status report: what             *)
(* OverviewRenderer::render and MemoryManager::memoryStat count when they  *)
(* walk over the blocks.  Nothing here changes the kernel's state.         *)
(***************************************************************************)
EXTENDS Kernel

Sums == INSTANCE FiniteSetsExt

TotalSize(B) == Sums!MapThenSumSet(LAMBDA b : b.size, B)

memoryStat ==
    [used |-> TotalSize(Allocated(blocks)),
     free |-> TotalSize(FreeBlocks(blocks)),
     largestFree |-> Sums!Max({b.size : b \in FreeBlocks(blocks)} \cup {0})]

(* (1 - largestFree / free) * 100 is printed: external fragmentation.      *)
fragmented == memoryStat.largestFree # memoryStat.free

(* What the PCBs of the processes in R claim.                              *)
TotalClaim(R) == Sums!MapThenSumSet(LAMBDA p : pcbTable[p].memSize, R)

(* The figures add up: used and free memory make up all of it, what is     *)
(* used is what the PCBs that are not swapped out claim and the blocks     *)
(* allocated by hand, and fragmentation is reported exactly when the free  *)
(* memory lies in several pieces.                                          *)
MemoryAddsUp ==
    LET byHand == {b \in blocks : b.type = "KERNEL"}
        resident == {p \in Pids : ~pcbTable[p].swappedOut}
    IN  /\ memoryStat.used + memoryStat.free = TotalMemoryKB
        /\ memoryStat.used = TotalSize(byHand) + TotalClaim(resident)
        /\ fragmented <=> Cardinality(FreeBlocks(blocks)) > 1
=============================================================================
