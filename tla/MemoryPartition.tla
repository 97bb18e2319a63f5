--------------------------- MODULE MemoryPartition --------------------------
(***************************************************************************)
(* The memory manager under every call the kernel makes on it.  A process  *)
(* is given one block when it is created, under a PID that no block bears. *)
(***************************************************************************)
EXTENDS MemoryManager

CONSTANTS BlockSizes,   \* the sizes requested
          BlockPids     \* the PIDs of the processes that ask for memory

ASSUME PartitionAssumption ==
    /\ BlockSizes \subseteq Nat
    /\ BlockPids \subseteq Nat \ {0}

PartitionAllocate(owner) ==
    \E sizeKB \in BlockSizes, start \in Starts :
        \/ allocateManual(owner, sizeKB, start)
        \/ \E pid \in BlockPids \ {b.pid : b \in blocks} :
              allocateForProcess(owner, pid, sizeKB, start)

PartitionFree(owner) ==
    \/ \E addr \in Starts : freeByAddress(owner, addr)
    \/ \E pids \in SUBSET BlockPids : freeByPids(owner, pids)
    \/ \E pid \in BlockPids : swapOutProcess(owner, pid)

PartitionNext ==
    \/ \E owner \in Users : PartitionAllocate(owner) \/ PartitionFree(owner)
    \/ compact
    \/ \E algo \in AllocAlgorithm : setAlgorithm(algo)

PartitionSpec == MMInit /\ [][PartitionNext]_mmVars

-----------------------------------------------------------------------------
(* A request is refused only if it really does not fit: whenever some run  *)
(* of free KBs is long enough, a FREE block of the table is.  Every        *)
(* release relies on the merge for this.                                   *)
NoFalseRefusal ==
    \A s, e \in 0 .. TotalMemoryKB - 1 :
        (s <= e /\ \A k \in s .. e : \A b \in Allocated(blocks) : k \notin Cells(b))
            => LargeEnough(blocks, e - s + 1) # {}

(* The allocated blocks, as extents of an address space.                   *)
ExtentOf(b) ==
    [start |-> b.start, size |-> b.size,
     tag |-> [type |-> b.type, pid |-> b.pid, owner |-> b.owner]]

ExtentTags ==
    [type : {"PROCESS", "KERNEL"}, pid : BlockPids \cup {0}, owner : Users]

Space == INSTANCE AddressSpace WITH
    Size <- TotalMemoryKB,
    Tags <- ExtentTags,
    extents <- {ExtentOf(b) : b \in Allocated(blocks)}

(* Splitting, merging and compacting the table of blocks implements an     *)
(* address space: allocated memory never overlaps and moves only when it   *)
(* is compacted.                                                           *)
ImplementsAddressSpace == Space!Spec
=============================================================================
