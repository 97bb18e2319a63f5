---------------------------- MODULE KernelProofs ----------------------------
(***************************************************************************)
(* What the composition of the components keeps right, for any users,      *)
(* sizes and number of processes, through saves, loads and restarts: the   *)
(* process table, the session, the owners of everything, the files, and    *)
(* the figures that are shown of the memory.                               *)
(***************************************************************************)
EXTENDS Overview, ProcessManagerProofs, MemoryManagerProofs

-----------------------------------------------------------------------------
(* The invariant, part by part, as predicates of values, so that they can  *)
(* be said of a snapshot as well.                                          *)

AccountsOK(U) ==
    /\ DOMAIN U \subseteq Users
    /\ U \in [DOMAIN U -> UserAccount]
    /\ \A u \in DOMAIN U : U[u].status = "LOCKED" <=> U[u].failedAttempts >= 3

(* The PCBs belong to accounts.                                            *)
PcbOwners(P, A) == \A p \in DOMAIN P : P[p].owner \in A

AllocatedBlock(A) ==
    [start : Nat, size : Nat, type : {"PROCESS", "KERNEL"}, pid : Nat, owner : A]

(* So do the allocated blocks.                                             *)
BlocksOK(B, A) ==
    \A b \in B : /\ b.start \in Nat
                 /\ b.type # "FREE" => b \in AllocatedBlock(A)

FilesOK(F, n, A) ==
    /\ n \in Nat \ {0}
    /\ \A f \in F : /\ f \in [fileId : Nat, owner : A, name : FileNames, content : Contents]
                    /\ f.fileId < n
    /\ \A f, g \in F :
          (f.owner = g.owner /\ f.name = g.name) \/ f.fileId = g.fileId => f = g

(* The block of process p with the PCB r.                                  *)
BlockFor(p, r) ==
    [start |-> r.memStart, size |-> r.memSize, type |-> "PROCESS",
     pid |-> p, owner |-> r.owner]

(* The PROCESS blocks are those of the processes that are not swapped out. *)
BlocksMatch(P, B) ==
    /\ \A p \in DOMAIN P : ~P[p].swappedOut => BlockFor(p, P[p]) \in B
    /\ \A b \in B : b.type = "PROCESS" =>
          b.pid \in DOMAIN P /\ ~P[b.pid].swappedOut /\ b = BlockFor(b.pid, P[b.pid])

MemoryOK(P, B) == Valid(B) /\ Coalesced(B) /\ BlocksMatch(P, B)

SnapshotOK(s) ==
    /\ TableOK(s.pcbs, s.readyQueues, s.nextPid)
    /\ AccountsOK(s.users)
    /\ PcbOwners(s.pcbs, DOMAIN s.users)
    /\ BlocksOK(s.memoryBlocks, DOMAIN s.users)
    /\ MemoryOK(s.pcbs, s.memoryBlocks)
    /\ s.allocAlgorithm \in AllocAlgorithm
    /\ FilesOK(s.virtualFiles, s.nextFileId, DOMAIN s.users)
    /\ s = [users |-> s.users, nextPid |-> s.nextPid, pcbs |-> s.pcbs,
            readyQueues |-> s.readyQueues, memoryBlocks |-> s.memoryBlocks,
            allocAlgorithm |-> s.allocAlgorithm, nextFileId |-> s.nextFileId,
            virtualFiles |-> s.virtualFiles]

SessionOK ==
    isLoggedIn => /\ currentUser \in DOMAIN users
                  /\ users[currentUser].failedAttempts = 0

DiskOK == snapshotFile # NoFile => SnapshotOK(snapshotFile)

KernelInv ==
    /\ PMInv
    /\ AccountsOK(users)
    /\ PcbOwners(pcbTable, DOMAIN users)
    /\ BlocksOK(blocks, DOMAIN users)
    /\ MemoryOK(pcbTable, blocks)
    /\ algorithm \in AllocAlgorithm
    /\ FilesOK(files, nextFileId, DOMAIN users)
    /\ SessionOK
    /\ SchedulerServesSession
    /\ DiskOK

-----------------------------------------------------------------------------
(* What stays as it is stays right.                                        *)

LEMMA TableStays ==
    ASSUME PMInv, UNCHANGED pmVars PROVE PMInv'
BY InvIsTableOK, InvIsTableOKNext DEF pmVars

LEMMA SessionStays ==
    ASSUME SessionOK, SchedulerServesSession, UNCHANGED umVars, UNCHANGED schedVars
    PROVE  SessionOK' /\ SchedulerServesSession'
BY DEF SessionOK, SchedulerServesSession, isLoggedIn, umVars, schedVars

LEMMA DiskStays ==
    ASSUME DiskOK, UNCHANGED diskVars PROVE DiskOK'
BY DEF DiskOK, diskVars

-----------------------------------------------------------------------------
(* Owners of PCBs.                                                         *)

(* Nobody gets a process of somebody else.                                 *)
LEMMA ServedOwners ==
    ASSUME NEW A, NEW owner, PcbOwners(pcbTable, A), ServesOnly(owner)
    PROVE  PcbOwners(pcbTable', A)
BY DEF PcbOwners, ServesOnly, KeepsMemory, Pids

(* A new PCB belongs to its creator.                                       *)
LEMMA CreateOwners ==
    ASSUME PMInv, NEW A, NEW owner \in A, PcbOwners(pcbTable, A),
           NEW memKB, NEW start, NEW priority, NEW totalTime, NEW ppid,
           createProcess(owner, memKB, start, priority, totalTime, ppid)
    PROVE  PcbOwners(pcbTable', A)
<1>1. /\ Pids' = Pids \cup {nextPid} /\ pcbTable'[nextPid].owner = owner
      /\ \A p \in Pids : KeepsMemory(pcbTable[p], pcbTable'[p])
  BY CreateEffect
<1> QED
  BY <1>1 DEF PcbOwners, KeepsMemory, Pids

-----------------------------------------------------------------------------
(* Blocks.                                                                 *)

LEMMA FreeBlockFacts ==
    ASSUME NEW s, NEW n
    PROVE  FreeBlock(s, n).start = s /\ FreeBlock(s, n).type = "FREE"
BY DEF FreeBlock

(* Merging invents no allocated block, and a merged run begins where a     *)
(* block began.                                                            *)
LEMMA MergedBlocks ==
    ASSUME NEW A, NEW B, BlocksOK(B, A) PROVE BlocksOK(Merged(B), A)
<1>1. \A b \in Merged(B) :
         \/ b \in Allocated(B)
         \/ \E f \in FreeBlocks(B) : \E n : b = FreeBlock(f.start, n)
  BY Zenon DEF Merged
<1>2. ASSUME NEW b \in Merged(B)
      PROVE  b.start \in Nat /\ (b.type # "FREE" => b \in AllocatedBlock(A))
  <2>1. CASE b \in Allocated(B)
    BY <2>1 DEF Allocated, BlocksOK
  <2>2. ASSUME NEW f \in FreeBlocks(B), NEW n, b = FreeBlock(f.start, n)
        PROVE  b.start \in Nat /\ b.type = "FREE"
    BY <2>2, FreeBlockFacts DEF FreeBlocks, BlocksOK
  <2> QED
    BY <1>1, <2>1, <2>2
<1> QED
  BY <1>2 DEF BlocksOK

LEMMA ReleasedBlocks ==
    ASSUME NEW A, NEW B, BlocksOK(B, A), NEW R \in SUBSET B
    PROVE  BlocksOK(Released(B, R), A)
<1> DEFINE C == (B \ R) \cup {FreeBlock(b.start, b.size) : b \in R}
<1>1. BlocksOK(C, A)
  BY FreeBlockFacts DEF BlocksOK
<1> HIDE DEF C
<1>2. BlocksOK(Merged(C), A)
  BY <1>1, MergedBlocks
<1> QED
  BY <1>2 DEF Released, C

LEMMA FreedByPids ==
    ASSUME NEW A, BlocksOK(blocks, A), NEW owner, NEW pids, freeByPids(owner, pids)
    PROVE  BlocksOK(blocks', A)
<1>1. ProcessBlocks(blocks, owner, pids) \in SUBSET blocks
  BY DEF ProcessBlocks
<1> QED
  BY <1>1, ReleasedBlocks DEF freeByPids

LEMMA PlacedBlocks ==
    ASSUME NEW A, NEW B, BlocksOK(B, A), NEW b \in B, NEW sizeKB \in Nat,
           NEW type \in {"PROCESS", "KERNEL"}, NEW pid \in Nat, NEW owner \in A
    PROVE  BlocksOK(Placed(B, b, sizeKB, type, pid, owner), A)
<1> DEFINE new == [start |-> b.start, size |-> sizeKB, type |-> type,
                   pid |-> pid, owner |-> owner]
           rest == FreeBlock(b.start + sizeKB, b.size - sizeKB)
<1>1. b.start \in Nat
  BY DEF BlocksOK
<1>2. new \in AllocatedBlock(A) /\ new.start \in Nat
  BY <1>1 DEF AllocatedBlock
<1>3. rest.start \in Nat /\ rest.type = "FREE"
  BY <1>1, FreeBlockFacts
<1>4. \A c \in Placed(B, b, sizeKB, type, pid, owner) : c \in B \/ c = new \/ c = rest
  BY DEF Placed
<1> HIDE DEF new, rest
<1> QED
  BY <1>2, <1>3, <1>4 DEF BlocksOK

LEMMA AllocatedBlocks ==
    ASSUME NEW A, BlocksOK(blocks, A), NEW owner \in A, NEW pid \in Nat,
           NEW sizeKB \in Nat, NEW type \in {"PROCESS", "KERNEL"}, NEW start,
           allocate(owner, pid, sizeKB, type, start)
    PROVE  BlocksOK(blocks', A)
<1>1. PICK b \in blocks : blocks' = Placed(blocks, b, sizeKB, type, pid, owner)
  BY DEF allocate
<1> QED
  BY <1>1, PlacedBlocks

LEMMA CompactedStartType ==
    ASSUME NEW B, NEW addr \in Nat PROVE CompactedStart(B, addr) \in Nat
<1> DEFINE K == {k \in 0 .. addr - 1 : \E b \in Allocated(B) : k \in Cells(b)}
<1>1. IsFiniteSet(0 .. addr - 1) /\ K \subseteq 0 .. addr - 1
  BY FS_Interval
<1> HIDE DEF K
<1>2. Cardinality(K) \in Nat
  BY <1>1, FS_Subset, FS_CardinalityType
<1> QED
  BY <1>2 DEF CompactedStart, K

LEMMA CompactedBlocks ==
    ASSUME NEW A, NEW B, BlocksOK(B, A) PROVE BlocksOK(Compacted(B), A)
<1> DEFINE used == CompactedStart(B, TotalMemoryKB)
           Moved(b) == [b EXCEPT !.start = CompactedStart(B, b.start)]
<1>1. used \in Nat
  BY CompactedStartType, MemoryAssumption
<1>2. \A c \in Compacted(B) :
         \/ \E b \in Allocated(B) : c = Moved(b)
         \/ c = FreeBlock(used, TotalMemoryKB - used)
  BY DEF Compacted
<1>3. ASSUME NEW b \in Allocated(B)
      PROVE  Moved(b) \in AllocatedBlock(A) /\ Moved(b).start \in Nat
  <2>1. b \in AllocatedBlock(A) /\ b.start \in Nat
    BY DEF Allocated, BlocksOK
  <2>2. CompactedStart(B, b.start) \in Nat
    BY <2>1, CompactedStartType
  <2> QED
    BY <2>1, <2>2 DEF AllocatedBlock
<1>4. LET f == FreeBlock(used, TotalMemoryKB - used) IN f.start \in Nat /\ f.type = "FREE"
  BY <1>1, FreeBlockFacts
<1> HIDE DEF used, Moved
<1> QED
  BY <1>2, <1>3, <1>4 DEF BlocksOK

(* The addresses a compaction reports are addresses.                       *)
LEMMA NewStartTypes ==
    ASSUME NEW A, NEW B, BlocksOK(B, A)
    PROVE  \A pid \in DOMAIN pidNewStart(B) : pidNewStart(B)[pid] \in Nat
<1> DEFINE process == {b \in B : b.type = "PROCESS"}
           of(pid) == CHOOSE b \in process : b.pid = pid
<1>1. /\ DOMAIN pidNewStart(B) = {b.pid : b \in process}
      /\ \A pid \in DOMAIN pidNewStart(B) :
            pidNewStart(B)[pid] = CompactedStart(B, of(pid).start)
  BY DEF pidNewStart
<1>2. ASSUME NEW pid \in DOMAIN pidNewStart(B) PROVE of(pid).start \in Nat
  <2>1. \E b \in process : b.pid = pid
    BY <1>1
  <2>2. of(pid) \in B
    BY <2>1
  <2> QED
    BY <2>2 DEF BlocksOK
<1>3. ASSUME NEW pid \in DOMAIN pidNewStart(B) PROVE pidNewStart(B)[pid] \in Nat
  <2> HIDE DEF of
  <2>1. CompactedStart(B, of(pid).start) \in Nat
    BY <1>2, CompactedStartType
  <2> QED
    BY <1>1, <2>1
<1> QED
  BY <1>3

-----------------------------------------------------------------------------
(* Blocks and their processes.                                             *)

LEMMA BlockForFacts ==
    ASSUME NEW p, NEW r
    PROVE  /\ BlockFor(p, r).type = "PROCESS" /\ BlockFor(p, r).pid = p
           /\ BlockFor(p, r).owner = r.owner /\ BlockFor(p, r).start = r.memStart
           /\ BlockFor(p, r).size = r.memSize
           /\ \A u : KeepsMemory(r, u) => BlockFor(p, u) = BlockFor(p, r)
BY DEF BlockFor, KeepsMemory

(* Memory nobody uses yet.                                                 *)
LEMMA CleanMemory ==
    ASSUME NEW P, DOMAIN P = {} PROVE MemoryOK(P, {FreeBlock(0, TotalMemoryKB)})
<1> DEFINE f == FreeBlock(0, TotalMemoryKB)
<1>1. /\ f \in MemoryBlock /\ f.start = 0 /\ EndOf(f) = TotalMemoryKB
      /\ f.pid = 0 /\ f.owner = NoUser /\ f.type = "FREE"
      /\ 0 < TotalMemoryKB /\ TotalMemoryKB \in Nat
  BY MemoryAssumption DEF FreeBlock, MemoryBlock, EndOf
<1> HIDE DEF f
<1>2. Valid({f})
  BY <1>1, BlocksValid
<1>3. Coalesced({f})
  BY <1>1 DEF Coalesced, FreeBlocks
<1> QED
  BY <1>1, <1>2, <1>3 DEF MemoryOK, BlocksMatch, f

(* Memory that changes elsewhere only.                                     *)
LEMMA OtherMemory ==
    ASSUME NEW P, NEW B, MemoryOK(P, B), NEW C, Valid(C), Coalesced(C),
           \A b : b.type = "PROCESS" => (b \in C <=> b \in B)
    PROVE  MemoryOK(P, C)
BY BlockForFacts DEF MemoryOK, BlocksMatch

LEMMA SameMemory ==
    ASSUME NEW P, NEW B, MemoryOK(P, B), NEW U, DOMAIN U = DOMAIN P,
           \A p \in DOMAIN P : KeepsMemory(P[p], U[p])
    PROVE  MemoryOK(U, B)
<1>1. \A p \in DOMAIN P : /\ BlockFor(p, U[p]) = BlockFor(p, P[p])
                          /\ U[p].swappedOut = P[p].swappedOut
  BY BlockForFacts DEF KeepsMemory
<1> QED
  BY <1>1 DEF MemoryOK, BlocksMatch

LEMMA ManualMemory ==
    ASSUME NEW P, MemoryOK(P, blocks), NEW owner \in Users, NEW sizeKB \in Nat,
           NEW start, allocateManual(owner, sizeKB, start)
    PROVE  MemoryOK(P, blocks') /\ algorithm' = algorithm
<1>1. PICK b \in FreeBlocks(blocks) :
         b.size >= sizeKB /\ blocks' = Placed(blocks, b, sizeKB, "KERNEL", 0, owner)
  BY DEF allocateManual, allocate, findFreeBlock, LargeEnough
<1>2. sizeKB > 0 /\ sizeKB <= b.size
  BY <1>1 DEF allocateManual, allocate, MemoryOK, Valid, MemoryBlock, FreeBlocks
<1>3. Valid(blocks') /\ Coalesced(blocks')
  BY <1>1, <1>2, PlacedValid DEF MemoryOK
<1> DEFINE new == [start |-> b.start, size |-> sizeKB, type |-> "KERNEL",
                   pid |-> 0, owner |-> owner]
<1>4. Allocated(blocks') = Allocated(blocks) \cup {new} /\ new.type = "KERNEL"
  BY <1>1, PlacedAllocated
<1> HIDE DEF new
<1>5. \A c : c.type = "PROCESS" => (c \in blocks' <=> c \in blocks)
  BY <1>4 DEF Allocated
<1>6. algorithm' = algorithm
  BY DEF allocateManual, allocate
<1> QED
  BY <1>3, <1>5, <1>6, OtherMemory

(* What is released of the processes that go, or are swapped out, is       *)
(* exactly what they had.                                                  *)
LEMMA ReleasedMemory ==
    ASSUME NEW P, NEW B, MemoryOK(P, B), NEW U, DOMAIN U \subseteq DOMAIN P,
           NEW owner, NEW gone, \A p \in gone : p \in DOMAIN P /\ P[p].owner = owner,
           \A p \in DOMAIN P : p \notin gone => p \in DOMAIN U /\ KeepsMemory(P[p], U[p]),
           \A p \in gone : p \notin DOMAIN U \/ U[p].swappedOut
    PROVE  MemoryOK(U, Released(B, ProcessBlocks(B, owner, gone)))
<1> DEFINE R == ProcessBlocks(B, owner, gone)
           C == Released(B, R)
<1>1. R \in SUBSET B /\ \A b \in B : b \in R <=> /\ b.type = "PROCESS"
                                                /\ b.owner = owner /\ b.pid \in gone
  BY DEF ProcessBlocks
<1> HIDE DEF R
<1>2. Valid(C) /\ Coalesced(C)
  BY <1>1, ReleasedValid DEF MemoryOK
<1>3. \A b : b.type = "PROCESS" => (b \in C <=> b \in B /\ b \notin R)
  <2>1. Allocated(C) = Allocated(B) \ R
    BY <1>1, ReleasedAllocated
  <2> QED
    BY <2>1 DEF Allocated
<1> HIDE DEF C
<1>4. /\ \A p \in DOMAIN P : ~P[p].swappedOut => BlockFor(p, P[p]) \in B
      /\ \A b \in B : b.type = "PROCESS" =>
            b.pid \in DOMAIN P /\ ~P[b.pid].swappedOut /\ b = BlockFor(b.pid, P[b.pid])
  BY DEF MemoryOK, BlocksMatch
<1>5. ASSUME NEW p \in DOMAIN U, ~U[p].swappedOut PROVE BlockFor(p, U[p]) \in C
  <2>1. p \in DOMAIN P /\ p \notin gone
    BY <1>5
  <2>2. KeepsMemory(P[p], U[p]) /\ ~P[p].swappedOut
    BY <1>5, <2>1 DEF KeepsMemory
  <2>3. BlockFor(p, U[p]) \in B /\ BlockFor(p, U[p]).type = "PROCESS"
        /\ BlockFor(p, U[p]).pid = p
    BY <1>4, <2>1, <2>2, BlockForFacts
  <2> QED
    BY <1>1, <1>3, <2>1, <2>3
<1>6. ASSUME NEW b \in C, b.type = "PROCESS"
      PROVE  b.pid \in DOMAIN U /\ ~U[b.pid].swappedOut /\ b = BlockFor(b.pid, U[b.pid])
  <2>1. b \in B /\ b \notin R
    BY <1>3, <1>6
  <2>2. b.pid \in DOMAIN P /\ ~P[b.pid].swappedOut /\ b = BlockFor(b.pid, P[b.pid])
    BY <1>4, <1>6, <2>1
  <2>3. b.pid \notin gone
    <3>1. b.owner = P[b.pid].owner
      BY <2>2, BlockForFacts
    <3> QED
      BY <1>1, <1>6, <2>1, <3>1
  <2>4. b.pid \in DOMAIN U /\ KeepsMemory(P[b.pid], U[b.pid])
    BY <2>2, <2>3
  <2> QED
    BY <2>2, <2>4, BlockForFacts DEF KeepsMemory
<1> QED
  BY <1>2, <1>5, <1>6 DEF MemoryOK, BlocksMatch, C, R

(* A new process comes with the block that was placed for it.              *)
LEMMA PlacedMemory ==
    ASSUME NEW P, NEW B, MemoryOK(P, B), NEW n \in Nat, n \notin DOMAIN P,
           NEW U, DOMAIN U = DOMAIN P \cup {n},
           \A p \in DOMAIN P : KeepsMemory(P[p], U[p]),
           NEW owner \in Users, NEW sizeKB \in Nat, sizeKB > 0,
           NEW b \in FreeBlocks(B), sizeKB <= b.size,
           U[n].owner = owner, U[n].swappedOut = FALSE,
           U[n].memStart = b.start, U[n].memSize = sizeKB
    PROVE  MemoryOK(U, Placed(B, b, sizeKB, "PROCESS", n, owner))
<1> DEFINE C == Placed(B, b, sizeKB, "PROCESS", n, owner)
           new == BlockFor(n, U[n])
<1>1. Valid(C) /\ Coalesced(C)
  BY PlacedValid DEF MemoryOK
<1>2. new.type = "PROCESS" /\ new.pid = n
  BY BlockForFacts
<1>3. \A c : c.type = "PROCESS" => (c \in C <=> c \in B \/ c = new)
  <2>1. Allocated(C) = Allocated(B) \cup {new}
    BY PlacedAllocated DEF BlockFor
  <2> HIDE DEF new, C
  <2> QED
    BY <1>2, <2>1 DEF Allocated
<1> HIDE DEF C
<1>4. /\ \A p \in DOMAIN P : ~P[p].swappedOut => BlockFor(p, P[p]) \in B
      /\ \A c \in B : c.type = "PROCESS" =>
            c.pid \in DOMAIN P /\ ~P[c.pid].swappedOut /\ c = BlockFor(c.pid, P[c.pid])
  BY DEF MemoryOK, BlocksMatch
<1>5. \A p \in DOMAIN P : /\ BlockFor(p, U[p]) = BlockFor(p, P[p])
                          /\ U[p].swappedOut = P[p].swappedOut
  BY BlockForFacts DEF KeepsMemory
<1>6. ASSUME NEW p \in DOMAIN U, ~U[p].swappedOut PROVE BlockFor(p, U[p]) \in C
  <2>1. CASE p = n
    BY <1>2, <1>3, <2>1
  <2>2. CASE p # n
    BY <1>3, <1>4, <1>5, <1>6, <2>2, BlockForFacts
  <2> QED
    BY <2>1, <2>2
<1>7. ASSUME NEW c \in C, c.type = "PROCESS"
      PROVE  c.pid \in DOMAIN U /\ ~U[c.pid].swappedOut /\ c = BlockFor(c.pid, U[c.pid])
  <2>1. CASE c = new
    BY <1>2, <2>1
  <2>2. CASE c # new
    BY <1>3, <1>4, <1>5, <1>7, <2>2
  <2> QED
    BY <2>1, <2>2
<1> QED
  BY <1>1, <1>6, <1>7 DEF MemoryOK, BlocksMatch, C

(* A compaction tells each process the new address of its own block.       *)
LEMMA CompactedMemory ==
    ASSUME NEW P, NEW B, MemoryOK(P, B), NEW U, DOMAIN U = DOMAIN P,
           \A p \in DOMAIN P :
              /\ U[p].owner = P[p].owner /\ U[p].swappedOut = P[p].swappedOut
              /\ U[p].memSize = P[p].memSize
              /\ U[p].memStart = IF p \in DOMAIN pidNewStart(B) THEN pidNewStart(B)[p]
                                                                 ELSE P[p].memStart
    PROVE  MemoryOK(U, Compacted(B))
<1> DEFINE process == {b \in B : b.type = "PROCESS"}
           of(pid) == CHOOSE b \in process : b.pid = pid
           Moved(b) == [b EXCEPT !.start = CompactedStart(B, b.start)]
           C == Compacted(B)
<1>1. Valid(C) /\ Coalesced(C)
  BY CompactedValid DEF MemoryOK
<1>2. /\ \A p \in DOMAIN P : ~P[p].swappedOut => BlockFor(p, P[p]) \in B
      /\ \A b \in B : b.type = "PROCESS" =>
            b.pid \in DOMAIN P /\ ~P[b.pid].swappedOut /\ b = BlockFor(b.pid, P[b.pid])
  BY DEF MemoryOK, BlocksMatch
<1>3. /\ DOMAIN pidNewStart(B) = {b.pid : b \in process}
      /\ \A pid \in DOMAIN pidNewStart(B) :
            pidNewStart(B)[pid] = CompactedStart(B, of(pid).start)
  BY DEF pidNewStart
<1>4. ASSUME NEW b \in process
      PROVE  /\ b.pid \in DOMAIN P /\ ~P[b.pid].swappedOut
             /\ b = BlockFor(b.pid, P[b.pid])
             /\ Moved(b) = BlockFor(b.pid, U[b.pid])
  <2>1. /\ b.pid \in DOMAIN P /\ ~P[b.pid].swappedOut
        /\ b = BlockFor(b.pid, P[b.pid])
    BY <1>2
  <2>2. of(b.pid) \in process /\ of(b.pid).pid = b.pid
    <3>1. \E c \in process : c.pid = b.pid
      OBVIOUS
    <3> QED
      BY <3>1
  <2>3. of(b.pid) = b
    BY <1>2, <2>1, <2>2
  <2>4. U[b.pid].memStart = CompactedStart(B, b.start)
    BY <1>3, <2>1, <2>3
  <2>5. /\ U[b.pid].owner = P[b.pid].owner
        /\ U[b.pid].memSize = P[b.pid].memSize
    BY <2>1
  <2>6. BlockFor(b.pid, U[b.pid]) = [BlockFor(b.pid, P[b.pid]) EXCEPT
                                        !.start = CompactedStart(B, b.start)]
    BY <2>4, <2>5 DEF BlockFor
  <2> QED
    BY <2>1, <2>6
<1>5. \A c : c \in Allocated(C) <=> \E b \in Allocated(B) : c = Moved(b)
  BY CompactedAllocated DEF MemoryOK
<1>6. \A b \in Allocated(B) : Moved(b).type = b.type
  BY DEF MemoryOK, Valid, Allocated, MemoryBlock
<1> HIDE DEF of, Moved, C
<1>7. ASSUME NEW p \in DOMAIN U, ~U[p].swappedOut PROVE BlockFor(p, U[p]) \in C
  <2>1. BlockFor(p, P[p]) \in process /\ BlockFor(p, P[p]).pid = p
    BY <1>2, <1>7, BlockForFacts
  <2>2. BlockFor(p, U[p]) = Moved(BlockFor(p, P[p]))
    BY <1>4, <2>1
  <2>3. BlockFor(p, P[p]) \in Allocated(B)
    BY <2>1 DEF Allocated
  <2>4. BlockFor(p, U[p]) \in Allocated(C)
    BY <1>5, <2>2, <2>3
  <2> QED
    BY <2>4 DEF Allocated
<1>8. ASSUME NEW c \in C, c.type = "PROCESS"
      PROVE  c.pid \in DOMAIN U /\ ~U[c.pid].swappedOut /\ c = BlockFor(c.pid, U[c.pid])
  <2>1. PICK b \in Allocated(B) : c = Moved(b)
    BY <1>5, <1>8 DEF Allocated
  <2>2. b \in process
    BY <1>6, <1>8, <2>1 DEF Allocated
  <2>3. /\ b.pid \in DOMAIN P /\ ~P[b.pid].swappedOut /\ c = BlockFor(b.pid, U[b.pid])
    BY <1>4, <2>1, <2>2
  <2>4. c.pid = b.pid
    BY <2>3, BlockForFacts
  <2> QED
    BY <2>3, <2>4
<1> QED
  BY <1>1, <1>7, <1>8 DEF MemoryOK, BlocksMatch, C

-----------------------------------------------------------------------------
(* Files.                                                                  *)

LEMMA FileCommand ==
    ASSUME NEW A, FilesOK(files, nextFileId, A), NEW owner \in A,
           NEW name \in FileNames,
           \/ createFile(owner, name)
           \/ \E content \in Contents : writeFile(owner, name, content)
           \/ deleteFile(owner, name)
    PROVE  FilesOK(files', nextFileId', A)
<1> DEFINE File == [fileId : Nat, owner : A, name : FileNames, content : Contents]
<1>1. /\ nextFileId \in Nat \ {0}
      /\ \A f \in files : f \in File /\ f.fileId < nextFileId
      /\ \A f, g \in files :
            (f.owner = g.owner /\ f.name = g.name) \/ f.fileId = g.fileId => f = g
  BY DEF FilesOK
<1>2. ASSUME NEW content \in Contents, newFile(owner, name, content)
      PROVE  FilesOK(files', nextFileId', A)
  <2> DEFINE new == [fileId |-> nextFileId, owner |-> owner,
                     name |-> name, content |-> content]
  <2>1. /\ files' = files \cup {new} /\ nextFileId' = nextFileId + 1
        /\ \A f \in files : ~(f.owner = owner /\ f.name = name)
    BY <1>2 DEF newFile, Found
  <2>2. /\ new \in File /\ new.fileId = nextFileId
        /\ new.owner = owner /\ new.name = name
    BY <1>1
  <2> HIDE DEF new
  <2>3. \A f \in files' : f \in File /\ f.fileId < nextFileId'
    BY <1>1, <2>1, <2>2
  <2>4. \A f, g \in files' :
           (f.owner = g.owner /\ f.name = g.name) \/ f.fileId = g.fileId => f = g
    BY <1>1, <2>1, <2>2
  <2> QED
    BY <1>1, <2>1, <2>3, <2>4 DEF FilesOK
<1>3. ASSUME NEW content \in Contents, NEW f \in files,
             files' = (files \ {f}) \cup {[f EXCEPT !.content = content]},
             nextFileId' = nextFileId
      PROVE  FilesOK(files', nextFileId', A)
  <2> DEFINE new == [f EXCEPT !.content = content]
  <2>1. /\ new \in File /\ new.fileId = f.fileId
        /\ new.owner = f.owner /\ new.name = f.name
    BY <1>1
  <2>2. files' = (files \ {f}) \cup {new}
    BY <1>3
  <2> HIDE DEF new
  <2> QED
    BY <1>1, <1>3, <2>1, <2>2 DEF FilesOK
<1>4. ASSUME NEW f \in files, files' = files \ {f}, nextFileId' = nextFileId
      PROVE  FilesOK(files', nextFileId', A)
  BY <1>1, <1>4 DEF FilesOK
<1>5. CASE createFile(owner, name)
  BY <1>2, <1>5, VfsAssumption DEF createFile
<1>6. ASSUME NEW content \in Contents, writeFile(owner, name, content)
      PROVE  FilesOK(files', nextFileId', A)
  BY <1>2, <1>3, <1>6 DEF writeFile, Found
<1>7. CASE deleteFile(owner, name)
  BY <1>4, <1>7 DEF deleteFile, Found
<1> QED
  BY <1>5, <1>6, <1>7

-----------------------------------------------------------------------------
(* Loading.                                                                *)

(* The repairs of importPcbs and validateReadyQueues find nothing to       *)
(* repair in a table that is in order.                                     *)
LEMMA NothingToRebuild ==
    ASSUME NEW P, NEW n, PcbsOK(P, n), TreeOK(P) PROVE RebuiltChildren(P) = P
<1>1. P = [p \in DOMAIN P |-> P[p]]
  BY DEF PcbsOK
<1>2. ASSUME NEW p \in DOMAIN P
      PROVE  [P[p] EXCEPT !.children =
                {c \in DOMAIN P : P[c].ppid = p /\ p # 0 /\ P[c].owner = P[p].owner}] = P[p]
  <2>1. /\ P[p] \in PCB /\ p # 0
    BY DEF PcbsOK, PcbOK
  <2>2. \A c \in P[p].children : c \in DOMAIN P /\ P[c].ppid = p /\ P[c].owner = P[p].owner
    BY <2>1 DEF TreeOK
  <2>3. \A c \in DOMAIN P : P[c].ppid = p => c \in P[p].children
    BY <2>1 DEF TreeOK
  <2>4. {c \in DOMAIN P : P[c].ppid = p /\ p # 0 /\ P[c].owner = P[p].owner}
            = P[p].children
    BY <2>1, <2>2, <2>3
  <2>5. [P[p] EXCEPT !.children = P[p].children] = P[p]
    BY <2>1 DEF PCB
  <2> QED
    BY <2>4, <2>5
<1> QED
  BY <1>1, <1>2 DEF RebuiltChildren

LEMMA NothingToValidate ==
    ASSUME NEW P, NEW n, PcbsOK(P, n), NEW Q, QueuesOK(P, Q), NEW l \in Levels
    PROVE  ValidatedQueue(P, Q[l], l) = Q[l]
<1> DEFINE q == Q[l]
<1>1. q \in Seq(Nat) /\ IsInjective(q) /\ Range(q) = ReadyAt(P, l)
  BY DEF QueuesOK, GoodQueues
<1>2. ASSUME NEW i \in DOMAIN q
      PROVE  /\ Schedulable(P, q[i]) /\ P[q[i]].queueLevel = l
             /\ \A j \in DOMAIN q : q[j] = q[i] => i <= j
  <2>1. q[i] \in ReadyAt(P, l)
    BY <1>1 DEF Range
  <2>2. PcbOK(P[q[i]])
    BY <2>1 DEF ReadyAt, PcbsOK
  <2>3. i \in Nat
    BY <1>1
  <2>4. \A j \in DOMAIN q : q[j] = q[i] => j = i
    BY <1>1 DEF IsInjective
  <2> QED
    BY <2>1, <2>2, <2>3, <2>4 DEF ReadyAt, Schedulable, PcbOK, PCB
<1>3. {i \in DOMAIN q : /\ Schedulable(P, q[i])
                        /\ P[q[i]].queueLevel = l
                        /\ \A j \in DOMAIN q : q[j] = q[i] => i <= j} = DOMAIN q
  BY <1>2
<1> HIDE DEF q
<1>4. ValidatedQueue(P, q, l) = KeepAt(q, DOMAIN q)
  BY <1>3 DEF ValidatedQueue
<1>5. KeepAt(q, DOMAIN q) = q
  BY <1>1, KeepAll
<1> QED
  BY <1>4, <1>5 DEF q

LEMMA ImportedTable ==
    ASSUME NEW P, NEW Q, NEW n, TableOK(P, Q, n), importProcesses(P, Q, n)
    PROVE  pcbTable' = P /\ readyQueues' = Q /\ nextPid' = n /\ PMInv'
<1>1. pcbTable' = P
  BY NothingToRebuild DEF importProcesses, TableOK
<1>2. nextPid' = n
  BY DEF importProcesses, TableOK, PcbsOK
<1>3. Q \in [Levels -> Seq(Nat)]
  BY DEF TableOK, QueuesOK, GoodQueues
<1>4. \A l \in Levels : ValidatedQueue(P, Q[l], l) = Q[l]
  BY NothingToValidate DEF TableOK
<1>5. readyQueues' = [l \in Levels |-> Q[l]]
  BY <1>4 DEF importProcesses
<1>6. readyQueues' = Q
  BY <1>3, <1>5
<1> QED
  BY <1>1, <1>2, <1>6, InvIsTableOKNext

-----------------------------------------------------------------------------
(* Every action of the kernel.                                             *)

LEMMA InitIsRight == KernelInit => KernelInv
<1> SUFFICES ASSUME KernelInit PROVE KernelInv
  OBVIOUS
<1>1. PMInv
  BY InitEstablishes DEF KernelInit
<1>2. AccountsOK(users) /\ SessionOK /\ SchedulerServesSession
  BY DEF KernelInit, UMInit, AccountsOK, SessionOK, isLoggedIn, SchedulerServesSession
<1>3. PcbOwners(pcbTable, DOMAIN users)
  BY DEF KernelInit, PMInit, PcbOwners
<1>4. BlocksOK(blocks, DOMAIN users)
  BY FreeBlockFacts DEF KernelInit, MMInit, BlocksOK
<1>5. FilesOK(files, nextFileId, DOMAIN users) /\ DiskOK
  BY DEF KernelInit, VfsInit, FilesOK, DiskOK
<1>6. MemoryOK(pcbTable, blocks) /\ algorithm \in AllocAlgorithm
  <2>1. blocks = {FreeBlock(0, TotalMemoryKB)} /\ DOMAIN pcbTable = {}
        /\ algorithm \in AllocAlgorithm
    BY DEF KernelInit, PMInit, MMInit, AllocAlgorithm
  <2>2. \A p \in DOMAIN pcbTable : FALSE
    BY <2>1
  <2> QED
    BY <2>1, <2>2, CleanMemory
<1> QED
  BY <1>1, <1>2, <1>3, <1>4, <1>5, <1>6 DEF KernelInv

LEMMA AccountStep ==
    ASSUME KernelInv, Register \/ LoginRejected \/ Login \/ Logout PROVE KernelInv'
<1> USE DEF KernelInv
<1>1. UNCHANGED pmVars /\ UNCHANGED mmVars /\ UNCHANGED vfsVars /\ UNCHANGED diskVars
  BY DEF Register, LoginRejected, Login, Logout
<1>2. PMInv' /\ DiskOK'
  BY <1>1, TableStays, DiskStays
<1>3. AccountsOK(users') /\ DOMAIN users \subseteq DOMAIN users'
      /\ SessionOK' /\ SchedulerServesSession'
  <2> USE DEF AccountsOK, SessionOK, SchedulerServesSession, isLoggedIn
  <2>1. ASSUME NEW u \in Users, registerUser(u), UNCHANGED schedVars
        PROVE  AccountsOK(users') /\ DOMAIN users \subseteq DOMAIN users'
               /\ SessionOK' /\ SchedulerServesSession'
    BY <2>1 DEF registerUser, UserAccount, schedVars
  <2>2. ASSUME NEW u \in Users, loginRejected(u), UNCHANGED schedVars
        PROVE  AccountsOK(users') /\ DOMAIN users \subseteq DOMAIN users'
               /\ SessionOK' /\ SchedulerServesSession'
    <3> DEFINE failed == users[u].failedAttempts + 1
               r == [users[u] EXCEPT !.failedAttempts = failed,
                                     !.status = IF failed >= 3 THEN "LOCKED" ELSE @]
    <3>1. /\ u \in DOMAIN users /\ users[u].status # "LOCKED" /\ ~isLoggedIn
          /\ users' = [users EXCEPT ![u] = r]
          /\ currentUser' = currentUser
      BY <2>2 DEF loginRejected, MayTryLogin
    <3>2. /\ users[u] \in UserAccount
          /\ users[u].status = "NORMAL" /\ failed \in Nat
      BY <3>1 DEF UserAccount
    <3> DEFINE status == IF failed >= 3 THEN "LOCKED" ELSE "NORMAL"
    <3>3. r = [users[u] EXCEPT !.failedAttempts = failed, !.status = status]
      BY <3>2
    <3>4. /\ status \in {"NORMAL", "LOCKED"}
          /\ status = "LOCKED" <=> failed >= 3
      BY <3>2
    <3> HIDE DEF r, failed, status
    <3>5. /\ r \in UserAccount
          /\ r.status = "LOCKED" <=> r.failedAttempts >= 3
      BY <3>2, <3>3, <3>4 DEF UserAccount
    <3> QED
      BY <2>2, <3>1, <3>5 DEF schedVars
  <2>3. ASSUME NEW u \in Users, login(u), UNCHANGED schedVars
        PROVE  AccountsOK(users') /\ DOMAIN users \subseteq DOMAIN users'
               /\ SessionOK' /\ SchedulerServesSession'
    <3> DEFINE r == [users[u] EXCEPT !.failedAttempts = 0]
    <3>1. /\ u \in DOMAIN users /\ users[u].status # "LOCKED" /\ ~isLoggedIn
          /\ users' = [users EXCEPT ![u] = r]
          /\ currentUser' = u
      BY <2>3 DEF login, MayTryLogin
    <3>2. users[u] \in UserAccount
      BY <3>1
    <3>3. r \in UserAccount /\ r.failedAttempts = 0 /\ r.status # "LOCKED"
      BY <3>1, <3>2 DEF UserAccount
    <3> HIDE DEF r
    <3> QED
      BY <2>3, <3>1, <3>3 DEF schedVars
  <2>4. ASSUME Logout
        PROVE  AccountsOK(users') /\ DOMAIN users \subseteq DOMAIN users'
               /\ SessionOK' /\ SchedulerServesSession'
    BY <2>4 DEF Logout, logout, StopScheduler
  <2> QED
    BY <2>1, <2>2, <2>3, <2>4 DEF Register, LoginRejected, Login
<1>4. PcbOwners(pcbTable', DOMAIN users')
  BY <1>1, <1>3 DEF PcbOwners, pmVars
<1>5. BlocksOK(blocks', DOMAIN users')
  BY <1>1, <1>3 DEF BlocksOK, mmVars, AllocatedBlock
<1>6. FilesOK(files', nextFileId', DOMAIN users')
  BY <1>1, <1>3 DEF FilesOK, vfsVars
<1>7. MemoryOK(pcbTable', blocks') /\ algorithm' \in AllocAlgorithm
  BY <1>1 DEF pmVars, mmVars
<1> QED
  BY <1>2, <1>3, <1>4, <1>5, <1>6, <1>7

(* The session is the one thing the other requests have in common.         *)
LEMMA RequestStep ==
    ASSUME KernelInv, UNCHANGED <<umVars, diskVars>>,
           PMInv', PcbOwners(pcbTable', DOMAIN users), BlocksOK(blocks', DOMAIN users),
           MemoryOK(pcbTable', blocks'), algorithm' \in AllocAlgorithm,
           FilesOK(files', nextFileId', DOMAIN users), SchedulerServesSession'
    PROVE  KernelInv'
<1>1. users' = users /\ currentUser' = currentUser /\ UNCHANGED diskVars
  BY DEF umVars
<1>2. DiskOK'
  BY <1>1, DiskStays DEF KernelInv
<1>3. SessionOK' /\ AccountsOK(users')
  BY <1>1 DEF KernelInv, SessionOK, isLoggedIn
<1> QED
  BY <1>1, <1>2, <1>3 DEF KernelInv

(* A creation that is rolled back placed its block for a PID without one.  *)
LEMMA RollbackKeeps == ASSUME KernelInv, CreatePcbRollback PROVE blocks' = blocks
<1> USE DEF KernelInv
<1>1. PICK memKB \in Sizes, b \in blocks :
        /\ memKB > 0 /\ findFreeBlock(blocks, algorithm, memKB, b)
        /\ LET B == Placed(blocks, b, memKB, "PROCESS", nextPid, currentUser)
           IN  blocks' = Released(B, ProcessBlocks(B, currentUser, {nextPid}))
  BY DEF CreatePcbRollback
<1>2. memKB \in Nat /\ nextPid \in Nat
  BY KernelAssumption DEF PMInv, PMTypeOK
<1>3. currentUser \in Users
  BY DEF CreatePcbRollback, SessionOK, AccountsOK
<1>4. b \in FreeBlocks(blocks) /\ memKB <= b.size
  BY <1>1, <1>2 DEF findFreeBlock, LargeEnough, FreeBlocks, MemoryOK, Valid, MemoryBlock
<1>5. \A c \in blocks : c.type = "PROCESS" => c.pid # nextPid
  <2>1. nextPid \notin DOMAIN pcbTable
    BY DEF PMInv, PMTypeOK, PidsBelowNext, Pids
  <2> QED
    BY <2>1 DEF MemoryOK, BlocksMatch
<1>6. Valid(blocks) /\ Coalesced(blocks)
  BY DEF MemoryOK
<1> QED
  BY <1>1, <1>2, <1>3, <1>4, <1>5, <1>6, PlacedReleased

LEMMA ServedMemory ==
    ASSUME NEW owner, MemoryOK(pcbTable, blocks), ServesOnly(owner),
           freeByPids(owner, Pids \ Pids')
    PROVE  MemoryOK(pcbTable', blocks')
<1> DEFINE gone == Pids \ Pids'
<1>1. /\ DOMAIN pcbTable' \subseteq DOMAIN pcbTable
      /\ \A p \in gone : p \in DOMAIN pcbTable /\ pcbTable[p].owner = owner
      /\ \A p \in DOMAIN pcbTable : p \notin gone =>
            p \in DOMAIN pcbTable' /\ KeepsMemory(pcbTable[p], pcbTable'[p])
      /\ \A p \in gone : p \notin DOMAIN pcbTable' \/ pcbTable'[p].swappedOut
  BY DEF ServesOnly, Pids
<1>2. blocks' = Released(blocks, ProcessBlocks(blocks, owner, gone))
  BY DEF freeByPids
<1> HIDE DEF gone
<1> QED
  BY <1>1, <1>2, ReleasedMemory

LEMMA ProcessStep ==
    ASSUME KernelInv,
           \/ CreatePcb \/ CreatePcbRollback \/ KillPcb \/ ProcessCommand \/ SwapOut
    PROVE  KernelInv'
<1> USE DEF KernelInv
<1>1. isLoggedIn /\ UNCHANGED <<umVars, vfsVars, schedVars, diskVars>>
  BY DEF CreatePcb, CreatePcbRollback, KillPcb, ProcessCommand, SwapOut, mmVars
<1>2. currentUser \in DOMAIN users /\ currentUser \in Users
  BY <1>1 DEF SessionOK, AccountsOK
<1>3. FilesOK(files', nextFileId', DOMAIN users) /\ SchedulerServesSession'
  BY <1>1 DEF vfsVars, SchedulerServesSession, schedVars, umVars, isLoggedIn
<1>4. ASSUME PMInv', PcbOwners(pcbTable', DOMAIN users), BlocksOK(blocks', DOMAIN users),
             MemoryOK(pcbTable', blocks'), algorithm' = algorithm
      PROVE  KernelInv'
  BY <1>1, <1>3, <1>4, RequestStep
<1>5. CASE CreatePcb
  <2>1. PICK memKB \in Sizes, priority \in Priorities, totalTime \in TotalTimes,
             ppid \in Pids \cup {0}, start \in Starts :
          /\ allocateForProcess(currentUser, nextPid, memKB, start)
          /\ createProcess(currentUser, memKB, start, priority, totalTime, ppid)
    BY <1>5 DEF CreatePcb
  <2>2. memKB \in Nat /\ totalTime \in Nat /\ nextPid \in Nat
    BY KernelAssumption DEF PMInv, PMTypeOK
  <2>3. start \in Nat
    BY DEF Starts, BlocksOK
  <2>4. BlocksOK(blocks', DOMAIN users)
    BY <1>2, <2>1, <2>2, AllocatedBlocks DEF allocateForProcess
  <2>5. PcbOwners(pcbTable', DOMAIN users)
    BY <1>2, <2>1, CreateOwners
  <2>6. PMInv'
    BY <1>2, <2>1, <2>2, <2>3, CreatePreserves
  <2>7. MemoryOK(pcbTable', blocks')
    <3>1. /\ nextPid \notin DOMAIN pcbTable
          /\ DOMAIN pcbTable' = DOMAIN pcbTable \cup {nextPid}
          /\ \A p \in DOMAIN pcbTable : KeepsMemory(pcbTable[p], pcbTable'[p])
          /\ pcbTable'[nextPid].owner = currentUser
          /\ pcbTable'[nextPid].swappedOut = FALSE
          /\ pcbTable'[nextPid].memStart = start
          /\ pcbTable'[nextPid].memSize = memKB
      BY <2>1, CreateEffect DEF Pids
    <3>2. memKB > 0
      BY <2>1 DEF createProcess
    <3>3. PICK b \in FreeBlocks(blocks) :
             /\ b.size >= memKB /\ b.start = start
             /\ blocks' = Placed(blocks, b, memKB, "PROCESS", nextPid, currentUser)
      BY <2>1 DEF allocateForProcess, allocate, findFreeBlock, LargeEnough
    <3>4. memKB <= b.size
      BY <2>2, <3>3 DEF MemoryOK, Valid, MemoryBlock, FreeBlocks
    <3> QED
      BY <1>2, <2>2, <3>1, <3>2, <3>3, <3>4, PlacedMemory
  <2> QED
    BY <1>4, <2>1, <2>4, <2>5, <2>6, <2>7 DEF allocateForProcess, allocate
<1>6. CASE CreatePcbRollback
  <2>1. PMInv' /\ pcbTable' = pcbTable /\ algorithm' = algorithm
    BY <1>6, TableStays DEF CreatePcbRollback, pmVars
  <2>2. blocks' = blocks
    BY <1>6, RollbackKeeps
  <2> QED
    BY <1>4, <2>1, <2>2
<1>7. CASE KillPcb
  <2>1. PICK pid \in Pids : killProcess(currentUser, pid)
    BY <1>7 DEF KillPcb
  <2>2. PMInv' /\ ServesOnly(currentUser)
    BY <2>1, KillPreserves, KillEffect, RemovalServes
  <2>3. freeByPids(currentUser, Pids \ Pids')
    BY <1>7 DEF KillPcb
  <2>4. MemoryOK(pcbTable', blocks') /\ algorithm' = algorithm
    BY <2>2, <2>3, ServedMemory DEF freeByPids
  <2>5. BlocksOK(blocks', DOMAIN users)
    BY <2>3, FreedByPids
  <2> QED
    BY <1>4, <2>2, <2>4, <2>5, ServedOwners
<1>8. CASE ProcessCommand
  <2>1. blocks' = blocks /\ algorithm' = algorithm
    BY <1>8 DEF ProcessCommand, mmVars
  <2>2. PICK pid \in Pids :
          \/ blockProcess(currentUser, pid) \/ wakeupProcess(currentUser, pid)
          \/ suspendProcess(currentUser, pid) \/ resumeProcess(currentUser, pid)
          \/ \E newPriority \in Priorities : reniceProcess(currentUser, pid, newPriority)
    BY <1>8 DEF ProcessCommand
  <2>3. PMInv'
    BY <2>2, StateChangePreserves, RenicePreserves
  <2>4. ServesOnly(currentUser) /\ Pids' = Pids
    BY <2>2, CommandServes
  <2>5. MemoryOK(pcbTable', blocks')
    BY <2>1, <2>4, SameMemory DEF ServesOnly, Pids
  <2> QED
    BY <1>4, <2>1, <2>3, <2>4, <2>5, ServedOwners
<1>9. CASE SwapOut
  <2>1. PICK pid \in Pids :
          swapOutProcess(currentUser, pid) /\ markSwappedOut(currentUser, pid)
    BY <1>9 DEF SwapOut
  <2>2. PMInv'
    BY <2>1, SwapOutPreserves
  <2>3. PICK r : /\ Replaces(currentUser, pid, r)
                 /\ r.owner = currentUser /\ r.swappedOut = TRUE
    BY <2>1, SwapOutEffect
  <2>4. blocks' = Released(blocks, ProcessBlocks(blocks, currentUser, {pid}))
        /\ algorithm' = algorithm
    BY <2>1 DEF swapOutProcess
  <2>5. PcbOwners(pcbTable', DOMAIN users)
    BY <1>2, <2>3 DEF Replaces, PcbOwners, Pids
  <2>6. ProcessBlocks(blocks, currentUser, {pid}) \in SUBSET blocks
    BY DEF ProcessBlocks
  <2>7. BlocksOK(blocks', DOMAIN users)
    BY <2>4, <2>6, ReleasedBlocks
  <2>8. MemoryOK(pcbTable', blocks')
    <3>1. /\ DOMAIN pcbTable' \subseteq DOMAIN pcbTable
          /\ \A p \in {pid} : p \in DOMAIN pcbTable /\ pcbTable[p].owner = currentUser
          /\ \A p \in DOMAIN pcbTable : p \notin {pid} =>
                p \in DOMAIN pcbTable' /\ KeepsMemory(pcbTable[p], pcbTable'[p])
          /\ \A p \in {pid} : p \notin DOMAIN pcbTable' \/ pcbTable'[p].swappedOut
      BY <2>3 DEF Replaces, KeepsMemory, Pids
    <3> QED
      BY <2>4, <3>1, ReleasedMemory
  <2> QED
    BY <1>4, <2>2, <2>4, <2>5, <2>7, <2>8
<1> QED
  BY <1>5, <1>6, <1>7, <1>8, <1>9

LEMMA MemoryStep ==
    ASSUME KernelInv, MemoryCommand \/ Compact PROVE KernelInv'
<1> USE DEF KernelInv
<1>1. isLoggedIn /\ UNCHANGED <<umVars, vfsVars, schedVars, diskVars>>
  BY DEF MemoryCommand, Compact
<1>2. currentUser \in DOMAIN users /\ currentUser \in Users
  BY <1>1 DEF SessionOK, AccountsOK
<1>3. FilesOK(files', nextFileId', DOMAIN users) /\ SchedulerServesSession'
  BY <1>1 DEF vfsVars, SchedulerServesSession, schedVars, umVars, isLoggedIn
<1>4. CASE MemoryCommand
  <2>1. PMInv' /\ pcbTable' = pcbTable
    BY <1>4, TableStays DEF MemoryCommand, pmVars
  <2> DEFINE Right == /\ BlocksOK(blocks', DOMAIN users)
                      /\ MemoryOK(pcbTable, blocks') /\ algorithm' \in AllocAlgorithm
  <2>2. ASSUME NEW sizeKB \in Sizes, NEW start, allocateManual(currentUser, sizeKB, start)
        PROVE  Right
    <3>1. BlocksOK(blocks', DOMAIN users)
      BY <1>2, <2>2, AllocatedBlocks, KernelAssumption DEF allocateManual
    <3>2. MemoryOK(pcbTable, blocks') /\ algorithm' = algorithm
      BY <1>2, <2>2, ManualMemory, KernelAssumption
    <3> QED
      BY <3>1, <3>2
  <2>3. ASSUME NEW addr, freeByAddress(currentUser, addr) PROVE Right
    <3>1. PICK b \in blocks : b.type # "PROCESS" /\ blocks' = Released(blocks, {b})
      BY <2>3 DEF freeByAddress
    <3>2. {b} \in SUBSET blocks
      OBVIOUS
    <3>3. BlocksOK(blocks', DOMAIN users)
      BY <3>1, <3>2, ReleasedBlocks
    <3>4. MemoryOK(pcbTable, blocks')
      <4>1. Valid(blocks') /\ Coalesced(blocks')
        BY <3>1, <3>2, ReleasedValid DEF MemoryOK
      <4>2. Allocated(blocks') = Allocated(blocks) \ {b}
        BY <3>1, <3>2, ReleasedAllocated
      <4>3. \A c : c.type = "PROCESS" => (c \in blocks' <=> c \in blocks)
        BY <3>1, <4>2 DEF Allocated
      <4> QED
        BY <4>1, <4>3, OtherMemory
    <3> QED
      BY <2>3, <3>3, <3>4 DEF freeByAddress
  <2>4. ASSUME NEW algo \in AllocAlgorithm, setAlgorithm(algo) PROVE Right
    BY <2>4 DEF setAlgorithm
  <2>5. Right
    BY <1>4, <2>2, <2>3, <2>4 DEF MemoryCommand
  <2> QED
    BY <1>1, <1>3, <2>1, <2>5, RequestStep
<1>5. CASE Compact
  <2>1. BlocksOK(blocks', DOMAIN users)
    BY <1>5, CompactedBlocks DEF Compact, compact
  <2>2. /\ updateMemoryStarts(pidNewStart(blocks))
        /\ blocks' = Compacted(blocks) /\ algorithm' = algorithm
    BY <1>5 DEF Compact, compact
  <2>3. PMInv'
    BY <2>2, NewStartTypes, MemoryStartsPreserve
  <2>4. /\ DOMAIN pcbTable' = DOMAIN pcbTable
        /\ \A p \in DOMAIN pcbTable :
              /\ pcbTable'[p].owner = pcbTable[p].owner
              /\ pcbTable'[p].swappedOut = pcbTable[p].swappedOut
              /\ pcbTable'[p].memSize = pcbTable[p].memSize
              /\ pcbTable'[p].memStart = IF p \in DOMAIN pidNewStart(blocks)
                                         THEN pidNewStart(blocks)[p]
                                         ELSE pcbTable[p].memStart
    BY <2>2, MemoryStartEffect DEF Pids
  <2>5. MemoryOK(pcbTable', blocks')
    BY <2>2, <2>4, CompactedMemory
  <2>6. PcbOwners(pcbTable', DOMAIN users)
    BY <2>4 DEF PcbOwners
  <2> QED
    BY <1>1, <1>3, <2>1, <2>2, <2>3, <2>5, <2>6, RequestStep
<1> QED
  BY <1>4, <1>5

LEMMA SchedulingStep ==
    ASSUME KernelInv,
           StepCommand \/ AutoStep \/ StartSched \/ StopSched \/ RestartSched
    PROVE  KernelInv'
<1> USE DEF KernelInv
<1>1. ASSUME NEW owner, SchedulerStep(owner) PROVE KernelInv'
  <2>1. /\ step(owner) /\ freeByPids(owner, Pids \ Pids')
        /\ UNCHANGED <<umVars, vfsVars, schedVars, diskVars>>
    BY <1>1 DEF SchedulerStep
  <2>2. PMInv' /\ ServesOnly(owner)
    BY <2>1, StepPreserves, StepServes
  <2>3. BlocksOK(blocks', DOMAIN users)
    BY <2>1, FreedByPids
  <2>4. MemoryOK(pcbTable', blocks') /\ algorithm' = algorithm
    BY <2>1, <2>2, ServedMemory DEF freeByPids
  <2>5. FilesOK(files', nextFileId', DOMAIN users) /\ SchedulerServesSession'
    BY <2>1 DEF vfsVars, SchedulerServesSession, schedVars, umVars, isLoggedIn
  <2> QED
    BY <2>1, <2>2, <2>3, <2>4, <2>5, ServedOwners, RequestStep
<1>2. CASE StartSched \/ StopSched \/ RestartSched
  <2>1. UNCHANGED <<mmVars, umVars, vfsVars, diskVars>>
    BY <1>2 DEF StartSched, StopSched, RestartSched
  <2>2. PMInv' /\ pcbTable' = pcbTable
    BY <1>2, TableStays, CleanupPreserves
       DEF StartSched, StopSched, RestartSched, pmVars, cleanupInvalidReadyQueueEntries
  <2>3. SchedulerServesSession'
    BY <1>2 DEF StartSched, StopSched, RestartSched, SchedulerServesSession,
                umVars, isLoggedIn
  <2>4. /\ BlocksOK(blocks', DOMAIN users) /\ FilesOK(files', nextFileId', DOMAIN users)
        /\ MemoryOK(pcbTable', blocks') /\ algorithm' \in AllocAlgorithm
    BY <2>1, <2>2 DEF mmVars, vfsVars
  <2> QED
    BY <2>1, <2>2, <2>3, <2>4, RequestStep
<1> QED
  BY <1>1, <1>2 DEF StepCommand, AutoStep

LEMMA FileStep == ASSUME KernelInv, VfsCommand PROVE KernelInv'
<1> USE DEF KernelInv
<1>1. isLoggedIn /\ UNCHANGED <<pmVars, mmVars, umVars, schedVars, diskVars>>
  BY DEF VfsCommand
<1>2. currentUser \in DOMAIN users
  BY <1>1 DEF SessionOK
<1>3. FilesOK(files', nextFileId', DOMAIN users)
  BY <1>2, FileCommand DEF VfsCommand
<1>4. PMInv' /\ pcbTable' = pcbTable /\ blocks' = blocks /\ algorithm' = algorithm
  BY <1>1, TableStays DEF pmVars, mmVars
<1>5. SchedulerServesSession'
  BY <1>1 DEF SchedulerServesSession, schedVars, umVars, isLoggedIn
<1> QED
  BY <1>1, <1>3, <1>4, <1>5, RequestStep

LEMMA ImportedSnapshot ==
    ASSUME NEW s, SnapshotOK(s), importSnapshot(s)
    PROVE  /\ pcbTable' = s.pcbs /\ readyQueues' = s.readyQueues /\ nextPid' = s.nextPid
           /\ PMInv'
           /\ blocks' = s.memoryBlocks /\ algorithm' = s.allocAlgorithm
           /\ users' = s.users /\ currentUser' = NoUser
           /\ files' = s.virtualFiles /\ nextFileId' = s.nextFileId
           /\ schedulerRunning' = FALSE
<1>1. /\ pcbTable' = s.pcbs /\ readyQueues' = s.readyQueues /\ nextPid' = s.nextPid
      /\ PMInv'
  BY ImportedTable DEF importSnapshot, SnapshotOK
<1>2. users' = s.users /\ currentUser' = NoUser /\ schedulerRunning' = FALSE
  BY DEF importSnapshot, importUsers, StopScheduler
<1>3. blocks' = s.memoryBlocks /\ algorithm' = s.allocAlgorithm
  BY MergedSame DEF importSnapshot, importMemory, SnapshotOK, MemoryOK
<1>4. s.nextFileId \in Nat \ {0}
  BY DEF SnapshotOK, FilesOK
<1>5. files' = s.virtualFiles /\ nextFileId' = s.nextFileId
  BY <1>4 DEF importSnapshot, importVfs
<1> QED
  BY <1>1, <1>2, <1>3, <1>5

LEMMA ImportedState ==
    ASSUME NEW s, SnapshotOK(s), DiskOK, importSnapshot(s), UNCHANGED diskVars
    PROVE  KernelInv'
<1>1. SessionOK' /\ SchedulerServesSession'
  BY ImportedSnapshot DEF SessionOK, SchedulerServesSession, isLoggedIn
<1> QED
  BY <1>1, ImportedSnapshot, DiskStays DEF KernelInv, SnapshotOK

LEMMA ExportedSnapshot == ASSUME KernelInv PROVE SnapshotOK(exportSnapshot)
BY InvIsTableOK DEF KernelInv, SnapshotOK, exportSnapshot

LEMMA DiskStep ==
    ASSUME KernelInv, Save \/ Load \/ LoadRejected \/ Restart PROVE KernelInv'
<1> USE DEF KernelInv
<1>1. CASE Save
  <2>1. UNCHANGED <<pmVars, mmVars, umVars, vfsVars, schedVars>>
        /\ snapshotFile' = exportSnapshot
    BY <1>1 DEF Save
  <2>2. SnapshotOK(exportSnapshot)
    BY ExportedSnapshot
  <2>3. DiskOK'
    BY <2>1, <2>2 DEF DiskOK
  <2>4. PMInv' /\ SessionOK' /\ SchedulerServesSession'
    BY <2>1, TableStays, SessionStays
  <2>5. /\ pcbTable' = pcbTable /\ blocks' = blocks /\ users' = users
        /\ files' = files /\ nextFileId' = nextFileId /\ algorithm' = algorithm
    BY <2>1 DEF pmVars, mmVars, umVars, vfsVars
  <2> QED
    BY <2>3, <2>4, <2>5
<1>2. CASE LoadRejected
  <2>1. UNCHANGED <<pmVars, mmVars, umVars, vfsVars, diskVars>> /\ schedulerRunning' = FALSE
    BY <1>2 DEF LoadRejected, StopScheduler
  <2>2. PMInv' /\ DiskOK'
    BY <2>1, TableStays, DiskStays
  <2>3. /\ pcbTable' = pcbTable /\ blocks' = blocks /\ users' = users
        /\ files' = files /\ nextFileId' = nextFileId /\ currentUser' = currentUser
        /\ algorithm' = algorithm
    BY <2>1 DEF pmVars, mmVars, umVars, vfsVars
  <2>4. SessionOK' /\ SchedulerServesSession'
    BY <2>1, <2>3 DEF SessionOK, SchedulerServesSession, isLoggedIn
  <2> QED
    BY <2>2, <2>3, <2>4
<1>3. ASSUME LoadSucceeds, importSnapshot(snapshotFile), UNCHANGED diskVars
      PROVE  KernelInv'
  <2>1. SnapshotOK(snapshotFile)
    BY <1>3 DEF LoadSucceeds, DiskOK
  <2> QED
    BY <1>3, <2>1, ImportedState
<1>4. ASSUME Restart, ~LoadSucceeds PROVE KernelInv'
  <2> DEFINE P == [p \in {} |-> p]
             Q == [l \in Levels |-> <<>>]
             U == [u \in {} |-> u]
  <2>1. /\ importProcesses(P, Q, 1)
        /\ blocks' = Merged({FreeBlock(0, TotalMemoryKB)}) /\ algorithm' = "FIRST_FIT"
        /\ users' = U /\ currentUser' = NoUser /\ schedulerRunning' = FALSE
        /\ files' = {} /\ nextFileId' = 1
        /\ UNCHANGED diskVars
    BY <1>4 DEF Restart, importMemory, importUsers, importVfs, StopScheduler
  <2>2. TableOK(P, Q, 1)
    <3>1. PcbsOK(P, 1) /\ TreeOK(P)
      BY DEF PcbsOK, TreeOK
    <3>2. \A l \in Levels : ReadyAt(P, l) = {}
      BY DEF ReadyAt
    <3>3. <<>> \in Seq(Nat) /\ IsInjective(<<>>) /\ Range(<<>>) = {}
      BY DEF IsInjective, Range
    <3>4. QueuesOK(P, Q)
      BY <3>2, <3>3 DEF QueuesOK, GoodQueues
    <3> QED
      BY <3>1, <3>4 DEF TableOK
  <2>3. PMInv' /\ pcbTable' = P
    BY <2>1, <2>2, ImportedTable
  <2>4. PcbOwners(pcbTable', DOMAIN users')
    BY <2>3 DEF PcbOwners
  <2>5. AccountsOK(users') /\ SessionOK' /\ SchedulerServesSession'
    BY <2>1 DEF AccountsOK, SessionOK, SchedulerServesSession, isLoggedIn
  <2>6. MemoryOK(pcbTable', blocks') /\ BlocksOK(blocks', DOMAIN users')
    <3> DEFINE B == {FreeBlock(0, TotalMemoryKB)}
    <3>1. BlocksOK(B, DOMAIN users')
      BY FreeBlockFacts DEF BlocksOK
    <3>2. DOMAIN pcbTable' = {}
      BY <2>3
    <3>3. MemoryOK(pcbTable', B)
      BY <3>2, CleanMemory
    <3> HIDE DEF B
    <3>4. blocks' = B
      BY <2>1, <3>3, MergedSame DEF MemoryOK, B
    <3> QED
      BY <3>1, <3>3, <3>4
  <2>7. FilesOK(files', nextFileId', DOMAIN users')
    BY <2>1 DEF FilesOK
  <2>8. algorithm' \in AllocAlgorithm
    BY <2>1 DEF AllocAlgorithm
  <2> QED
    BY <2>1, <2>3, <2>4, <2>5, <2>6, <2>7, <2>8, DiskStays
<1> QED
  BY <1>1, <1>2, <1>3, <1>4 DEF Load, Restart

LEMMA KernelNextPreserves ==
    ASSUME KernelInv, [KernelNext]_kernelVars PROVE KernelInv'
<1>1. CASE UNCHANGED kernelVars
  <2>1. UNCHANGED <<pmVars, mmVars, umVars, vfsVars, schedVars, diskVars>>
    BY <1>1 DEF kernelVars
  <2>2. PMInv' /\ SessionOK' /\ SchedulerServesSession' /\ DiskOK'
    BY <2>1, TableStays, SessionStays, DiskStays DEF KernelInv
  <2>3. /\ pcbTable' = pcbTable /\ blocks' = blocks /\ users' = users
        /\ files' = files /\ nextFileId' = nextFileId /\ algorithm' = algorithm
    BY <2>1 DEF pmVars, mmVars, umVars, vfsVars
  <2> QED
    BY <2>2, <2>3 DEF KernelInv
<1> QED
  BY <1>1, AccountStep, ProcessStep, MemoryStep, SchedulingStep, FileStep, DiskStep
     DEF KernelNext

-----------------------------------------------------------------------------
(* Snapshots.                                                              *)

LEMMA Loadable == ASSUME NEW s, SnapshotOK(s) PROVE validateSnapshot(s)
<1> DEFINE P == s.pcbs
           B == s.memoryBlocks
<1>1. /\ DOMAIN P \subseteq Nat \ {0}
      /\ \A p \in DOMAIN P : p < s.nextPid /\ PcbOK(P[p])
      /\ TreeOK(P)
      /\ \A p \in DOMAIN P : P[p].owner \in DOMAIN s.users
  BY DEF SnapshotOK, TableOK, PcbsOK, PcbOwners
<1>2. /\ Valid(B) /\ Coalesced(B)
      /\ \A p \in DOMAIN P : ~P[p].swappedOut => BlockFor(p, P[p]) \in B
      /\ \A b \in B : b.type = "PROCESS" =>
            b.pid \in DOMAIN P /\ ~P[b.pid].swappedOut /\ b = BlockFor(b.pid, P[b.pid])
  BY DEF SnapshotOK, MemoryOK, BlocksMatch
<1>3. ASSUME NEW p \in DOMAIN P
      PROVE  /\ p # 0 /\ P[p].ppid # p
             /\ isValidPriority(P[p].priority) /\ P[p].queueLevel \in Levels
             /\ P[p].executedTime <= P[p].totalTime
             /\ P[p].remainingTime <= P[p].totalTime
             /\ P[p].ppid # 0 => P[p].ppid \in DOMAIN P
             /\ P[p].children \subseteq DOMAIN P
             /\ P[p].swappedOut <=> P[p].state = "SWAPPED"
  <2>1. /\ P[p] \in PCB /\ p \in Nat /\ p # 0
        /\ P[p].swappedOut <=> P[p].state = "SWAPPED"
        /\ P[p].executedTime + P[p].remainingTime = P[p].totalTime
    BY <1>1 DEF PcbOK
  <2>2. /\ isValidPriority(P[p].priority) /\ P[p].queueLevel \in Levels
        /\ P[p].executedTime \in Nat /\ P[p].remainingTime \in Nat
    BY <2>1 DEF PCB, isValidPriority
  <2>3. /\ P[p].children \subseteq DOMAIN P
        /\ P[p].ppid # 0 => P[p].ppid \in DOMAIN P /\ P[p].ppid < p
    BY <1>1 DEF TreeOK
  <2> QED
    BY <2>1, <2>2, <2>3
<1>4. ASSUME NEW p \in DOMAIN P, ~P[p].swappedOut
      PROVE  \E b \in {c \in B : c.type = "PROCESS"} : b.pid = p
  BY <1>2, <1>4, BlockForFacts
<1>5. ASSUME NEW b \in B, b.type = "PROCESS"
      PROVE  /\ b.pid \in DOMAIN P /\ P[b.pid].owner = b.owner /\ ~P[b.pid].swappedOut
             /\ b.start = P[b.pid].memStart /\ b.size = P[b.pid].memSize
  BY <1>2, <1>5, BlockForFacts
<1>6. \A b, c \in B : b.type = "PROCESS" /\ c.type = "PROCESS" /\ b.pid = c.pid => b = c
  BY <1>2
<1>7. \A b \in Allocated(B) : b.owner \in DOMAIN s.users
  BY DEF SnapshotOK, BlocksOK, AllocatedBlock, Allocated
<1>8. validateBlocks(Merged(B))
  BY <1>2, MergedSame DEF Valid
<1> HIDE DEF P, B
<1>9. /\ \A p \in DOMAIN P :
            /\ p # 0 /\ p < s.nextPid
            /\ P[p].owner \in DOMAIN s.users
            /\ P[p].ppid # p
            /\ isValidPriority(P[p].priority)
            /\ P[p].queueLevel \in Levels
            /\ P[p].executedTime <= P[p].totalTime
            /\ P[p].remainingTime <= P[p].totalTime
            /\ P[p].ppid # 0 => P[p].ppid \in DOMAIN P
            /\ P[p].children \subseteq DOMAIN P
            /\ ~(P[p].swappedOut \/ P[p].state = "SWAPPED")
                  => \E b \in {c \in B : c.type = "PROCESS"} : b.pid = p
      /\ \A b \in {c \in B : c.type = "PROCESS"} :
            /\ b.pid \in DOMAIN P
            /\ P[b.pid].owner = b.owner
            /\ ~(P[b.pid].swappedOut \/ P[b.pid].state = "SWAPPED")
            /\ b.start = P[b.pid].memStart /\ b.size = P[b.pid].memSize
  BY <1>1, <1>3, <1>4, <1>5
<1> QED
  BY <1>6, <1>7, <1>8, <1>9 DEF validateSnapshot, P, B

(* Whatever brings the saved state back brings all of it back.             *)
LEMMA Recovered ==
    ASSUME KernelInv, Load \/ LoadRejected \/ Restart,
           snapshotFile # NoFile, readable(snapshotFile)
    PROVE  exportSnapshot' = snapshotFile
<1>1. SnapshotOK(snapshotFile)
  BY DEF KernelInv, DiskOK
<1>2. LoadSucceeds
  BY <1>1, Loadable DEF LoadSucceeds
<1>3. importSnapshot(snapshotFile)
  BY <1>2 DEF Load, LoadRejected, Restart
<1>4. exportSnapshot' =
         [users |-> users', nextPid |-> nextPid', pcbs |-> pcbTable',
          readyQueues |-> readyQueues', memoryBlocks |-> blocks',
          allocAlgorithm |-> algorithm', nextFileId |-> nextFileId',
          virtualFiles |-> files']
  BY DEF exportSnapshot
<1>5. exportSnapshot' =
         [users |-> snapshotFile.users, nextPid |-> snapshotFile.nextPid,
          pcbs |-> snapshotFile.pcbs, readyQueues |-> snapshotFile.readyQueues,
          memoryBlocks |-> snapshotFile.memoryBlocks,
          allocAlgorithm |-> snapshotFile.allocAlgorithm,
          nextFileId |-> snapshotFile.nextFileId,
          virtualFiles |-> snapshotFile.virtualFiles]
  BY <1>1, <1>3, <1>4, ImportedSnapshot
<1> QED
  BY <1>1, <1>5 DEF SnapshotOK

-----------------------------------------------------------------------------
(* What the others keep.                                                   *)

(* The blocks of the processes of user, wherever they are in memory.       *)
BlocksSeen(B, user) ==
    {[b EXCEPT !.start = 0] : b \in {c \in B : c.type = "PROCESS" /\ c.owner = user}}

FilesSeen(F, user) == {f \in F : f.owner = user}

Owned(P, user) == {p \in DOMAIN P : P[p].owner = user}

(* user has the same processes in P and in R, as far as memory goes.       *)
SameProcesses(P, R, user) ==
    /\ Owned(P, user) = Owned(R, user)
    /\ \A p \in Owned(P, user) : /\ R[p].memSize = P[p].memSize
                                 /\ R[p].swappedOut = P[p].swappedOut

LEMMA BlockMoved ==
    ASSUME NEW p, NEW r, NEW u, u.memSize = r.memSize, u.owner = r.owner
    PROVE  [BlockFor(p, u) EXCEPT !.start = 0] = [BlockFor(p, r) EXCEPT !.start = 0]
BY DEF BlockFor

(* The tables of processes and of blocks match, so who keeps the processes *)
(* keeps their memory.                                                     *)
LEMMA BlocksKept ==
    ASSUME NEW P, NEW R, NEW B, NEW C, NEW user, SameProcesses(P, R, user),
           BlocksMatch(P, B), BlocksMatch(R, C)
    PROVE  BlocksSeen(B, user) \subseteq BlocksSeen(C, user)
<1> SUFFICES ASSUME NEW b \in B, b.type = "PROCESS", b.owner = user
             PROVE  [b EXCEPT !.start = 0] \in BlocksSeen(C, user)
  BY DEF BlocksSeen
<1> DEFINE p == b.pid
           c == BlockFor(p, R[p])
<1>1. p \in DOMAIN P /\ ~P[p].swappedOut /\ b = BlockFor(p, P[p])
  BY DEF BlocksMatch
<1>2. P[p].owner = user
  BY <1>1, BlockForFacts
<1>3. /\ p \in DOMAIN R /\ R[p].owner = user /\ ~R[p].swappedOut
      /\ R[p].memSize = P[p].memSize
  BY <1>1, <1>2 DEF SameProcesses, Owned
<1>4. c \in C
  BY <1>3 DEF BlocksMatch
<1>5. c.type = "PROCESS" /\ c.owner = user
  BY <1>3, BlockForFacts
<1> HIDE DEF p
<1>6. [c EXCEPT !.start = 0] = [b EXCEPT !.start = 0]
  BY <1>1, <1>2, <1>3, BlockMoved
<1> HIDE DEF c
<1> QED
  BY <1>4, <1>5, <1>6 DEF BlocksSeen

(* Who sees the same PCBs has the same processes.                          *)
LEMMA ViewedProcesses ==
    ASSUME PMInv, PMInv', NEW user, ViewOf(user)' = ViewOf(user)
    PROVE  SameProcesses(pcbTable, pcbTable', user) /\ SameProcesses(pcbTable', pcbTable, user)
<1> DEFINE own == Owned(pcbTable, user)
           ownNext == Owned(pcbTable', user)
           f == [p \in own |-> [pcbTable[p] EXCEPT !.memStart = 0]]
           g == [p \in ownNext |-> [pcbTable'[p] EXCEPT !.memStart = 0]]
<1>1. g = f
  BY DEF ViewOf, Owned, Pids
<1>2. ownNext = own
  <2>1. DOMAIN f = own /\ DOMAIN g = ownNext
    OBVIOUS
  <2> HIDE DEF f, g
  <2> QED
    BY <1>1, <2>1
<1>3. ASSUME NEW p \in own
      PROVE  /\ pcbTable'[p].memSize = pcbTable[p].memSize
             /\ pcbTable'[p].swappedOut = pcbTable[p].swappedOut
  <2>1. pcbTable[p] \in PCB /\ pcbTable'[p] \in PCB
    BY <1>2 DEF PMInv, PMTypeOK, Owned, Pids
  <2>2. f[p] = [pcbTable[p] EXCEPT !.memStart = 0]
    OBVIOUS
  <2>3. g[p] = [pcbTable'[p] EXCEPT !.memStart = 0]
    BY <1>2
  <2>4. [pcbTable'[p] EXCEPT !.memStart = 0] = [pcbTable[p] EXCEPT !.memStart = 0]
    BY <1>1, <2>2, <2>3
  <2>5. \A r \in PCB : /\ [r EXCEPT !.memStart = 0].memSize = r.memSize
                       /\ [r EXCEPT !.memStart = 0].swappedOut = r.swappedOut
    BY DEF PCB
  <2> QED
    BY <2>1, <2>4, <2>5
<1> QED
  BY <1>2, <1>3 DEF SameProcesses

(* A request of the session, or an automatic step, leaves what the others  *)
(* see of the process table.                                               *)
LEMMA ViewsKept ==
    ASSUME KernelInv, KernelNext, ~Load, ~Restart,
           NEW user \in Users \ {currentUser}
    PROVE  ViewOf(user)' = ViewOf(user)
<1>1. PMInv
  BY DEF KernelInv
<1>2. LeavesOthers(currentUser) => ViewOf(user)' = ViewOf(user)
  BY <1>1, OthersView
<1>3. CASE UNCHANGED pmVars
  BY <1>3 DEF ViewOf, Pids, pmVars
<1>4. CASE CreatePcb
  BY <1>1, <1>2, <1>4, CreateLeavesOthers DEF CreatePcb
<1>5. CASE KillPcb \/ ProcessCommand \/ SwapOut
  BY <1>1, <1>2, <1>5, CommandLeavesOthers DEF KillPcb, ProcessCommand, SwapOut
<1>6. CASE Compact
  BY <1>1, <1>6, MemoryStartView DEF Compact
<1>7. CASE StepCommand
  BY <1>1, <1>2, <1>7, StepLeavesOthers DEF StepCommand, SchedulerStep
<1>8. CASE AutoStep
  <2>1. schedulerOwner = currentUser
    BY <1>8 DEF AutoStep, KernelInv, SchedulerServesSession
  <2> QED
    BY <1>1, <1>2, <1>8, <2>1, StepLeavesOthers DEF AutoStep, SchedulerStep
<1>9. CASE RestartSched
  <2>1. readyQueues' = CleanedQueues /\ pcbTable' = pcbTable /\ nextPid' = nextPid
    BY <1>9 DEF RestartSched, cleanupInvalidReadyQueueEntries, CleanedQueues
  <2> QED
    BY <1>1, <1>3, <2>1, CleanedSame DEF pmVars
<1>10. CASE Register \/ LoginRejected \/ Login \/ Logout
  BY <1>3, <1>10 DEF Register, LoginRejected, Login, Logout
<1>11. CASE CreatePcbRollback \/ MemoryCommand \/ VfsCommand
  BY <1>3, <1>11 DEF CreatePcbRollback, MemoryCommand, VfsCommand
<1>12. CASE StartSched \/ StopSched \/ Save \/ LoadRejected
  BY <1>3, <1>12 DEF StartSched, StopSched, Save, LoadRejected
<1> QED
  BY <1>4, <1>5, <1>6, <1>7, <1>8, <1>9, <1>10, <1>11, <1>12 DEF KernelNext

LEMMA FilesKept ==
    ASSUME KernelInv, KernelNext, ~Load, ~Restart,
           NEW user \in Users \ {currentUser}
    PROVE  FilesSeen(files', user) = FilesSeen(files, user)
<1>1. CASE VfsCommand
  <2>1. ASSUME NEW name, NEW content, newFile(currentUser, name, content)
        PROVE  FilesSeen(files', user) = FilesSeen(files, user)
    <3> DEFINE f == [fileId |-> nextFileId, owner |-> currentUser,
                     name |-> name, content |-> content]
    <3>1. files' = files \cup {f} /\ f.owner = currentUser
      BY <2>1 DEF newFile
    <3> HIDE DEF f
    <3> QED
      BY <3>1 DEF FilesSeen
  <2>2. ASSUME NEW name, NEW content, NEW f \in Found(currentUser, name),
               files' = (files \ {f}) \cup {[f EXCEPT !.content = content]}
        PROVE  FilesSeen(files', user) = FilesSeen(files, user)
    <3>1. f \in files /\ f.owner = currentUser
      BY DEF Found
    <3>2. f \in VirtualFile
      BY <3>1 DEF KernelInv, FilesOK, AccountsOK, VirtualFile
    <3>3. [f EXCEPT !.content = content].owner = currentUser
      BY <3>1, <3>2 DEF VirtualFile
    <3> QED
      BY <2>2, <3>1, <3>3 DEF FilesSeen
  <2>3. ASSUME NEW name, NEW f \in Found(currentUser, name), files' = files \ {f}
        PROVE  FilesSeen(files', user) = FilesSeen(files, user)
    BY <2>3 DEF Found, FilesSeen
  <2> QED
    BY <1>1, <2>1, <2>2, <2>3 DEF VfsCommand, createFile, writeFile, deleteFile
<1>2. CASE UNCHANGED vfsVars
  BY <1>2 DEF vfsVars
<1>3. CASE Register \/ LoginRejected \/ Login \/ Logout
  BY <1>2, <1>3 DEF Register, LoginRejected, Login, Logout
<1>4. CASE CreatePcb \/ CreatePcbRollback \/ KillPcb \/ ProcessCommand \/ SwapOut
  BY <1>2, <1>4 DEF CreatePcb, CreatePcbRollback, KillPcb, ProcessCommand, SwapOut
<1>5. CASE MemoryCommand \/ Compact \/ StepCommand \/ AutoStep
  BY <1>2, <1>5 DEF MemoryCommand, Compact, StepCommand, AutoStep, SchedulerStep
<1>6. CASE StartSched \/ StopSched \/ RestartSched \/ Save \/ LoadRejected
  BY <1>2, <1>6 DEF StartSched, StopSched, RestartSched, Save, LoadRejected
<1> QED
  BY <1>1, <1>3, <1>4, <1>5, <1>6 DEF KernelNext

LEMMA OthersKeepData ==
    ASSUME KernelInv, KernelNext, ~Load, ~Restart,
           NEW user \in Users \ {currentUser}
    PROVE  DataOf(user)' = DataOf(user)
<1>1. KernelInv'
  BY KernelNextPreserves
<1>2. ViewOf(user)' = ViewOf(user) /\ FilesSeen(files', user) = FilesSeen(files, user)
  BY ViewsKept, FilesKept
<1>3. /\ SameProcesses(pcbTable, pcbTable', user)
      /\ SameProcesses(pcbTable', pcbTable, user)
  BY <1>1, <1>2, ViewedProcesses DEF KernelInv
<1>4. BlocksMatch(pcbTable, blocks) /\ BlocksMatch(pcbTable', blocks')
  BY <1>1 DEF KernelInv, MemoryOK
<1>5. BlocksSeen(blocks', user) = BlocksSeen(blocks, user)
  BY <1>3, <1>4, BlocksKept
<1>6. DataOf(user) = <<ViewOf(user), BlocksSeen(blocks, user), FilesSeen(files, user)>>
  BY Zenon DEF DataOf, BlocksSeen, FilesSeen
<1>7. DataOf(user)' = <<ViewOf(user)', BlocksSeen(blocks', user), FilesSeen(files', user)>>
  BY Zenon DEF DataOf, BlocksSeen, FilesSeen
<1> QED
  BY Zenon, <1>2, <1>5, <1>6, <1>7

-----------------------------------------------------------------------------
(* The figures of the overview.                                            *)

(* The folds that total sizes and claims are sums.                         *)
LEMMA TotalIs ==
    ASSUME NEW B PROVE TotalSize(B) = SumOver([b \in B |-> b.size], B)
<1> DEFINE f == [b \in B |-> b.size]
<1>1. \A s \in SUBSET B : \A g :
         OneMore(g, f, s) =
            IF s = {} THEN 0
            ELSE (CHOOSE x \in s : TRUE).size + g[s \ {CHOOSE x \in s : TRUE}]
  <2> SUFFICES ASSUME NEW s \in SUBSET B, s # {}
               PROVE  f[CHOOSE x \in s : TRUE] = (CHOOSE x \in s : TRUE).size
    BY DEF OneMore
  <2>1. (CHOOSE x \in s : TRUE) \in B
    OBVIOUS
  <2> QED
    BY <2>1
<1>2. \A g : FoldOf(g, f, B) <=>
         g = [s \in SUBSET B |->
                 IF s = {} THEN 0
                 ELSE (CHOOSE x \in s : TRUE).size + g[s \ {CHOOSE x \in s : TRUE}]]
  BY <1>1, ZenonT(40) DEF FoldOf
<1>3. TotalSize(B) =
          (CHOOSE g : g = [s \in SUBSET B |->
              IF s = {} THEN 0
              ELSE (CHOOSE x \in s : TRUE).size + g[s \ {CHOOSE x \in s : TRUE}]])[B]
  BY DEF TotalSize, Sums!MapThenSumSet, Sums!MapThenFoldSet
<1> QED
  BY <1>2, <1>3, ZenonT(60) DEF SumOver

LEMMA ClaimIs ==
    ASSUME NEW R
    PROVE  TotalClaim(R) = SumOver([p \in R |-> pcbTable[p].memSize], R)
<1> DEFINE f == [p \in R |-> pcbTable[p].memSize]
<1>1. \A s \in SUBSET R : \A g :
         OneMore(g, f, s) =
            IF s = {} THEN 0
            ELSE pcbTable[CHOOSE x \in s : TRUE].memSize
                    + g[s \ {CHOOSE x \in s : TRUE}]
  <2> SUFFICES ASSUME NEW s \in SUBSET R, s # {}
               PROVE  f[CHOOSE x \in s : TRUE] = pcbTable[CHOOSE x \in s : TRUE].memSize
    BY DEF OneMore
  <2>1. (CHOOSE x \in s : TRUE) \in R
    OBVIOUS
  <2> QED
    BY <2>1
<1>2. \A g : FoldOf(g, f, R) <=>
         g = [s \in SUBSET R |->
                 IF s = {} THEN 0
                 ELSE pcbTable[CHOOSE x \in s : TRUE].memSize
                         + g[s \ {CHOOSE x \in s : TRUE}]]
  BY <1>1 DEF FoldOf
<1>3. TotalClaim(R) =
         (CHOOSE g : g = [s \in SUBSET R |->
                 IF s = {} THEN 0
                 ELSE pcbTable[CHOOSE x \in s : TRUE].memSize
                         + g[s \ {CHOOSE x \in s : TRUE}]])[R]
  BY DEF TotalClaim, Sums!MapThenSumSet, Sums!MapThenFoldSet
<1>4. (CHOOSE g : FoldOf(g, f, R)) =
         (CHOOSE g : g = [s \in SUBSET R |->
                 IF s = {} THEN 0
                 ELSE pcbTable[CHOOSE x \in s : TRUE].memSize
                         + g[s \ {CHOOSE x \in s : TRUE}]])
  BY <1>2
<1> QED
  BY <1>3, <1>4 DEF SumOver

(* The greatest of the sizes and 0 is their sum unless there are several.  *)
LEMMA GreatestOrSum ==
    ASSUME NEW B, Valid(B), NEW g, AddsUp(g, [b \in B |-> b.size], B),
           NEW F \in SUBSET B
    PROVE  Sums!Max({b.size : b \in F} \cup {0}) # g[F] <=> Cardinality(F) > 1
<1> DEFINE K == {b.size : b \in F} \cup {0}
           m == Sums!Max(K)
<1>1. \A b \in B : b.size \in Nat /\ b.size > 0 /\ b.size \in Addresses
  <2>1. TotalMemoryKB \in Nat
    BY MemoryAssumption
  <2> QED
    BY <2>1, ValidBlocks DEF Addresses
<1>2. K \in SUBSET Addresses /\ K # {}
  BY <1>1, MemoryAssumption DEF Addresses
<1>3. m \in K /\ \A k \in K : k <= m
  <2> HIDE DEF K
  <2>1. \E x \in K : \A y \in K : y <= x
    BY <1>2, HasGreatest
  <2>2. K \subseteq Int
    BY <1>2, MemoryAssumption DEF Addresses
  <2>3. \E x \in K : \A y \in K : x >= y
    BY <2>1, <2>2
  <2>4. m \in K /\ \A y \in K : m >= y
    BY <2>3 DEF Sums!Max
  <2> QED
    BY <2>2, <2>4
<1> HIDE DEF m
<1>4. /\ g[{}] = 0
      /\ \A s \in SUBSET B : g[s] \in Nat
      /\ \A s \in SUBSET B : \A x \in s : g[s] = x.size + g[s \ {x}]
  BY DEF AddsUp
<1>5. IsFiniteSet(F) /\ Cardinality(F) \in Nat
  BY BlocksFinite, FS_Subset, FS_CardinalityType
<1>6. CASE F = {}
  <2>1. K = {0}
    BY <1>6
  <2>2. Cardinality(F) = 0
    BY <1>6, FS_EmptySet
  <2> QED
    BY <1>3, <1>4, <1>6, <2>1, <2>2 DEF m
<1>7. ASSUME NEW b \in F, F = {b}
      PROVE  m # g[F] <=> Cardinality(F) > 1
  <2>1. K = {b.size, 0} /\ m = b.size
    BY <1>1, <1>3, <1>7
  <2>2. Cardinality(F) = 1
    BY <1>7, FS_Singleton
  <2>3. F \ {b} = {}
    BY <1>7
  <2>4. g[F] = b.size + g[F \ {b}]
    BY <1>4
  <2>5. g[F] = b.size
    BY <1>1, <1>4, <2>3, <2>4
  <2> QED
    BY <2>1, <2>2, <2>5
<1>8. ASSUME NEW b \in F, F # {b}
      PROVE  m # g[F] <=> Cardinality(F) > 1
  <2>1. Cardinality(F) > 1
    <3>1. Cardinality(F) # 0
      BY <1>5, FS_EmptySet
    <3>2. Cardinality(F) # 1
      BY <1>5, <1>8, FS_Singleton
    <3> QED
      BY <1>5, <3>1, <3>2
  <2>2. PICK d \in F : m = d.size
    <3>1. b.size <= m /\ b.size > 0 /\ b.size \in Nat
      BY <1>1, <1>3
    <3>2. m # 0
      BY <3>1
    <3> QED
      BY <1>3, <3>2
  <2>3. PICK e \in F \ {d} : TRUE
    BY <1>8
  <2>4. g[F] = d.size + g[F \ {d}]
    BY <1>4
  <2>5. g[F \ {d}] = e.size + g[(F \ {d}) \ {e}]
    BY <1>4
  <2>6. /\ g[(F \ {d}) \ {e}] \in Nat
        /\ d.size \in Nat /\ e.size \in Nat /\ e.size > 0
    BY <1>1, <1>4
  <2>7. g[F] > d.size
    BY <2>4, <2>5, <2>6
  <2> QED
    BY <2>1, <2>2, <2>6, <2>7
<1>9. m # g[F] <=> Cardinality(F) > 1
  BY <1>6, <1>7, <1>8 DEF m
<1> QED
  BY <1>9 DEF m

(* The three figures, for the blocks and the PCBs of any state.            *)
LEMMA FiguresRight ==
    ASSUME PMInv, Valid(blocks), BlocksMatch(pcbTable, blocks),
           \A b \in blocks : b.type \in {"FREE", "PROCESS", "KERNEL"}
    PROVE  MemoryAddsUp
<1> DEFINE f == [b \in blocks |-> b.size]
           g == CHOOSE g : FoldOf(g, f, blocks)
           used == Allocated(blocks)
           free == FreeBlocks(blocks)
           byHand == {b \in blocks : b.type = "KERNEL"}
           process == {b \in blocks : b.type = "PROCESS"}
           resident == {p \in Pids : ~pcbTable[p].swappedOut}
           claims == [p \in resident |-> pcbTable[p].memSize]
<1>1. IsFiniteSet(blocks) /\ \A b \in blocks : f[b] = b.size /\ b.size \in Nat
  BY BlocksFinite, ValidBlocks DEF MemoryBlock
<1>2. Summands(f, blocks)
  BY <1>1 DEF Summands
<1>3. AddsUp(g, f, blocks)
  <2>1. FoldOf(g, f, blocks)
    <3> HIDE DEF f
    <3> QED
      BY <1>1, FoldExists
  <2> HIDE DEF f, g
  <2> QED
    BY <1>2, <2>1, FoldAddsUp
<1> HIDE DEF g
<1>4. \A B \in SUBSET blocks : TotalSize(B) = g[B]
  <2> SUFFICES ASSUME NEW B \in SUBSET blocks PROVE TotalSize(B) = g[B]
    OBVIOUS
  <2>1. \A b \in B : [c \in B |-> c.size][b] = f[b]
    OBVIOUS
  <2> HIDE DEF f
  <2>2. SumOver([c \in B |-> c.size], B) = g[B]
    BY ONLY SMT, B \in SUBSET blocks, <1>2, <1>3, <2>1, SumOverPart
  <2> QED
    BY <2>2, TotalIs
<1>5. /\ used \in SUBSET blocks /\ free \in SUBSET blocks
      /\ byHand \in SUBSET blocks /\ process \in SUBSET blocks
      /\ used \cap free = {} /\ used \cup free = blocks
      /\ byHand \cap process = {} /\ byHand \cup process = used
  BY DEF Allocated, FreeBlocks
<1>6. g[used \cup free] = g[used] + g[free] /\ g[byHand \cup process] = g[byHand] + g[process]
  <2>1. ASSUME NEW t \in SUBSET blocks, NEW s \in SUBSET blocks, s \cap t = {}
        PROVE  g[s \cup t] = g[s] + g[t]
    <3> HIDE DEF f
    <3> QED
      BY ONLY SMT, t \in SUBSET blocks, s \in SUBSET blocks, <1>2, <1>3, <2>1, SumOfUnion
  <2> HIDE DEF used, free, byHand, process, f
  <2> QED
    BY <1>5, <2>1
<1>7. g[blocks] = TotalMemoryKB
  BY <1>3, SizesAddUp
<1>8. SumOver(claims, resident) = g[process]
  <2> DEFINE h == [p \in resident |-> BlockFor(p, pcbTable[p])]
  <2>1. IsFiniteSet(resident)
    <3>1. Pids \subseteq 1 .. nextPid - 1 /\ nextPid \in Nat
      BY DEF PMInv, PMTypeOK, PidsBelowNext
    <3>2. IsFiniteSet(1 .. nextPid - 1)
      BY <3>1, FS_Interval
    <3> QED
      BY <3>1, <3>2, FS_Subset
  <2>2. \A p \in resident : /\ h[p] \in blocks /\ h[p].pid = p
                            /\ h[p].type = "PROCESS"
                            /\ f[h[p]] = claims[p] /\ claims[p] \in Nat
    <3> SUFFICES ASSUME NEW p \in resident
                 PROVE  /\ h[p] \in blocks /\ h[p].pid = p
                        /\ h[p].type = "PROCESS"
                        /\ f[h[p]] = claims[p] /\ claims[p] \in Nat
      OBVIOUS
    <3>1. h[p] \in blocks
      BY DEF BlocksMatch, Pids
    <3>2. h[p].pid = p /\ h[p].type = "PROCESS" /\ h[p].size = claims[p]
      BY DEF BlockFor
    <3> HIDE DEF h, claims
    <3> QED
      BY <1>1, <3>1, <3>2
  <2>3. ImageOf(h, resident) = process
    <3>1. \A b \in process : b.pid \in resident /\ h[b.pid] = b
      BY DEF BlocksMatch, Pids
    <3>2. \A p \in resident : h[p] \in process
      BY <2>2
    <3> HIDE DEF h, resident, process
    <3> QED
      BY ONLY Zenon, <3>1, <3>2 DEF ImageOf
  <2> HIDE DEF h, claims, f, resident
  <2>4. SumOver(claims, resident) = g[ImageOf(h, resident)]
    <3>1. Summands(claims, resident)
      BY <2>1, <2>2 DEF Summands
    <3>2. Corresponds(h, resident, claims, blocks, f)
      BY <2>2 DEF Corresponds
    <3> QED
      BY ONLY SMT, <1>3, <3>1, <3>2, SumOverImage
  <2> QED
    BY <2>3, <2>4
<1>9. memoryStat.used = g[used] /\ memoryStat.free = g[free]
  BY <1>4, <1>5 DEF memoryStat
<1>10. memoryStat.used + memoryStat.free = TotalMemoryKB
  BY <1>5, <1>6, <1>7, <1>9
<1>11. memoryStat.used = TotalSize(byHand) + TotalClaim(resident)
  <2>1. TotalClaim(resident) = g[process]
    BY <1>8, ClaimIs
  <2>2. TotalSize(byHand) = g[byHand]
    BY <1>4, <1>5
  <2> QED
    BY <1>5, <1>6, <1>9, <2>1, <2>2
<1>12. fragmented <=> Cardinality(free) > 1
  <2>1. memoryStat.largestFree = Sums!Max({b.size : b \in free} \cup {0})
    BY DEF memoryStat
  <2> HIDE DEF free
  <2>2. Sums!Max({b.size : b \in free} \cup {0}) # g[free] <=> Cardinality(free) > 1
    BY <1>3, <1>5, GreatestOrSum
  <2> QED
    BY <1>9, <2>1, <2>2 DEF fragmented
<1> QED
  BY <1>10, <1>11, <1>12 DEF MemoryAddsUp

-----------------------------------------------------------------------------
(* The theorems.                                                           *)

(* In every state of the kernel the inductive invariant holds: no request, *)
(* no automatic step, no load and no restart disturbs any part of it.      *)
THEOREM KernelInvariant == KernelSpec => []KernelInv
<1>1. KernelInit => KernelInv
  BY InitIsRight
<1>2. KernelInv /\ [KernelNext]_kernelVars => KernelInv'
  BY KernelNextPreserves
<1> QED
  BY <1>1, <1>2, PTL DEF KernelSpec

(* Tables, memory, accounts, the session and files are well typed.         *)
THEOREM KernelTypes == KernelSpec => [](PMTypeOK /\ MMTypeOK /\ UMTypeOK /\ VfsTypeOK)
<1>1. KernelInv => UMTypeOK
  BY DEF KernelInv, AccountsOK, SessionOK, isLoggedIn, UMTypeOK
<1>2. KernelInv => VfsTypeOK
  <2> SUFFICES ASSUME KernelInv PROVE VfsTypeOK
    OBVIOUS
  <2>1. DOMAIN users \subseteq Users
    BY DEF KernelInv, AccountsOK
  <2>2. \A f \in files : f \in VirtualFile
    BY <2>1 DEF KernelInv, FilesOK, VirtualFile
  <2> QED
    BY <2>2 DEF KernelInv, FilesOK, VfsTypeOK
<1>3. KernelInv => PMTypeOK
  BY DEF KernelInv, PMInv
<1>4. KernelInv => MMTypeOK
  BY DEF KernelInv, MemoryOK, Valid, MMTypeOK
<1> QED
  BY <1>1, <1>2, <1>3, <1>4, KernelInvariant, PTL

(* The automatic scheduler runs only for the user who is logged in.        *)
THEOREM SchedulerServes == KernelSpec => []SchedulerServesSession
<1>1. KernelInv => SchedulerServesSession
  BY DEF KernelInv
<1> QED
  BY <1>1, KernelInvariant, PTL

(* The session is that of an account that exists, and accounts are locked  *)
(* exactly after three wrong passwords in a row.                           *)
THEOREM SessionsValid == KernelSpec => []SessionValid
<1>1. KernelInv => SessionValid
  BY DEF KernelInv, SessionOK, AccountsOK, SessionValid
<1> QED
  BY <1>1, KernelInvariant, PTL

(* Processes, allocated memory and files belong to accounts that exist.    *)
THEOREM OwnersKnown == KernelSpec => []OwnersExist
<1>1. KernelInv => OwnersExist
  BY DEF KernelInv, PcbOwners, BlocksOK, AllocatedBlock, FilesOK, OwnersExist,
         Allocated, Pids
<1> QED
  BY <1>1, KernelInvariant, PTL

(* A file is found by its owner and name, and by its id, unambiguously.    *)
THEOREM FilesDistinct == KernelSpec => []FilesUnique
<1>1. KernelInv => FilesUnique
  BY DEF KernelInv, FilesOK, FilesUnique
<1> QED
  BY <1>1, KernelInvariant, PTL

(* The ready queues are right in the whole kernel, not only in the table   *)
(* on its own: also after a compaction, a load and a restart.              *)
THEOREM KernelQueues == KernelSpec => []QueuesMatchStates
<1>1. KernelInv => QueuesMatchStates
  BY DEF KernelInv, PMInv
<1> QED
  BY <1>1, KernelInvariant, PTL

(* Also between the requests of different users, compactions, loads and    *)
(* restarts the blocks tile the memory and free neighbours are merged.     *)
THEOREM KernelPartition == KernelSpec => [](PartitionValid /\ FreeCoalesced)
<1>1. KernelInv => PartitionValid /\ FreeCoalesced
  BY DEF KernelInv, MemoryOK, Valid, Coalesced, PartitionValid, FreeCoalesced
<1> QED
  BY <1>1, KernelInvariant, PTL

(* Every process that is not swapped out has exactly the block its PCB     *)
(* tells of, and every PROCESS block has such a process.                   *)
THEOREM MemoryMatches == KernelSpec => []MemoryMatchesProcesses
<1>1. KernelInv => MemoryMatchesProcesses
  <2> SUFFICES ASSUME KernelInv PROVE MemoryMatchesProcesses
    OBVIOUS
  <2>1. /\ \A p \in Pids : ~pcbTable[p].swappedOut => BlockFor(p, pcbTable[p]) \in blocks
        /\ \A b \in blocks : b.type = "PROCESS" =>
              /\ b.pid \in Pids /\ ~pcbTable[b.pid].swappedOut
              /\ b = BlockFor(b.pid, pcbTable[b.pid])
    BY DEF KernelInv, MemoryOK, BlocksMatch, Pids
  <2>2. ASSUME NEW p \in Pids, ~pcbTable[p].swappedOut
        PROVE  {b \in blocks : b.type = "PROCESS" /\ b.pid = p}
                   = {BlockFor(p, pcbTable[p])}
    BY <2>1, <2>2, BlockForFacts
  <2> QED
    BY <2>1, <2>2 DEF MemoryMatchesProcesses, BlockFor
<1> QED
  BY <1>1, KernelInvariant, PTL

(* The snapshot of every state is one that a load accepts.                 *)
THEOREM SavesLoadable == KernelSpec => []SnapshotLoadable
<1>1. KernelInv => SnapshotLoadable
  BY ExportedSnapshot, Loadable DEF SnapshotLoadable
<1> QED
  BY <1>1, KernelInvariant, PTL

(* The repairs a load makes would change nothing in any state.             *)
THEOREM SavesFaithful == KernelSpec => []SnapshotFaithful
<1>1. KernelInv => SnapshotFaithful
  <2> SUFFICES ASSUME KernelInv PROVE SnapshotFaithful
    OBVIOUS
  <2>1. TableOK(pcbTable, readyQueues, nextPid)
    BY InvIsTableOK DEF KernelInv
  <2>2. /\ RebuiltChildren(pcbTable) = pcbTable
        /\ \A l \in Levels :
              ValidatedQueue(pcbTable, readyQueues[l], l) = readyQueues[l]
    BY <2>1, NothingToRebuild, NothingToValidate DEF TableOK
  <2>3. Merged(blocks) = blocks
    BY MergedSame DEF KernelInv, MemoryOK
  <2>4. nextPid >= 1 /\ nextFileId >= 1
    BY DEF KernelInv, PMInv, PMTypeOK, FilesOK
  <2> QED
    BY <2>2, <2>3, <2>4 DEF SnapshotFaithful
<1> QED
  BY <1>1, KernelInvariant, PTL

(* A load, and a start after an exit or a crash in any state, bring back   *)
(* exactly what was saved last, unless a string in it is too long to read. *)
THEOREM LastSaveRecovered == KernelSpec => RecoversLastSave
<1>1. KernelInv => ((Load \/ LoadRejected \/ Restart)
                        /\ snapshotFile # NoFile /\ readable(snapshotFile)
                        => exportSnapshot' = snapshotFile)
  BY Recovered
<1> QED
  BY <1>1, KernelInvariant, PTL DEF RecoversLastSave

(* A creation that fails leaves the memory as it was.                      *)
THEOREM RollbacksRestore == KernelSpec => RollbackRestores
<1>1. KernelInv => (CreatePcbRollback => UNCHANGED blocks)
  BY RollbackKeeps
<1> QED
  BY <1>1, KernelInvariant, PTL DEF RollbackRestores

(* No request of the session's user and no automatic step changes a        *)
(* process, the order of the processes that wait, process memory or a file *)
(* of anybody else.                                                        *)
THEOREM OthersLeftAlone == KernelSpec => UsersIsolated
<1>1. KernelInv /\ [KernelNext]_kernelVars =>
          [Load \/ Restart \/
           \A user \in Users \ {currentUser} : DataOf(user)' = DataOf(user)]_kernelVars
  BY OthersKeepData
<1> QED
  BY <1>1, KernelInvariant, PTL DEF KernelSpec, UsersIsolated

(* Used and free memory make up all of it, what is used is what the PCBs   *)
(* that are not swapped out claim and the blocks allocated by hand, and    *)
(* fragmentation is reported exactly when the free memory is in pieces.    *)
THEOREM FiguresAddUp == KernelSpec => []MemoryAddsUp
<1>1. KernelInv => MemoryAddsUp
  <2> SUFFICES ASSUME KernelInv PROVE MemoryAddsUp
    OBVIOUS
  <2>1. PMInv /\ Valid(blocks) /\ BlocksMatch(pcbTable, blocks)
    BY DEF KernelInv, MemoryOK
  <2>2. \A b \in blocks : b.type \in {"FREE", "PROCESS", "KERNEL"}
    BY <2>1, ValidBlocks DEF MemoryBlock
  <2> QED
    BY <2>1, <2>2, FiguresRight
<1> QED
  BY <1>1, KernelInvariant, PTL
=============================================================================
