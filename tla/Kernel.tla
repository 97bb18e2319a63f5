------------------------------- MODULE Kernel -------------------------------
(***************************************************************************)
(* The kernel of src/src/kernel: it owns the process table, the memory,    *)
(* the accounts and the virtual files, and every change to them is made    *)
(* under stateMutex_, either by the worker thread that executes one        *)
(* request (Kernel::executeRequest) or by the scheduler thread that makes  *)
(* one automatic step (Kernel::schedulerLoop).  Each such critical section *)
(* is one action here.  A request that is refused leaves the state as it   *)
(* is and is not an action; those refused requests that do change it are   *)
(* (CreatePcbRollback, LoginRejected, LoadRejected).                       *)
(***************************************************************************)
EXTENDS Scheduler, MemoryManager, UserManager, VirtualFileSystem

CONSTANTS Priorities,   \* the priorities users ask for, valid or not
          TotalTimes,   \* the run times users ask for
          Sizes,        \* the memory sizes users ask for
          TooLong,      \* contents longer than SnapshotStore's kMaxStringLength
          NoFile,       \* there is no snapshot file
          MaxSaves      \* bound: how often the state is saved

ASSUME KernelAssumption ==
    /\ Priorities \subseteq Int
    /\ TotalTimes \subseteq Nat
    /\ Sizes \subseteq Nat
    /\ TooLong \subseteq Contents
    /\ MaxSaves \in Nat

VARIABLES schedulerRunning,   \* schedulerRunning_
          schedulerOwner,     \* schedulerOwner_, or NoUser
          snapshotFile,       \* what SnapshotStore has on disk, or NoFile
          saves               \* number of saves so far (bounds the model)

schedVars == <<schedulerRunning, schedulerOwner>>

diskVars == <<snapshotFile, saves>>

kernelVars == <<pmVars, mmVars, umVars, vfsVars, schedVars, diskVars>>

KernelInit ==
    /\ PMInit /\ MMInit /\ UMInit /\ VfsInit
    /\ schedulerRunning = FALSE
    /\ schedulerOwner = NoUser
    /\ snapshotFile = NoFile
    /\ saves = 0

-----------------------------------------------------------------------------
(* Accounts.                                                               *)

StopScheduler ==
    /\ schedulerRunning' = FALSE
    /\ schedulerOwner' = NoUser

Register ==
    /\ \E u \in Users : registerUser(u)
    /\ UNCHANGED <<pmVars, mmVars, vfsVars, schedVars, diskVars>>

LoginRejected ==
    /\ \E u \in Users : loginRejected(u)
    /\ UNCHANGED <<pmVars, mmVars, vfsVars, schedVars, diskVars>>

Login ==
    /\ \E u \in Users : login(u)
    /\ UNCHANGED <<pmVars, mmVars, vfsVars, schedVars, diskVars>>

(* Mutant of Logout: the automatic scheduler goes on.                      *)
LogoutOnly ==
    /\ logout
    /\ UNCHANGED <<pmVars, mmVars, vfsVars, schedVars, diskVars>>

Logout ==
    /\ logout
    /\ StopScheduler
    /\ UNCHANGED <<pmVars, mmVars, vfsVars, diskVars>>

-----------------------------------------------------------------------------
(* Processes.                                                              *)

(* create_pcb: memory is allocated first, for the PID that will be next,   *)
(* then the PCB is made.                                                   *)
CreatePcb ==
    /\ isLoggedIn
    /\ \E memKB \in Sizes, priority \in Priorities, totalTime \in TotalTimes,
          ppid \in Pids \cup {0}, start \in Starts :
          /\ allocateForProcess(currentUser, nextPid, memKB, start)
          /\ createProcess(currentUser, memKB, start, priority, totalTime, ppid)
    /\ UNCHANGED <<umVars, vfsVars, schedVars, diskVars>>

(* Mutant of CreatePcbRollback: the block freed is not merged again.       *)
CreatePcbRollbackSplit ==
    /\ isLoggedIn
    /\ \E memKB \in Sizes, ppid \in 1 .. MaxPid :
          /\ memKB > 0
          /\ ~ParentAllowed(currentUser, ppid)
          /\ \E b \in blocks :
                /\ findFreeBlock(blocks, algorithm, memKB, b)
                /\ blocks' = Placed(blocks, b, memKB, "FREE", 0, NoUser)
    /\ UNCHANGED <<algorithm, pmVars, umVars, vfsVars, schedVars, diskVars>>

(* create_pcb with a parent that the table refuses: the memory just        *)
(* allocated is given back.                                                *)
CreatePcbRollback ==
    /\ isLoggedIn
    /\ \E memKB \in Sizes, ppid \in 1 .. MaxPid :
          /\ memKB > 0
          /\ ~ParentAllowed(currentUser, ppid)
          /\ \E b \in blocks :
                LET B == Placed(blocks, b, memKB, "PROCESS", nextPid, currentUser)
                IN  /\ findFreeBlock(blocks, algorithm, memKB, b)
                    /\ blocks' = Released(B, ProcessBlocks(B, currentUser, {nextPid}))
    /\ UNCHANGED <<algorithm, pmVars, umVars, vfsVars, schedVars, diskVars>>

(* Mutant of KillPcb: only the memory of the root is freed.                *)
KillPcbFreeingRoot ==
    /\ isLoggedIn
    /\ \E pid \in Pids : /\ killProcess(currentUser, pid)
                         /\ freeByPids(currentUser, {pid})
    /\ UNCHANGED <<umVars, vfsVars, schedVars, diskVars>>

KillPcb ==
    /\ isLoggedIn
    /\ \E pid \in Pids : killProcess(currentUser, pid)
    /\ freeByPids(currentUser, Pids \ Pids')
    /\ UNCHANGED <<umVars, vfsVars, schedVars, diskVars>>

(* block_pcb, wakeup_pcb, suspend, resume and renice.                      *)
ProcessCommand ==
    /\ isLoggedIn
    /\ \E pid \in Pids :
          \/ blockProcess(currentUser, pid)
          \/ wakeupProcess(currentUser, pid)
          \/ suspendProcess(currentUser, pid)
          \/ resumeProcess(currentUser, pid)
          \/ \E newPriority \in Priorities :
                reniceProcess(currentUser, pid, newPriority)
    /\ UNCHANGED <<mmVars, umVars, vfsVars, schedVars, diskVars>>

SwapOut ==
    /\ isLoggedIn
    /\ \E pid \in Pids :
          /\ hasOwnedProcess(currentUser, pid) /\ ~pcbTable[pid].swappedOut
          /\ swapOutProcess(currentUser, pid)
          /\ markSwappedOut(currentUser, pid)
    /\ UNCHANGED <<umVars, vfsVars, schedVars, diskVars>>

-----------------------------------------------------------------------------
(* Memory.                                                                 *)

MemoryCommand ==
    /\ isLoggedIn
    /\ \/ \E sizeKB \in Sizes, start \in Starts :
             allocateManual(currentUser, sizeKB, start)
       \/ \E addr \in Starts : freeByAddress(currentUser, addr)
       \/ \E algo \in AllocAlgorithm : setAlgorithm(algo)
    /\ UNCHANGED <<pmVars, umVars, vfsVars, schedVars, diskVars>>

(* Mutant of Compact: the PCBs are not told.                               *)
CompactBlocksOnly ==
    /\ isLoggedIn
    /\ compact
    /\ UNCHANGED <<pmVars, umVars, vfsVars, schedVars, diskVars>>

(* compact moves everybody's blocks and tells the PCBs.                    *)
Compact ==
    /\ isLoggedIn
    /\ compact
    /\ updateMemoryStarts(pidNewStart(blocks))
    /\ UNCHANGED <<umVars, vfsVars, schedVars, diskVars>>

-----------------------------------------------------------------------------
(* Scheduling.                                                             *)

(* Scheduler::step, which frees the memory of the processes it removes.    *)
SchedulerStep(owner) ==
    /\ step(owner)
    /\ freeByPids(owner, Pids \ Pids')
    /\ UNCHANGED <<umVars, vfsVars, schedVars, diskVars>>

StepCommand == isLoggedIn /\ SchedulerStep(currentUser)

(* The scheduler thread, between two sleeps.                               *)
AutoStep ==
    /\ schedulerRunning /\ schedulerOwner # NoUser
    /\ SchedulerStep(schedulerOwner)

StartSched ==
    /\ isLoggedIn
    /\ ~schedulerRunning
    /\ schedulerRunning' = TRUE
    /\ schedulerOwner' = currentUser
    /\ UNCHANGED <<pmVars, mmVars, umVars, vfsVars, diskVars>>

(* stop_sched leaves schedulerOwner_ as it is.                             *)
StopSched ==
    /\ isLoggedIn
    /\ schedulerRunning
    /\ schedulerRunning' = FALSE
    /\ UNCHANGED <<schedulerOwner, pmVars, mmVars, umVars, vfsVars, diskVars>>

RestartSched ==
    /\ isLoggedIn
    /\ cleanupInvalidReadyQueueEntries
    /\ schedulerRunning' = TRUE
    /\ schedulerOwner' = currentUser
    /\ UNCHANGED <<mmVars, umVars, vfsVars, diskVars>>

-----------------------------------------------------------------------------
(* Files.                                                                  *)

VfsCommand ==
    /\ isLoggedIn
    /\ \E name \in FileNames :
          \/ createFile(currentUser, name)
          \/ \E content \in Contents : writeFile(currentUser, name, content)
          \/ deleteFile(currentUser, name)
    /\ UNCHANGED <<pmVars, mmVars, umVars, schedVars, diskVars>>

-----------------------------------------------------------------------------
(* Snapshots.  The file also records whether the scheduler was running and *)
(* for whom, which no load restores, and the memory size, which is fixed.  *)

exportSnapshot ==
    [users |-> users, nextPid |-> nextPid, pcbs |-> pcbTable,
     readyQueues |-> readyQueues, memoryBlocks |-> blocks,
     allocAlgorithm |-> algorithm, nextFileId |-> nextFileId,
     virtualFiles |-> files]

(* What Kernel::validateSnapshot demands of a snapshot.                    *)
validateSnapshot(s) ==
    LET pcbs == s.pcbs
        process == {b \in s.memoryBlocks : b.type = "PROCESS"}
        swapped(p) == pcbs[p].swappedOut \/ pcbs[p].state = "SWAPPED"
    IN  /\ \A p \in DOMAIN pcbs :
              /\ p # 0 /\ p < s.nextPid
              /\ pcbs[p].owner \in DOMAIN s.users
              /\ pcbs[p].ppid # p
              /\ isValidPriority(pcbs[p].priority)
              /\ pcbs[p].queueLevel \in Levels
              /\ pcbs[p].executedTime <= pcbs[p].totalTime
              /\ pcbs[p].remainingTime <= pcbs[p].totalTime
              /\ pcbs[p].ppid # 0 => pcbs[p].ppid \in DOMAIN pcbs
              /\ pcbs[p].children \subseteq DOMAIN pcbs
              /\ ~swapped(p) => \E b \in process : b.pid = p
        /\ \A b \in process :
              /\ b.pid \in DOMAIN pcbs
              /\ pcbs[b.pid].owner = b.owner
              /\ ~swapped(b.pid)
              /\ b.start = pcbs[b.pid].memStart /\ b.size = pcbs[b.pid].memSize
        /\ \A b, c \in process : b.pid = c.pid => b = c
        /\ \A b \in Allocated(s.memoryBlocks) : b.owner \in DOMAIN s.users
        /\ validateBlocks(Merged(s.memoryBlocks))

importSnapshot(s) ==
    /\ StopScheduler
    /\ importUsers(s.users)
    /\ importProcesses(s.pcbs, s.readyQueues, s.nextPid)
    /\ importMemory(s.memoryBlocks, s.allocAlgorithm)
    /\ importVfs(s.virtualFiles, s.nextFileId)

(* What SnapshotStore::load reads back: its readString refuses a string    *)
(* that writeString has written without a check.  The contents of files    *)
(* have no limit of their own (nor have process names, which are left out). *)
readable(s) == \A f \in s.virtualFiles : f.content \notin TooLong

LoadSucceeds ==
    /\ snapshotFile # NoFile
    /\ readable(snapshotFile)
    /\ validateSnapshot(snapshotFile)

Save ==
    /\ saves < MaxSaves
    /\ snapshotFile' = exportSnapshot
    /\ saves' = saves + 1
    /\ UNCHANGED <<pmVars, mmVars, umVars, vfsVars, schedVars>>

Load ==
    /\ LoadSucceeds
    /\ importSnapshot(snapshotFile)
    /\ UNCHANGED diskVars

(* A load that fails has stopped the automatic scheduler all the same.     *)
LoadRejected ==
    /\ ~LoadSucceeds
    /\ StopScheduler
    /\ UNCHANGED <<pmVars, mmVars, umVars, vfsVars, diskVars>>

(* Mutant of Restart: without a snapshot the processes are not reset.      *)
RestartKeepingTable ==
    /\ snapshotFile = NoFile
    /\ importMemory({FreeBlock(0, TotalMemoryKB)}, "FIRST_FIT")
    /\ importUsers([u \in {} |-> u])
    /\ importVfs({}, 1)
    /\ StopScheduler
    /\ UNCHANGED <<pmVars, diskVars>>

(* The program ends, by exit or by a crash, and is started again: a clean  *)
(* kernel, then the snapshot if there is one it accepts.                   *)
Restart ==
    /\ IF LoadSucceeds
       THEN importSnapshot(snapshotFile)
       ELSE /\ importProcesses([p \in {} |-> p], [l \in Levels |-> <<>>], 1)
            /\ importMemory({FreeBlock(0, TotalMemoryKB)}, "FIRST_FIT")
            /\ importUsers([u \in {} |-> u])
            /\ importVfs({}, 1)
            /\ StopScheduler
    /\ UNCHANGED diskVars

-----------------------------------------------------------------------------
KernelNext ==
    \/ Register \/ LoginRejected \/ Login \/ Logout
    \/ CreatePcb \/ CreatePcbRollback \/ KillPcb \/ ProcessCommand \/ SwapOut
    \/ MemoryCommand \/ Compact
    \/ StepCommand \/ AutoStep \/ StartSched \/ StopSched \/ RestartSched
    \/ VfsCommand
    \/ Save \/ Load \/ LoadRejected \/ Restart

KernelSpec == KernelInit /\ [][KernelNext]_kernelVars

(* The scheduler thread never stops looking at schedulerRunning_ while the *)
(* kernel is up, and waits for stateMutex_ only as long as one request or  *)
(* one step takes: an automatic step that stays possible is made.  Users   *)
(* need not do anything.                                                   *)
FairKernelSpec == KernelSpec /\ WF_kernelVars(AutoStep)

-----------------------------------------------------------------------------
(* What holds between two requests.                                        *)

(* A process that is not swapped out has exactly the block its PCB tells   *)
(* of, a swapped one has none, and every PROCESS block has its process:    *)
(* creation, its rollback, kills, completions and compactions change the   *)
(* two tables in step.                                                     *)
MemoryMatchesProcesses ==
    /\ \A p \in Pids : ~pcbTable[p].swappedOut =>
          {b \in blocks : b.type = "PROCESS" /\ b.pid = p} =
             {[start |-> pcbTable[p].memStart, size |-> pcbTable[p].memSize,
               type |-> "PROCESS", pid |-> p, owner |-> pcbTable[p].owner]}
    /\ \A b \in blocks : b.type = "PROCESS" =>
          b.pid \in Pids /\ ~pcbTable[b.pid].swappedOut

(* Whatever is owned is owned by an account that exists.                   *)
OwnersExist ==
    /\ \A p \in Pids : pcbTable[p].owner \in DOMAIN users
    /\ \A b \in Allocated(blocks) : b.owner \in DOMAIN users
    /\ \A f \in files : f.owner \in DOMAIN users

(* The automatic scheduler runs only for the user of the session.          *)
SchedulerServesSession ==
    schedulerRunning => isLoggedIn /\ schedulerOwner = currentUser

(* Whatever the kernel saves it can load again: the snapshot of every      *)
(* reachable state passes validateSnapshot.                                *)
SnapshotLoadable == validateSnapshot(exportSnapshot)

(* ... and loading it restores exactly the state that was saved: the       *)
(* repairs made on import (children rebuilt, queue entries dropped, free   *)
(* blocks merged, counters raised) find nothing to repair.                 *)
SnapshotFaithful ==
    /\ RebuiltChildren(pcbTable) = pcbTable
    /\ \A l \in Levels : ValidatedQueue(pcbTable, readyQueues[l], l) = readyQueues[l]
    /\ Merged(blocks) = blocks
    /\ nextPid >= 1 /\ nextFileId >= 1

-----------------------------------------------------------------------------
(* What a step may never do.                                               *)

(* Everything the kernel keeps for a user, addresses aside.                *)
DataOf(user) ==
    <<ViewOf(user),
      {[b EXCEPT !.start = 0] : b \in {c \in blocks : c.type = "PROCESS" /\ c.owner = user}},
      {f \in files : f.owner = user}>>

(* Nobody's requests, and no automatic step, touch the processes, process  *)
(* memory or files of another user than that of the session; only loading  *)
(* a snapshot replaces everybody's.                                        *)
UsersIsolated ==
    [][Load \/ Restart \/
       \A user \in Users \ {currentUser} : DataOf(user)' = DataOf(user)]_kernelVars

(* Loading, and starting again after an exit or a crash at any moment,      *)
(* bring back exactly the state of the last save: no check but that of the *)
(* string lengths turns it down, no repair alters it.                      *)
RecoversLastSave ==
    [][(Load \/ LoadRejected \/ Restart)
           /\ snapshotFile # NoFile /\ readable(snapshotFile)
           => exportSnapshot' = snapshotFile]_kernelVars

(* A creation that fails leaves the memory exactly as it was: splitting a  *)
(* free block and giving the piece back restores the block.                *)
RollbackRestores == [][CreatePcbRollback => UNCHANGED blocks]_kernelVars

-----------------------------------------------------------------------------
(* What must happen.                                                       *)

Scheduled(p) ==
    /\ schedulerRunning
    /\ hasOwnedProcess(schedulerOwner, p) /\ pcbTable[p].state = "READY"

(* While the automatic scheduler runs, a READY process of its user does    *)
(* not wait for ever: it completes, unless a command takes it or the       *)
(* scheduler away.  Demotions, renices, and processes that keep coming     *)
(* back with wakeup_pcb or resume cannot starve it; a stream of new        *)
(* processes without end could (there is no priority boost), and MaxPid    *)
(* excludes it.                                                            *)
ScheduledProcessesComplete == \A p \in 1 .. MaxPid : []<>~Scheduled(p)
=============================================================================
