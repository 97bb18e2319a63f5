--------------------------- MODULE ProcessManager ---------------------------
(***************************************************************************)
(* The process table of src/src/process/ProcessManager.cpp: the PCBs, the  *)
(* three MLFQ ready queues and the next PID.  Every public method runs     *)
(* under mutex_ from its first read to its return, so each is one action.  *)
(* A call that the code rejects changes nothing and is not an action.      *)
(*                                                                         *)
(* A PCB's name is left out (only messages read it), and its children are  *)
(* a set: the code sorts the vector wherever its order could matter.       *)
(***************************************************************************)
EXTENDS QueueOps, Owners

CONSTANT MaxPid     \* bound: no process is created past this PID

ASSUME PMAssumption == MaxPid \in Nat

VARIABLES pcbTable,     \* pcbTable_: PID -> PCB
          readyQueues,  \* readyQueues_: Q0, Q1, Q2, sequences of PIDs
          nextPid       \* nextPid_

pmVars == <<pcbTable, readyQueues, nextPid>>

Levels == 0 .. 2

ProcessState == {"NEW", "READY", "RUNNING", "BLOCKED", "SUSPENDED_READY",
                 "SUSPENDED_BLOCKED", "TERMINATED", "SWAPPED"}

PCB == [ppid : Nat, owner : Users, state : ProcessState,
        priority : 0 .. 15, queueLevel : Levels,
        totalTime : Nat, executedTime : Nat, remainingTime : Nat,
        timeSliceLeft : Nat, memStart : Nat, memSize : Nat,
        swappedOut : BOOLEAN, children : SUBSET Nat]

-----------------------------------------------------------------------------
(* Helpers.  P is a PCB table and Q the three queues.                      *)

Pids == DOMAIN pcbTable

isValidPriority(priority) == priority \in 0 .. 15

queueLevelForPriority(priority) ==
    IF priority <= 3 THEN 0 ELSE IF priority <= 7 THEN 1 ELSE 2

timeSliceForQueue(level) ==
    CASE level = 0 -> 2 [] level = 1 -> 4 [] OTHER -> 8

(* Mutant of hasOwnedProcess: any process will do.                         *)
hasProcess(owner, pid) == pid \in Pids

hasOwnedProcess(owner, pid) == pid \in Pids /\ pcbTable[pid].owner = owner

Schedulable(P, pid) ==
    /\ pid \in DOMAIN P
    /\ P[pid].state = "READY"
    /\ ~P[pid].swappedOut

removeFromReadyQueues(Q, S) == [l \in Levels |-> Erase(Q[l], S)]

enqueueReady(P, Q, pid) ==
    IF pid \in DOMAIN P /\ P[pid].state = "READY"
    THEN [removeFromReadyQueues(Q, {pid}) EXCEPT
             ![P[pid].queueLevel] = Append(@, pid)]
    ELSE Q

(* The entries cleanupInvalidReadyQueueEntries drops.                      *)
InvalidEntries(P, Q) ==
    {pid \in UNION {Range(Q[l]) : l \in Levels} : ~Schedulable(P, pid)}

(* collectSubtreeLocked: the least set of PIDs that holds pid and the      *)
(* children, owned by owner, of each of its members.                       *)
ClosedUnderChildren(P, owner, S) ==
    \A p \in S : \A c \in P[p].children :
        c \in DOMAIN P /\ P[c].owner = owner => c \in S

(* Mutant of Subtree: grandchildren are left behind.                       *)
SubtreeOneLevel(P, owner, pid) == {pid} \cup P[pid].children

Subtree(P, owner, pid) ==
    {p \in DOMAIN P : \A S \in SUBSET DOMAIN P :
        pid \in S /\ ClosedUnderChildren(P, owner, S) => p \in S}

WithoutSubtree(P, removed) ==
    [p \in DOMAIN P \ removed |->
        [P[p] EXCEPT !.children = @ \ removed]]

-----------------------------------------------------------------------------
(* The operations.                                                         *)

PMInit ==
    /\ pcbTable = [p \in {} |-> p]
    /\ readyQueues = [l \in Levels |-> <<>>]
    /\ nextPid = 1

NewPCB(owner, memKB, memStart, priority, totalTime, ppid) ==
    LET level == queueLevelForPriority(priority)
    IN  [ppid |-> ppid, owner |-> owner, state |-> "READY",
         priority |-> priority, queueLevel |-> level,
         totalTime |-> totalTime, executedTime |-> 0,
         remainingTime |-> totalTime,
         timeSliceLeft |-> timeSliceForQueue(level),
         memStart |-> memStart, memSize |-> memKB,
         swappedOut |-> FALSE, children |-> {}]

(* Mutant of WithProcess: the parent does not learn of its child.          *)
WithUnlistedProcess(P, pid, pcb) ==
    [p \in DOMAIN P \cup {pid} |-> IF p = pid THEN pcb ELSE P[p]]

(* The table with a new PCB, listed as a child of its parent.              *)
WithProcess(P, pid, pcb) ==
    [p \in DOMAIN P \cup {pid} |->
        IF p = pid THEN pcb
        ELSE IF p = pcb.ppid THEN [P[p] EXCEPT !.children = @ \cup {pid}]
        ELSE P[p]]

ParentAllowed(owner, ppid) == ppid # 0 => hasOwnedProcess(owner, ppid)

(* Mutant of createProcess: the next PID is one past the table's size.     *)
createProcessCounting(owner, memKB, memStart, priority, totalTime, ppid) ==
    /\ memKB > 0 /\ totalTime > 0
    /\ isValidPriority(priority)
    /\ ParentAllowed(owner, ppid)
    /\ nextPid <= MaxPid
    /\ pcbTable' = WithProcess(pcbTable, nextPid,
                       NewPCB(owner, memKB, memStart, priority, totalTime, ppid))
    /\ readyQueues' = enqueueReady(pcbTable', readyQueues, nextPid)
    /\ nextPid' = Cardinality(Pids) + 2

createProcess(owner, memKB, memStart, priority, totalTime, ppid) ==
    /\ memKB > 0 /\ totalTime > 0
    /\ isValidPriority(priority)
    /\ ParentAllowed(owner, ppid)
    /\ nextPid <= MaxPid
    /\ pcbTable' = WithProcess(pcbTable, nextPid,
                       NewPCB(owner, memKB, memStart, priority, totalTime, ppid))
    /\ readyQueues' = enqueueReady(pcbTable', readyQueues, nextPid)
    /\ nextPid' = nextPid + 1

killProcess(owner, pid) ==
    /\ hasOwnedProcess(owner, pid)
    /\ LET removed == Subtree(pcbTable, owner, pid)
       IN  /\ pcbTable' = WithoutSubtree(pcbTable, removed)
           /\ readyQueues' = removeFromReadyQueues(readyQueues, removed)
    /\ UNCHANGED nextPid

(* Mutant of blockProcess: the queue entry stays.                          *)
blockProcessQueued(owner, pid) ==
    /\ hasOwnedProcess(owner, pid)
    /\ pcbTable[pid].state \in {"READY", "RUNNING"}
    /\ pcbTable' = [pcbTable EXCEPT ![pid].state = "BLOCKED"]
    /\ UNCHANGED <<readyQueues, nextPid>>

blockProcess(owner, pid) ==
    /\ hasOwnedProcess(owner, pid)
    /\ pcbTable[pid].state \in {"READY", "RUNNING"}
    /\ pcbTable' = [pcbTable EXCEPT ![pid].state = "BLOCKED"]
    /\ readyQueues' = removeFromReadyQueues(readyQueues, {pid})
    /\ UNCHANGED nextPid

wakeupProcess(owner, pid) ==
    /\ hasOwnedProcess(owner, pid)
    /\ pcbTable[pid].state = "BLOCKED"
    /\ pcbTable' = [pcbTable EXCEPT ![pid].state = "READY"]
    /\ readyQueues' = enqueueReady(pcbTable', readyQueues, pid)
    /\ UNCHANGED nextPid

suspendProcess(owner, pid) ==
    /\ hasOwnedProcess(owner, pid)
    /\ \/ /\ pcbTable[pid].state \in {"READY", "RUNNING"}
          /\ pcbTable' = [pcbTable EXCEPT ![pid].state = "SUSPENDED_READY"]
          /\ readyQueues' = removeFromReadyQueues(readyQueues, {pid})
       \/ /\ pcbTable[pid].state = "BLOCKED"
          /\ pcbTable' = [pcbTable EXCEPT ![pid].state = "SUSPENDED_BLOCKED"]
          /\ UNCHANGED readyQueues
    /\ UNCHANGED nextPid

resumeProcess(owner, pid) ==
    /\ hasOwnedProcess(owner, pid)
    /\ \/ /\ pcbTable[pid].state = "SUSPENDED_READY"
          /\ pcbTable' = [pcbTable EXCEPT ![pid].state = "READY"]
          /\ readyQueues' = enqueueReady(pcbTable', readyQueues, pid)
       \/ /\ pcbTable[pid].state = "SUSPENDED_BLOCKED"
          /\ pcbTable' = [pcbTable EXCEPT ![pid].state = "BLOCKED"]
          /\ UNCHANGED readyQueues
    /\ UNCHANGED nextPid

(* Mutant of reniceProcess: the time slice of the old queue is kept.       *)
reniceKeepingSlice(owner, pid, newPriority) ==
    /\ isValidPriority(newPriority)
    /\ hasOwnedProcess(owner, pid)
    /\ pcbTable' = [pcbTable EXCEPT
          ![pid].priority = newPriority,
          ![pid].queueLevel = queueLevelForPriority(newPriority)]
    /\ readyQueues' = enqueueReady(pcbTable', readyQueues, pid)
    /\ UNCHANGED nextPid

reniceProcess(owner, pid, newPriority) ==
    /\ isValidPriority(newPriority)
    /\ hasOwnedProcess(owner, pid)
    /\ LET level == queueLevelForPriority(newPriority)
       IN  pcbTable' = [pcbTable EXCEPT
               ![pid].priority = newPriority,
               ![pid].queueLevel = level,
               ![pid].timeSliceLeft = timeSliceForQueue(level)]
    /\ readyQueues' = enqueueReady(pcbTable', readyQueues, pid)
    /\ UNCHANGED nextPid

markSwappedOut(owner, pid) ==
    /\ hasOwnedProcess(owner, pid)
    /\ ~pcbTable[pid].swappedOut /\ pcbTable[pid].state # "SWAPPED"
    /\ pcbTable' = [pcbTable EXCEPT ![pid].swappedOut = TRUE,
                                    ![pid].memStart = 0,
                                    ![pid].state = "SWAPPED"]
    /\ readyQueues' = removeFromReadyQueues(readyQueues, {pid})
    /\ UNCHANGED nextPid

(* restart_sched calls this outside a scheduler step.                      *)
cleanupInvalidReadyQueueEntries ==
    /\ readyQueues' = removeFromReadyQueues(readyQueues,
                          InvalidEntries(pcbTable, readyQueues))
    /\ UNCHANGED <<pcbTable, nextPid>>

(* updateProcessMemoryStart for every PID a compaction reports.            *)
updateMemoryStarts(newStart) ==
    /\ pcbTable' = [p \in Pids |->
           IF p \in DOMAIN newStart
           THEN [pcbTable[p] EXCEPT !.memStart = newStart[p]]
           ELSE pcbTable[p]]
    /\ UNCHANGED <<readyQueues, nextPid>>

-----------------------------------------------------------------------------
(* Loading a snapshot: importPcbs, importNextPid, importReadyQueues,       *)
(* rebuildParentChildRelationsIfNeeded and validateReadyQueues, in the     *)
(* order Kernel::importSnapshotLocked calls them.                          *)

RebuiltChildren(P) ==
    [p \in DOMAIN P |->
        [P[p] EXCEPT !.children =
            {c \in DOMAIN P : P[c].ppid = p /\ p # 0 /\ P[c].owner = P[p].owner}]]

(* Queue l without entries that are not schedulable, are on the wrong      *)
(* level, or repeat an earlier one.                                        *)
ValidatedQueue(P, q, l) ==
    KeepAt(q, {i \in DOMAIN q :
                  /\ Schedulable(P, q[i])
                  /\ P[q[i]].queueLevel = l
                  /\ \A j \in DOMAIN q : q[j] = q[i] => i <= j})

importProcesses(P, Q, next) ==
    /\ pcbTable' = RebuiltChildren(P)
    /\ readyQueues' = [l \in Levels |-> ValidatedQueue(P, Q[l], l)]
    /\ nextPid' = IF next < 1 THEN 1 ELSE next

-----------------------------------------------------------------------------
(* What holds of the table between two calls.                              *)

(* All that a user can tell of the process table: the own PCBs, wherever   *)
(* they are in memory, and the own entries of the ready queues, in order.  *)
ViewOf(user) ==
    LET own == {p \in Pids : pcbTable[p].owner = user}
    IN  <<[p \in own |-> [pcbTable[p] EXCEPT !.memStart = 0]],
          [l \in Levels |-> Erase(readyQueues[l], Range(readyQueues[l]) \ own)]>>

PMTypeOK ==
    /\ Pids \subseteq Nat \ {0}
    /\ pcbTable \in [Pids -> PCB]
    /\ readyQueues \in [Levels -> Seq(Nat)]
    /\ nextPid \in Nat \ {0}

(* The PID of a process is not issued again: all PIDs in use are below the *)
(* next one.                                                               *)
PidsBelowNext == \A p \in Pids : p < nextPid

(* The ready queues hold exactly the READY processes, each once and on the *)
(* queue of its level: an entry without a READY PCB would be scheduled     *)
(* dead, a READY process without an entry would never run again.           *)
QueuesMatchStates ==
    /\ \A l \in Levels :
          /\ IsInjective(readyQueues[l])
          /\ \A pid \in Range(readyQueues[l]) :
                Schedulable(pcbTable, pid) /\ pcbTable[pid].queueLevel = l
    /\ \A pid \in Pids : pcbTable[pid].state = "READY" =>
          pid \in Range(readyQueues[pcbTable[pid].queueLevel])

(* children and ppid are inverse relations, parents are older than their   *)
(* children (so the process tree has no cycle) and belong to the same      *)
(* user: killing a subtree leaves no orphan and no dangling child.         *)
TreeConsistent ==
    /\ \A p \in Pids : \A c \in pcbTable[p].children :
          c \in Pids /\ pcbTable[c].ppid = p
    /\ \A c \in Pids : LET p == pcbTable[c].ppid
                       IN  p # 0 => /\ p \in Pids /\ p < c
                                    /\ pcbTable[p].owner = pcbTable[c].owner
                                    /\ c \in pcbTable[p].children

(* Between calls nothing is NEW, RUNNING or TERMINATED, and a PCB is       *)
(* flagged as swapped out exactly when its state says so.                  *)
StatesConsistent ==
    \A p \in Pids :
        /\ pcbTable[p].state \notin {"NEW", "RUNNING", "TERMINATED"}
        /\ pcbTable[p].swappedOut <=> pcbTable[p].state = "SWAPPED"

(* The run-time counters add up, no finished process is kept, and the time *)
(* slice is the full one of the process's queue, which is never a better   *)
(* queue than its priority pays for.                                       *)
RuntimeConsistent ==
    \A p \in Pids : LET pcb == pcbTable[p] IN
        /\ pcb.executedTime + pcb.remainingTime = pcb.totalTime
        /\ pcb.remainingTime > 0
        /\ pcb.timeSliceLeft = timeSliceForQueue(pcb.queueLevel)
        /\ pcb.queueLevel >= queueLevelForPriority(pcb.priority)

(* What a PCB says of its process fits together.                           *)
PcbsConsistent == StatesConsistent /\ RuntimeConsistent
=============================================================================
