---------------------------- MODULE ProcessTable ----------------------------
(***************************************************************************)
(* The process table under every call the kernel makes on it: the process  *)
(* commands of any user, the scheduler's steps for any user, and the       *)
(* address updates of a compaction.  Memory is reduced to the addresses it *)
(* hands out; Kernel composes the table with the memory manager.           *)
(***************************************************************************)
EXTENDS Scheduler

CONSTANTS Priorities,   \* the priorities users ask for, valid or not
          TotalTimes,   \* the run times users ask for
          Sizes,        \* the memory sizes users ask for
          TableStarts   \* the addresses the memory manager hands out

ASSUME TableAssumption ==
    /\ Priorities \subseteq Int
    /\ TotalTimes \subseteq Nat
    /\ Sizes \subseteq Nat
    /\ TableStarts \subseteq Nat

TableCreate(owner) ==
    \E memKB \in Sizes, start \in TableStarts, priority \in Priorities,
       totalTime \in TotalTimes, ppid \in Pids \cup {0} :
        createProcess(owner, memKB, start, priority, totalTime, ppid)

TableCommand(owner, pid) ==
    \/ killProcess(owner, pid)
    \/ blockProcess(owner, pid)
    \/ wakeupProcess(owner, pid)
    \/ suspendProcess(owner, pid)
    \/ resumeProcess(owner, pid)
    \/ markSwappedOut(owner, pid)
    \/ \E newPriority \in Priorities : reniceProcess(owner, pid, newPriority)

TableCompact ==
    \E newStart \in [{p \in Pids : ~pcbTable[p].swappedOut} -> TableStarts] :
        updateMemoryStarts(newStart)

TableNext ==
    \/ \E owner \in Users : TableCreate(owner)
    \/ \E owner \in Users, pid \in Pids : TableCommand(owner, pid)
    \/ \E owner \in Users : step(owner)
    \/ cleanupInvalidReadyQueueEntries
    \/ TableCompact

TableSpec == PMInit /\ [][TableNext]_pmVars

-----------------------------------------------------------------------------
(* What a step may never do.                                               *)

(* No command and no scheduler step changes the processes of two users, or *)
(* the order in which another user's processes wait: the selection skips   *)
(* the entries of others without losing or reordering them.                *)
OneUserPerStep ==
    [][\E user \in Users : \A other \in Users \ {user} :
           ViewOf(other)' = ViewOf(other)]_pmVars

Waiting(p, q) == \E l \in Levels : \E i, j \in DOMAIN readyQueues[l] :
                     i < j /\ readyQueues[l][i] = p /\ readyQueues[l][j] = q

(* The process p runs in this step: its run time changes, or a scheduler   *)
(* step completes it.  What completes is removed with its subtree, so it   *)
(* is the removed process whose parent stays.                              *)
Completes(p) ==
    /\ p \notin Pids'
    /\ pcbTable[p].ppid \notin Pids \ Pids'
    /\ \E owner \in Users : step(owner)

Continues(p) == p \in Pids' /\ pcbTable'[p].executedTime # pcbTable[p].executedTime

(* Every other READY process of its owner is on a worse queue or waits     *)
(* behind it on the same queue.                                            *)
FirstInLine(p) ==
    \A q \in Pids \ {p} :
        pcbTable[q].owner = pcbTable[p].owner /\ pcbTable[q].state = "READY"
        => pcbTable[q].queueLevel > pcbTable[p].queueLevel \/ Waiting(p, q)

InTurn(p) ==
    LET slice == timeSliceForQueue(pcbTable[p].queueLevel)
    IN  /\ Completes(p) => FirstInLine(p) /\ pcbTable[p].remainingTime <= slice
        /\ Continues(p) =>
              /\ FirstInLine(p)
              /\ pcbTable'[p].executedTime = pcbTable[p].executedTime + slice

(* A process gets the CPU only in its turn, whatever entries of other      *)
(* users stand before it.  That holds for the run that completes it too,   *)
(* which takes no more than a quantum; any other run takes a whole one.    *)
RunsInTurn == [][\A p \in Pids : InTurn(p)]_pmVars
=============================================================================
