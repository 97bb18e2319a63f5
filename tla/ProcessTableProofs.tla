------------------------- MODULE ProcessTableProofs -------------------------
(***************************************************************************)
(* The invariants of the process table hold for every number of users and  *)
(* processes, every priority and every run time, a process gets the CPU    *)
(* only in its turn, and the trees a user is shown agree with the table.   *)
(***************************************************************************)
EXTENDS ProcessTable, ProcessViews, ProcessManagerProofs, SequenceTheorems

(* Every step of the table preserves the invariants.                       *)
LEMMA NextPreserves == PMInv /\ [TableNext]_pmVars => PMInv'
<1> SUFFICES ASSUME PMInv, [TableNext]_pmVars PROVE PMInv'
  OBVIOUS
<1>1. ASSUME NEW owner \in Users, TableCreate(owner) PROVE PMInv'
  BY <1>1, CreatePreserves, TableAssumption DEF TableCreate
<1>2. ASSUME NEW owner \in Users, NEW pid \in Pids, TableCommand(owner, pid)
      PROVE  PMInv'
  <2>1. CASE killProcess(owner, pid)
    BY <2>1, KillPreserves
  <2>2. CASE \/ blockProcess(owner, pid) \/ wakeupProcess(owner, pid)
             \/ suspendProcess(owner, pid) \/ resumeProcess(owner, pid)
    BY <2>2, StateChangePreserves
  <2>3. CASE markSwappedOut(owner, pid)
    BY <2>3, SwapOutPreserves
  <2>4. CASE \E newPriority \in Priorities : reniceProcess(owner, pid, newPriority)
    BY <2>4, RenicePreserves
  <2> QED BY <1>2, <2>1, <2>2, <2>3, <2>4 DEF TableCommand
<1>3. ASSUME NEW owner \in Users, step(owner) PROVE PMInv'
  BY <1>3, StepPreserves
<1>4. CASE cleanupInvalidReadyQueueEntries
  BY <1>4, CleanupPreserves
<1>5. CASE TableCompact
  BY <1>5, MemoryStartsPreserve, TableAssumption DEF TableCompact
<1>6. CASE UNCHANGED pmVars
  <2>1. (PMInv' <=> PMInv)
    BY <1>6, InvIsTableOK, InvIsTableOKNext DEF pmVars
  <2> QED BY <2>1
<1> QED BY <1>1, <1>2, <1>3, <1>4, <1>5, <1>6 DEF TableNext

(* All invariants of the process table hold in every reachable state.      *)
THEOREM TableInvariant == TableSpec => []PMInv
<1>1. PMInit => PMInv
  BY InitEstablishes
<1>2. PMInv /\ [TableNext]_pmVars => PMInv'
  BY NextPreserves
<1> QED BY <1>1, <1>2, PTL DEF TableSpec

(* The table is well typed.                                                *)
THEOREM TypeCorrect == TableSpec => []PMTypeOK
<1>1. PMInv => PMTypeOK
  BY DEF PMInv
<1> QED BY <1>1, TableInvariant, PTL

(* The ready queues hold exactly the READY processes, each once and on the *)
(* queue of its level.                                                     *)
THEOREM QueuesCorrect == TableSpec => []QueuesMatchStates
<1>1. PMInv => QueuesMatchStates
  BY DEF PMInv
<1> QED BY <1>1, TableInvariant, PTL

(* The parents and children of the PCBs form a forest, user by user.       *)
THEOREM TreeCorrect == TableSpec => []TreeConsistent
<1>1. PMInv => TreeConsistent
  BY DEF PMInv
<1> QED BY <1>1, TableInvariant, PTL

(* Every PID in use is below the next one, so a new process takes no PID   *)
(* of another.                                                             *)
THEOREM PidsFresh == TableSpec => []PidsBelowNext
<1>1. PMInv => PidsBelowNext
  BY DEF PMInv
<1> QED BY <1>1, TableInvariant, PTL

(* No PCB is left in a state that exists only within one call, the swap    *)
(* flag and the swapped state agree, and so do the run-time counters, time *)
(* slices and levels.                                                      *)
THEOREM PcbsCorrect == TableSpec => []PcbsConsistent
<1>1. PMInv => PcbsConsistent
  BY DEF PMInv, PcbsConsistent
<1> QED BY <1>1, TableInvariant, PTL

-----------------------------------------------------------------------------
(* What a step may never do.                                               *)

(* A step of the table for one user leaves the view of every other.        *)
LEMMA OneUserServed ==
    ASSUME PMInv, TableNext, ~UNCHANGED pmVars
    PROVE  \E user \in Users : \A other \in Users \ {user} :
               ViewOf(other)' = ViewOf(other)
<1>1. ASSUME NEW user \in Users, LeavesOthers(user)
      PROVE  \A other \in Users \ {user} : ViewOf(other)' = ViewOf(other)
  BY <1>1, OthersView
<1>2. ASSUME NEW owner \in Users, TableCreate(owner) PROVE LeavesOthers(owner)
  BY <1>2, CreateLeavesOthers DEF TableCreate
<1>3. ASSUME NEW owner \in Users, NEW pid \in Pids, TableCommand(owner, pid)
      PROVE  LeavesOthers(owner)
  BY <1>3, CommandLeavesOthers DEF TableCommand
<1>4. ASSUME NEW owner \in Users, step(owner) PROVE LeavesOthers(owner)
  BY <1>4, StepLeavesOthers
<1>5. ~cleanupInvalidReadyQueueEntries
  <2>1. cleanupInvalidReadyQueueEntries => readyQueues' = CleanedQueues
    BY DEF cleanupInvalidReadyQueueEntries, CleanedQueues
  <2> QED
    BY <2>1, CleanedSame DEF cleanupInvalidReadyQueueEntries, pmVars
<1>6. CASE TableCompact
  <2>1. PICK newStart : updateMemoryStarts(newStart)
    BY <1>6 DEF TableCompact
  <2>2. \A other \in Users : ViewOf(other)' = ViewOf(other)
    BY <2>1, MemoryStartView
  <2>3. Pids # {}
    <3>1. pcbTable' # pcbTable
      BY <2>1 DEF updateMemoryStarts, pmVars
    <3>2. Pids = {} => pcbTable' = pcbTable
      BY <2>1 DEF updateMemoryStarts, PMInv, PMTypeOK
    <3> QED
      BY <3>1, <3>2
  <2>4. PICK p \in Pids : pcbTable[p].owner \in Users
    BY <2>3 DEF PMInv, PMTypeOK, PCB
  <2> QED
    BY <2>2, <2>4
<1> QED
  BY <1>1, <1>2, <1>3, <1>4, <1>5, <1>6 DEF TableNext

(* A command, a scheduler step, a cleanup or a compaction changes what one *)
(* user sees of the process table and nothing of what another user sees:   *)
(* neither the PCBs nor the order in which the processes wait.             *)
THEOREM OneUserAtATime == TableSpec => OneUserPerStep
<1>1. PMInv /\ [TableNext]_pmVars =>
          [\E user \in Users : \A other \in Users \ {user} :
              ViewOf(other)' = ViewOf(other)]_pmVars
  BY OneUserServed
<1> QED
  BY <1>1, TableInvariant, PTL DEF TableSpec, OneUserPerStep

-----------------------------------------------------------------------------
(* The scheduler's choice.                                                 *)

TimesKept == \A p \in Pids \cap Pids' :
                 pcbTable'[p].executedTime = pcbTable[p].executedTime

LEMMA ReplacementTimes ==
    ASSUME NEW owner, NEW pid, NEW r, Replaces(owner, pid, r),
           r.executedTime = pcbTable[pid].executedTime
    PROVE  TimesKept
BY DEF Replaces, TimesKept, Pids

LEMMA CommandTimes ==
    ASSUME PMInv, NEW owner, NEW pid, TableCommand(owner, pid) PROVE TimesKept
<1>1. CASE killProcess(owner, pid)
  BY <1>1, KillEffect DEF Removes, TimesKept
<1>2. CASE markSwappedOut(owner, pid)
  BY <1>2, SwapOutEffect, ReplacementTimes
<1>3. CASE \/ blockProcess(owner, pid) \/ wakeupProcess(owner, pid)
           \/ suspendProcess(owner, pid) \/ resumeProcess(owner, pid)
           \/ \E newPriority : reniceProcess(owner, pid, newPriority)
  BY <1>3, CommandEffect, ReplacementTimes
<1> QED
  BY <1>1, <1>2, <1>3 DEF TableCommand

LEMMA SelectedInTurn ==
    ASSUME PMInv, NEW owner, NEW l \in Levels, NEW i \in DOMAIN readyQueues[l],
           CleanedQueues = readyQueues, Selects(owner, l, i),
           NEW q \in Pids \ {readyQueues[l][i]}, pcbTable[q].owner = owner,
           pcbTable[q].state = "READY"
    PROVE  \/ pcbTable[q].queueLevel > l
           \/ Waiting(readyQueues[l][i], q)
<1> DEFINE m == pcbTable[q].queueLevel
<1>1. m \in Levels /\ q \in Range(readyQueues[m])
  BY DEF PMInv, PMTypeOK, PCB, QueuesMatchStates
<1>2. readyQueues[l] \in Seq(Nat) /\ readyQueues[m] \in Seq(Nat)
  BY <1>1 DEF PMInv, PMTypeOK
<1> HIDE DEF m
<1>3. PICK j \in DOMAIN readyQueues[m] : readyQueues[m][j] = q
  BY <1>1 DEF Range
<1>4. ~(m < l)
  BY <1>1 DEF Selects, Levels
<1>5. CASE m = l
  <2>1. i \in Int /\ j \in Int /\ i >= 1 /\ j >= 1
    BY <1>2, <1>3
  <2>2. ~(j < i)
    BY <1>3, <1>5, <2>1 DEF Selects
  <2>3. i # j
    BY <1>3, <1>5
  <2>4. i < j
    BY <2>1, <2>2, <2>3
  <2> QED
    BY <1>3, <1>5, <2>4 DEF Waiting
<1> QED
  BY <1>1, <1>4, <1>5 DEF m, Levels

(* What completes is the process whose parent, if any, stays.              *)
LEMMA SubtreeRoot ==
    ASSUME PMInv, NEW owner, NEW pid \in Pids, pcbTable[pid].owner = owner,
           NEW p \in Subtree(pcbTable, owner, pid),
           pcbTable[p].ppid \notin Subtree(pcbTable, owner, pid)
    PROVE  p = pid
<1> SUFFICES ASSUME p # pid PROVE FALSE
  OBVIOUS
<1> DEFINE T == Subtree(pcbTable, owner, pid)
           S == T \ {p}
<1>1. /\ T \subseteq Pids /\ pid \in T
      /\ \A q \in T : \A c \in pcbTable[q].children :
            c \in Pids /\ pcbTable[c].owner = owner => c \in T
  BY SubtreeFacts DEF Pids
<1> HIDE DEF T
<1>2. \A q \in S : \A c \in pcbTable[q].children : c # p
  BY <1>1 DEF PMInv, TreeConsistent, T
<1>3. ClosedUnderChildren(pcbTable, owner, S)
  BY <1>1, <1>2 DEF ClosedUnderChildren, Pids
<1>4. S \in SUBSET Pids /\ pid \in S
  BY <1>1
<1> QED
  BY <1>3, <1>4 DEF Subtree, Pids

(* The process a step runs, be it that it completes or goes on.            *)
LEMMA StepInTurn ==
    ASSUME PMInv, NEW owner, step(owner), NEW p \in Pids,
           \/ p \notin Pids' /\ pcbTable[p].ppid \notin Pids \ Pids'
           \/ Continues(p)
    PROVE  LET slice == timeSliceForQueue(pcbTable[p].queueLevel)
           IN  /\ FirstInLine(p)
               /\ p \notin Pids' => pcbTable[p].remainingTime <= slice
               /\ p \in Pids' => pcbTable'[p].executedTime
                                     = pcbTable[p].executedTime + slice
<1>1. CleanedQueues = readyQueues
  BY CleanedSame
<1>2. ~StepIdle(owner)
  BY DEF StepIdle, Continues, Pids
<1> PICK l \in Levels : \E i \in DOMAIN readyQueues[l] :
          /\ Selects(owner, l, i)
          /\ \/ StepFinish(owner, readyQueues[l][i])
             \/ StepRequeue(owner, readyQueues[l][i])
  BY <1>1, <1>2 DEF step
<1>3. PICK i \in DOMAIN readyQueues[l] :
          /\ Selects(owner, l, i)
          /\ \/ StepFinish(owner, readyQueues[l][i])
             \/ StepRequeue(owner, readyQueues[l][i])
  OBVIOUS
<1> DEFINE pid == readyQueues[l][i]
<1>4. /\ pid \in Pids /\ pcbTable[pid].state = "READY"
      /\ pcbTable[pid].owner = owner /\ pcbTable[pid].queueLevel = l
  <2>1. pid \in Range(readyQueues[l])
    BY DEF Range
  <2> QED
    BY <1>1, <1>3, <2>1 DEF Selects, PMInv, QueuesMatchStates, Schedulable, Pids
<1>5. ASSUME NEW q \in Pids \ {pid}, pcbTable[q].owner = owner,
             pcbTable[q].state = "READY"
      PROVE  pcbTable[q].queueLevel > l \/ Waiting(pid, q)
  BY <1>1, <1>3, <1>5, SelectedInTurn
<1>6. StepFinish(owner, pid) \/ StepRequeue(owner, pid)
  BY <1>3
<1> HIDE DEF pid
<1>7. FirstInLine(pid)
  BY <1>4, <1>5 DEF FirstInLine
<1>8. PcbOK(pcbTable[pid])
  BY <1>4, InvIsTableOK DEF TableOK, PcbsOK, Pids
<1>9. quantumForQueue(l) = timeSliceForQueue(l)
  BY DEF quantumForQueue, timeSliceForQueue
<1>10. CASE StepFinish(owner, pid)
  <2> DEFINE removed == Subtree(pcbTable, owner, pid)
  <2>1. Removes(owner, removed)
    BY <1>4, <1>10, RemovalEffect DEF StepFinish
  <2>2. p \notin Pids' /\ pcbTable[p].ppid \notin Pids \ Pids'
    BY <2>1 DEF Removes, Continues
  <2>3. p \in removed /\ pcbTable[p].ppid \notin removed
    BY <2>1, <2>2 DEF Removes
  <2>4. p = pid
    BY <1>4, <2>3, SubtreeRoot
  <2>5. pcbTable[pid].remainingTime <= quantumForQueue(l)
    <3>1. /\ pcbTable[pid].remainingTime \in Nat
          /\ quantumForQueue(l) \in Nat
      BY <1>8 DEF PcbOK, PCB, quantumForQueue
    <3>2. pcbTable[pid].remainingTime - TicksRun(pcbTable[pid], quantumForQueue(l)) = 0
      BY <1>4, <1>8, <1>10, AfterRunFacts DEF StepFinish
    <3> QED
      BY <3>1, <3>2 DEF TicksRun
  <2> QED
    BY <1>4, <1>7, <1>9, <2>2, <2>4, <2>5
<1>11. CASE StepRequeue(owner, pid)
  <2>1. /\ AfterRun(pcbTable[pid]).remainingTime > 0
        /\ pcbTable' = [pcbTable EXCEPT ![pid] = Requeued(pcbTable[pid])]
    BY <1>11 DEF StepRequeue
  <2>2. Pids' = Pids
    BY <2>1 DEF Pids
  <2>3. p = pid
    BY <2>1, <2>2 DEF Pids, Continues
  <2>4. Requeued(pcbTable[pid]).executedTime
            = pcbTable[pid].executedTime + quantumForQueue(l)
    BY <1>4, <1>8, <2>1, RequeuedFacts
  <2>5. pcbTable'[pid].executedTime = pcbTable[pid].executedTime + quantumForQueue(l)
    BY <1>4, <2>1, <2>4 DEF Pids
  <2> QED
    BY <1>4, <1>7, <1>9, <2>2, <2>3, <2>5
<1> QED
  BY <1>6, <1>10, <1>11

(* A run time changes only when the process runs.                          *)
LEMMA NextInTurn ==
    ASSUME PMInv, TableNext, NEW p \in Pids PROVE InTurn(p)
<1>1. ASSUME NEW owner \in Users, TableCreate(owner) PROVE TimesKept
  BY <1>1, CreateEffect DEF TableCreate, TimesKept
<1>2. ASSUME NEW owner \in Users, NEW pid \in Pids, TableCommand(owner, pid)
      PROVE  TimesKept
  BY <1>2, CommandTimes
<1>3. ASSUME cleanupInvalidReadyQueueEntries PROVE TimesKept
  BY <1>3 DEF cleanupInvalidReadyQueueEntries, TimesKept
<1>4. ASSUME TableCompact PROVE TimesKept
  BY <1>4, MemoryStartEffect DEF TableCompact, TimesKept
<1>5. Continues(p) => \E owner \in Users : step(owner)
  BY <1>1, <1>2, <1>3, <1>4 DEF TableNext, TimesKept, Continues
<1>6. CASE Completes(p)
  <2>1. PICK owner \in Users : step(owner)
    BY <1>6 DEF Completes
  <2> QED
    BY <1>6, <2>1, StepInTurn DEF InTurn, Completes, Continues
<1>7. CASE Continues(p)
  <2>1. PICK owner \in Users : step(owner)
    BY <1>5, <1>7
  <2> QED
    BY <1>7, <2>1, StepInTurn DEF InTurn, Completes, Continues
<1> QED
  BY <1>6, <1>7 DEF InTurn

(* A process gets the CPU, for the run that completes it or for another,   *)
(* only when no READY process of its owner is on a better queue or waits   *)
(* before it.  It completes only when a quantum is all it still needs, and *)
(* otherwise runs a whole one.                                             *)
THEOREM CpuInTurn == TableSpec => RunsInTurn
<1>1. PMInv /\ [TableNext]_pmVars => [\A p \in Pids : InTurn(p)]_pmVars
  BY NextInTurn
<1> QED
  BY <1>1, TableInvariant, PTL DEF TableSpec, RunsInTurn

-----------------------------------------------------------------------------
(* The trees.                                                              *)

(* The nodes made of a finite set of PIDs: each of them once, ascending.   *)
LEMMA NodesFacts ==
    ASSUME NEW S \in SUBSET Int, IsFiniteSet(S), NEW d
    PROVE  /\ Cardinality(S) \in Nat
           /\ Nodes(S, d) = [k \in 1 .. Cardinality(S) |-> Nodes(S, d)[k]]
           /\ \A k \in 1 .. Cardinality(S) :
                  /\ Nodes(S, d)[k].pid \in S
                  /\ Nodes(S, d)[k] = [pid |-> Nodes(S, d)[k].pid, depth |-> d,
                                       cycle |-> FALSE]
           /\ \A k, l \in 1 .. Cardinality(S) :
                  k < l => Nodes(S, d)[k].pid < Nodes(S, d)[l].pid
           /\ \A p \in S : \E k \in 1 .. Cardinality(S) : Nodes(S, d)[k].pid = p
<1> DEFINE n == Cardinality(S)
           at(k) == CHOOSE p \in S : Rank(S, p) = k
<1>1. /\ n \in Nat
      /\ \A i \in S : Rank(S, i) \in 1 .. n
      /\ \A i, j \in S : i < j => Rank(S, i) < Rank(S, j)
      /\ \A i, j \in S : Rank(S, i) = Rank(S, j) => i = j
      /\ \A k \in 1 .. n : \E i \in S : Rank(S, i) = k
  BY RankBijective
<1>2. \A k \in 1 .. n : at(k) \in S /\ Rank(S, at(k)) = k
  BY <1>1
<1>3. ASSUME NEW k \in 1 .. n, NEW l \in 1 .. n, k < l PROVE at(k) < at(l)
  <2> HIDE DEF at
  <2>1. /\ at(k) \in Int /\ at(l) \in Int
        /\ at(k) \in S /\ at(l) \in S
        /\ Rank(S, at(k)) = k /\ Rank(S, at(l)) = l
    BY <1>2
  <2>2. ~(at(l) < at(k)) /\ at(k) # at(l)
    BY <1>1, <1>3, <2>1
  <2> QED
    BY <2>1, <2>2
<1>4. \A p \in S : \E k \in 1 .. n : at(k) = p
  <2> HIDE DEF at
  <2> QED
    BY <1>1, <1>2
<1>5. Nodes(S, d) = [k \in 1 .. n |-> [pid |-> at(k), depth |-> d, cycle |-> FALSE]]
  BY DEF Nodes
<1> HIDE DEF at, n
<1>6. /\ Nodes(S, d) = [k \in 1 .. n |-> Nodes(S, d)[k]]
      /\ \A k \in 1 .. n : /\ Nodes(S, d)[k].pid = at(k)
                           /\ Nodes(S, d)[k] = [pid |-> at(k), depth |-> d, cycle |-> FALSE]
  BY <1>5
<1> QED
  BY <1>1, <1>2, <1>3, <1>4, <1>6 DEF n

-----------------------------------------------------------------------------
(* The processes of one user as a forest.                                  *)

TreeLine(own) == [pid : own, depth : Nat, cycle : BOOLEAN]

Kids(own, p) == pcbTable[p].children \cap own

Forest(own) ==
    /\ own \subseteq Nat \ {0}
    /\ IsFiniteSet(own)
    /\ \A p \in own : pcbTable[p].ppid \in Nat
    /\ \A p \in own : \A c \in Kids(own, p) : pcbTable[c].ppid = p /\ p < c
    /\ \A c \in own : pcbTable[c].ppid # 0 =>
           /\ pcbTable[c].ppid \in own /\ pcbTable[c].ppid < c
           /\ c \in Kids(own, pcbTable[c].ppid)

LEMMA OwnForest == ASSUME PMInv, NEW user PROVE Forest(OwnPids(user))
<1> DEFINE own == OwnPids(user)
<1>1. own \subseteq Pids /\ \A p \in Pids : p \in own <=> pcbTable[p].owner = user
  BY DEF OwnPids
<1>2. /\ Pids \subseteq Nat \ {0} /\ nextPid \in Nat
      /\ \A p \in Pids : p < nextPid /\ pcbTable[p].ppid \in Nat
  BY DEF PMInv, PMTypeOK, PidsBelowNext, PCB
<1>3. IsFiniteSet(own)
  <2>1. ASSUME NEW p \in own PROVE p \in 0 .. nextPid
    <3>1. p \in Pids
      BY <1>1
    <3>2. p \in Nat /\ p < nextPid
      BY <1>2, <3>1
    <3> QED
      BY <1>2, <3>2
  <2>2. IsFiniteSet(0 .. nextPid)
    BY <1>2, FS_Interval
  <2> QED
    BY <2>1, <2>2, FS_Subset
<1>4. /\ \A p \in Pids : \A c \in pcbTable[p].children :
             c \in Pids /\ pcbTable[c].ppid = p
      /\ \A c \in Pids : pcbTable[c].ppid # 0 =>
             /\ pcbTable[c].ppid \in Pids /\ pcbTable[c].ppid < c
             /\ pcbTable[pcbTable[c].ppid].owner = pcbTable[c].owner
             /\ c \in pcbTable[pcbTable[c].ppid].children
  BY DEF PMInv, TreeConsistent
<1>5. ASSUME NEW p \in own, NEW c \in Kids(own, p) PROVE pcbTable[c].ppid = p /\ p < c
  <2>1. p \in Pids /\ c \in pcbTable[p].children
    BY <1>1, <1>5 DEF Kids
  <2>2. c \in Pids /\ pcbTable[c].ppid = p /\ p # 0
    BY <1>2, <1>4, <2>1
  <2> QED
    BY <1>4, <2>2
<1>6. ASSUME NEW c \in own, pcbTable[c].ppid # 0
      PROVE  /\ pcbTable[c].ppid \in own /\ pcbTable[c].ppid < c
             /\ c \in Kids(own, pcbTable[c].ppid)
  BY <1>1, <1>4, <1>6 DEF Kids
<1> HIDE DEF own
<1> QED
  BY <1>1, <1>2, <1>3, <1>5, <1>6 DEF Forest, own

-----------------------------------------------------------------------------
(* What holds between two calls of appendTreeNode, of the lines L written  *)
(* so far and the nodes S still to be shown: every process is at most once *)
(* among them, a node that is not shown yet has its parent not shown       *)
(* either, and the last line less deep than a pending node is its parent.  *)

Distinct(L) == \A i, j \in 1 .. Len(L) : L[i].pid = L[j].pid => i = j

Shown(L, S, p) ==
    \/ \E i \in 1 .. Len(L) : L[i].pid = p
    \/ \E i \in 1 .. Len(S) : S[i].pid = p

(* After the first n lines, a node of this depth is shown as the child of  *)
(* its parent.                                                             *)
UnderParent(L, n, node) ==
    IF pcbTable[node.pid].ppid = 0 THEN node.depth = 0
    ELSE \E i \in 1 .. n :
            /\ L[i].pid = pcbTable[node.pid].ppid
            /\ node.depth = L[i].depth + 1
            /\ \A k \in i + 1 .. n : L[k].depth > L[i].depth

OnceEach(L, S) ==
    /\ Distinct(L)
    /\ Distinct(S)
    /\ \A i \in 1 .. Len(L), j \in 1 .. Len(S) : L[i].pid # S[j].pid

NoneForgotten(own, L, S) ==
    /\ \A p \in own : pcbTable[p].ppid = 0 => Shown(L, S, p)
    /\ \A i \in 1 .. Len(L) : \A c \in Kids(own, L[i].pid) : Shown(L, S, c)

InPlace(L, S) ==
    /\ \A i, j \in 1 .. Len(S) : i < j => S[j].depth <= S[i].depth
    /\ \A i \in 1 .. Len(L) : UnderParent(L, i - 1, L[i])
    /\ \A i \in 1 .. Len(S) : UnderParent(L, Len(L), S[i])

Walked(own, L, S) ==
    /\ L \in Seq(TreeLine(own)) /\ S \in Seq(TreeLine(own))
    /\ OnceEach(L, S)
    /\ NoneForgotten(own, L, S)
    /\ InPlace(L, S)

(* M is L with the first pending node shown, and R is K, its children,     *)
(* before the other pending nodes.                                         *)
Joined(L, S, K, M, R) ==
    /\ Len(L) \in Nat /\ Len(S) \in Nat \ {0} /\ Len(K) \in Nat
    /\ Len(M) = Len(L) + 1
    /\ \A i \in 1 .. Len(L) : M[i] = L[i]
    /\ M[Len(L) + 1] = S[1]
    /\ Len(R) = Len(K) + Len(S) - 1
    /\ \A i \in 1 .. Len(K) : R[i] = K[i]
    /\ \A i \in 2 .. Len(S) : R[Len(K) + i - 1] = S[i]
    /\ \A i \in 1 .. Len(R) : i \in 1 .. Len(K) \/ \E j \in 2 .. Len(S) : i = Len(K) + j - 1

LEMMA ExpandsJoins ==
    ASSUME NEW T, NEW L \in Seq(T), NEW S \in Seq(T), NEW K \in Seq(T), S # <<>>
    PROVE  /\ Append(L, S[1]) \in Seq(T) /\ K \o Tail(S) \in Seq(T)
           /\ Joined(L, S, K, Append(L, S[1]), K \o Tail(S))
<1> DEFINE M == Append(L, S[1])
           U == Tail(S)
           R == K \o U
<1>1. Len(L) \in Nat /\ Len(S) \in Nat \ {0} /\ Len(K) \in Nat /\ S[1] \in T
  OBVIOUS
<1>2. /\ M \in Seq(T) /\ Len(M) = Len(L) + 1 /\ M[Len(L) + 1] = S[1]
      /\ \A i \in 1 .. Len(L) : M[i] = L[i]
  BY <1>1
<1>3. /\ U \in Seq(T) /\ Len(U) = Len(S) - 1
      /\ \A i \in 1 .. Len(U) : U[i] = S[i + 1]
  BY <1>1
<1> HIDE DEF M, U
<1>4. /\ R \in Seq(T) /\ Len(R) = Len(K) + Len(U)
      /\ \A i \in 1 .. Len(K) : R[i] = K[i]
      /\ \A i \in 1 .. Len(U) : R[Len(K) + i] = U[i]
  <2>1. /\ R \in Seq(T) /\ Len(R) = Len(K) + Len(U)
        /\ \A i \in 1 .. Len(K) + Len(U) : R[i] = IF i <= Len(K) THEN K[i] ELSE U[i - Len(K)]
    BY <1>3, ConcatProperties
  <2>2. Len(K) \in Nat /\ Len(U) \in Nat
    BY <1>3
  <2> HIDE DEF R
  <2>3. ASSUME NEW i \in 1 .. Len(K) PROVE R[i] = K[i]
    BY <2>1, <2>2
  <2>4. ASSUME NEW i \in 1 .. Len(U) PROVE R[Len(K) + i] = U[i]
    <3>1. Len(K) + i \in 1 .. Len(K) + Len(U) /\ ~(Len(K) + i <= Len(K)) /\ Len(K) + i - Len(K) = i
      BY <2>2
    <3> QED
      BY <2>1, <3>1
  <2> QED
    BY <2>1, <2>3, <2>4
<1> HIDE DEF R
<1>5. ASSUME NEW i \in 2 .. Len(S) PROVE R[Len(K) + i - 1] = S[i]
  <2>1. i - 1 \in 1 .. Len(U) /\ (i - 1) + 1 = i /\ Len(K) + i - 1 = Len(K) + (i - 1)
    BY <1>1, <1>3
  <2> QED
    BY <1>3, <1>4, <2>1
<1>6. ASSUME NEW i \in 1 .. Len(R), i \notin 1 .. Len(K)
      PROVE  \E j \in 2 .. Len(S) : i = Len(K) + j - 1
  <2>1. i - Len(K) + 1 \in 2 .. Len(S) /\ i = Len(K) + (i - Len(K) + 1) - 1
    BY <1>1, <1>3, <1>4, <1>6
  <2> QED
    BY <2>1
<1>7. Len(R) = Len(K) + Len(S) - 1
  BY <1>1, <1>3, <1>4
<1>8. Joined(L, S, K, M, R)
  BY <1>1, <1>2, <1>4, <1>5, <1>6, <1>7 DEF Joined
<1> QED
  BY <1>2, <1>4, <1>8 DEF M, R, U

LEMMA UnderKept ==
    ASSUME NEW n, NEW L, NEW M, \A i \in 1 .. n : M[i] = L[i], n \in Nat,
           NEW node, UnderParent(L, n, node)
    PROVE  UnderParent(M, n, node)
<1>1. CASE pcbTable[node.pid].ppid = 0
  BY <1>1 DEF UnderParent
<1>2. CASE pcbTable[node.pid].ppid # 0
  <2>1. PICK i \in 1 .. n : /\ L[i].pid = pcbTable[node.pid].ppid
                            /\ node.depth = L[i].depth + 1
                            /\ \A k \in i + 1 .. n : L[k].depth > L[i].depth
    BY <1>2 DEF UnderParent
  <2>2. \A k \in i + 1 .. n : k \in 1 .. n
    OBVIOUS
  <2> QED
    BY <1>2, <2>1, <2>2 DEF UnderParent
<1> QED
  BY <1>1, <1>2

(* The children of the node that is shown next, and that none of them is   *)
(* among the others: its parent, that node, would be shown already.        *)
NewKids(own, L, S, K) ==
    /\ K \in Seq(TreeLine(own))
    /\ Distinct(K)
    /\ \A i \in 1 .. Len(K) :
           /\ K[i].pid \in Kids(own, S[1].pid)
           /\ K[i].depth = S[1].depth + 1
           /\ K[i].pid # S[1].pid
           /\ pcbTable[K[i].pid].ppid = S[1].pid /\ S[1].pid # 0
           /\ \A j \in 1 .. Len(L) : K[i].pid # L[j].pid
           /\ \A j \in 1 .. Len(S) : K[i].pid # S[j].pid
    /\ \A c \in Kids(own, S[1].pid) : \E i \in 1 .. Len(K) : K[i].pid = c

LEMMA KidsNew ==
    ASSUME NEW own, Forest(own), NEW L, NEW S, Walked(own, L, S), S # <<>>
    PROVE  NewKids(own, L, S, Nodes(Kids(own, S[1].pid), S[1].depth + 1))
<1> DEFINE h == S[1]
           d == h.depth + 1
           C == Kids(own, h.pid)
           K == Nodes(C, d)
           m == Cardinality(C)
<1>1. /\ L \in Seq(TreeLine(own)) /\ S \in Seq(TreeLine(own))
      /\ \A i \in 1 .. Len(L) : L[i] \in TreeLine(own)
      /\ \A i \in 1 .. Len(S) : S[i] \in TreeLine(own)
      /\ 1 \in 1 .. Len(S) /\ Len(S) \in Nat /\ Len(L) \in Nat
  BY DEF Walked
<1>2. h.pid \in own /\ h.depth \in Nat /\ d \in Nat
  BY <1>1 DEF TreeLine
<1>3. /\ C \in SUBSET own /\ C \in SUBSET Int /\ IsFiniteSet(C)
      /\ h.pid # 0 /\ \A c \in C : pcbTable[c].ppid = h.pid /\ c # h.pid
  <2>1. C \subseteq own
    BY DEF Kids
  <2>2. own \subseteq Nat \ {0} /\ IsFiniteSet(own)
    BY DEF Forest
  <2>3. \A c \in C : pcbTable[c].ppid = h.pid /\ h.pid < c
    BY <1>2 DEF Forest
  <2>4. h.pid # 0 /\ h.pid \in Nat
    BY <1>2, <2>2
  <2> QED
    BY <2>1, <2>2, <2>3, <2>4, FS_Subset
<1> HIDE DEF C, d
<1>4. /\ m \in Nat
      /\ K = [k \in 1 .. m |-> K[k]]
      /\ \A k \in 1 .. m : /\ K[k].pid \in C
                           /\ K[k] = [pid |-> K[k].pid, depth |-> d, cycle |-> FALSE]
      /\ \A k, l \in 1 .. m : k < l => K[k].pid < K[l].pid
      /\ \A p \in C : \E k \in 1 .. m : K[k].pid = p
  BY <1>3, NodesFacts
<1> HIDE DEF K, m
<1>5. ASSUME NEW k \in 1 .. m PROVE K[k] \in TreeLine(own) /\ K[k].depth = d
  <2> DEFINE p == K[k].pid
  <2>1. p \in own /\ K[k] = [pid |-> p, depth |-> d, cycle |-> FALSE]
    BY <1>3, <1>4
  <2> HIDE DEF p
  <2> QED
    BY <1>2, <2>1 DEF TreeLine
<1>6. K \in Seq(TreeLine(own)) /\ Len(K) = m
  BY <1>4, <1>5
<1>7. Distinct(K)
  <2>1. ASSUME NEW i \in 1 .. m, NEW j \in 1 .. m, K[i].pid = K[j].pid, i < j PROVE FALSE
    <3>1. K[i].pid \in Int /\ K[i].pid < K[j].pid
      BY <1>3, <1>4, <2>1
    <3> QED
      BY <2>1, <3>1
  <2> QED
    BY <1>4, <1>6, <2>1 DEF Distinct
<1>8. \A j \in 1 .. Len(L) : h.pid # L[j].pid
  BY <1>1 DEF Walked, OnceEach
<1>9. ASSUME NEW n \in {0} \cup 1 .. Len(L), NEW node, UnderParent(L, n, node)
      PROVE  pcbTable[node.pid].ppid # h.pid
  BY <1>1, <1>3, <1>8, <1>9 DEF UnderParent
<1>10. \A j \in 1 .. Len(L) : pcbTable[L[j].pid].ppid # h.pid
  <2>1. ASSUME NEW j \in 1 .. Len(L) PROVE pcbTable[L[j].pid].ppid # h.pid
    <3>1. UnderParent(L, j - 1, L[j]) /\ j - 1 \in {0} \cup 1 .. Len(L)
      BY <1>1 DEF Walked, InPlace
    <3> QED
      BY <1>9, <3>1
  <2> QED
    BY <2>1
<1>11. \A j \in 1 .. Len(S) : pcbTable[S[j].pid].ppid # h.pid
  <2>1. ASSUME NEW j \in 1 .. Len(S) PROVE pcbTable[S[j].pid].ppid # h.pid
    <3>1. UnderParent(L, Len(L), S[j]) /\ Len(L) \in {0} \cup 1 .. Len(L)
      BY <1>1 DEF Walked, InPlace
    <3> QED
      BY <1>9, <3>1
  <2> QED
    BY <2>1
<1>12. ASSUME NEW i \in 1 .. m
       PROVE  /\ K[i].pid \in C /\ K[i].depth = d /\ K[i].pid # h.pid
              /\ pcbTable[K[i].pid].ppid = h.pid /\ h.pid # 0
              /\ \A j \in 1 .. Len(L) : K[i].pid # L[j].pid
              /\ \A j \in 1 .. Len(S) : K[i].pid # S[j].pid
  <2>1. K[i].pid \in C /\ K[i].depth = d
    BY <1>4, <1>5
  <2>2. pcbTable[K[i].pid].ppid = h.pid /\ K[i].pid # h.pid
    BY <1>3, <2>1
  <2> QED
    BY <1>3, <1>10, <1>11, <2>1, <2>2
<1> HIDE DEF h
<1>13. NewKids(own, L, S, K)
  BY <1>4, <1>6, <1>7, <1>12 DEF NewKids, C, d, h
<1> QED
  BY <1>13 DEF K, C, d, h

(* Showing a node and putting its children before the other pending nodes  *)
(* keeps each part of the invariant.                                       *)
LEMMA ExpandOnceEach ==
    ASSUME NEW own, NEW L, NEW S, OnceEach(L, S), NEW K, NewKids(own, L, S, K),
           NEW M, NEW R, Joined(L, S, K, M, R)
    PROVE  OnceEach(M, R)
<1>1. /\ Len(L) \in Nat /\ Len(S) \in Nat \ {0} /\ Len(K) \in Nat
      /\ Len(M) = Len(L) + 1 /\ M[Len(L) + 1] = S[1]
      /\ \A i \in 1 .. Len(L) : M[i] = L[i]
  BY DEF Joined
<1>2. ASSUME NEW i \in 1 .. Len(M), i \notin 1 .. Len(L)
      PROVE  M[i] = S[1] /\ i = Len(L) + 1
  <2>1. i = Len(L) + 1
    BY <1>1, <1>2
  <2> QED
    BY <1>1, <2>1
<1>3. ASSUME NEW i \in 1 .. Len(R)
      PROVE  \/ i \in 1 .. Len(K) /\ R[i] = K[i]
             \/ \E j \in 2 .. Len(S) : R[i] = S[j] /\ i = Len(K) + j - 1
  BY DEF Joined
<1>4. 1 \in 1 .. Len(S) /\ \A j \in 2 .. Len(S) : j \in 1 .. Len(S) /\ j # 1
  BY <1>1
<1>5. /\ \A i, j \in 1 .. Len(L) : L[i].pid = L[j].pid => i = j
      /\ \A i, j \in 1 .. Len(S) : S[i].pid = S[j].pid => i = j
      /\ \A i \in 1 .. Len(L), j \in 1 .. Len(S) : L[i].pid # S[j].pid
  BY DEF OnceEach, Distinct
<1>6. /\ \A i, j \in 1 .. Len(K) : K[i].pid = K[j].pid => i = j
      /\ \A i \in 1 .. Len(K) :
             /\ \A j \in 1 .. Len(L) : K[i].pid # L[j].pid
             /\ \A j \in 1 .. Len(S) : K[i].pid # S[j].pid
  BY DEF NewKids, Distinct
<1>7. ASSUME NEW i \in 1 .. Len(M), NEW j \in 1 .. Len(M), M[i].pid = M[j].pid PROVE i = j
  BY <1>1, <1>2, <1>4, <1>5, <1>7
<1>8. ASSUME NEW i \in 1 .. Len(R), NEW j \in 1 .. Len(R), R[i].pid = R[j].pid PROVE i = j
  <2>1. CASE i \in 1 .. Len(K) /\ R[i] = K[i]
    <3>1. ASSUME NEW l \in 2 .. Len(S), R[j] = S[l] PROVE FALSE
      BY <1>4, <1>6, <1>8, <2>1, <3>1
    <3>2. j \in 1 .. Len(K) /\ R[j] = K[j]
      BY <1>3, <3>1
    <3> QED
      BY <1>6, <1>8, <2>1, <3>2
  <2>2. ASSUME NEW k \in 2 .. Len(S), R[i] = S[k], i = Len(K) + k - 1 PROVE i = j
    <3>1. ~(j \in 1 .. Len(K) /\ R[j] = K[j])
      BY <1>4, <1>6, <1>8, <2>2
    <3>2. PICK l \in 2 .. Len(S) : R[j] = S[l] /\ j = Len(K) + l - 1
      BY <1>3, <3>1
    <3>3. S[k].pid = S[l].pid
      BY <1>8, <2>2, <3>2
    <3>4. k = l
      BY <1>4, <1>5, <3>3
    <3> QED
      BY <2>2, <3>2, <3>4
  <2> QED
    BY <1>3, <2>1, <2>2
<1>9. ASSUME NEW i \in 1 .. Len(M), NEW j \in 1 .. Len(R) PROVE M[i].pid # R[j].pid
  <2>1. ASSUME NEW k \in 1 .. Len(S), k # 1 PROVE M[i].pid # S[k].pid
    BY <1>1, <1>2, <1>4, <1>5, <2>1
  <2>2. ASSUME NEW k \in 1 .. Len(K) PROVE M[i].pid # K[k].pid
    BY <1>1, <1>2, <1>4, <1>6
  <2> QED
    BY <1>3, <1>4, <2>1, <2>2
<1> QED
  BY <1>7, <1>8, <1>9 DEF OnceEach, Distinct

LEMMA ExpandNoneForgotten ==
    ASSUME NEW own, NEW L, NEW S, NoneForgotten(own, L, S), NEW K, NewKids(own, L, S, K),
           NEW M, NEW R, Joined(L, S, K, M, R)
    PROVE  NoneForgotten(own, M, R)
<1>1. /\ Len(L) \in Nat /\ Len(S) \in Nat \ {0} /\ Len(K) \in Nat
      /\ Len(M) = Len(L) + 1 /\ M[Len(L) + 1] = S[1]
      /\ Len(R) = Len(K) + Len(S) - 1
      /\ \A i \in 1 .. Len(L) : M[i] = L[i]
      /\ \A i \in 1 .. Len(K) : R[i] = K[i]
      /\ \A i \in 2 .. Len(S) : R[Len(K) + i - 1] = S[i]
  BY DEF Joined
<1>2. ASSUME NEW i \in 1 .. Len(L) PROVE \E j \in 1 .. Len(M) : M[j] = L[i]
  BY <1>1
<1>3. ASSUME NEW i \in 1 .. Len(K) PROVE \E j \in 1 .. Len(R) : R[j] = K[i]
  BY <1>1
<1>4. ASSUME NEW i \in 1 .. Len(S)
      PROVE  \/ \E j \in 1 .. Len(M) : M[j] = S[i]
             \/ \E j \in 1 .. Len(R) : R[j] = S[i]
  <2>1. CASE i = 1
    BY <1>1, <2>1
  <2>2. CASE i # 1
    <3>1. Len(K) + i - 1 \in 1 .. Len(R) /\ i \in 2 .. Len(S)
      BY <1>1, <2>2
    <3> QED
      BY <1>1, <3>1
  <2> QED
    BY <2>1, <2>2
<1>5. ASSUME NEW p, Shown(L, S, p) PROVE Shown(M, R, p)
  BY <1>2, <1>4, <1>5 DEF Shown
<1>6. ASSUME NEW i \in 1 .. Len(M), NEW c \in Kids(own, M[i].pid) PROVE Shown(M, R, c)
  <2>1. CASE i \in 1 .. Len(L)
    <3>1. M[i] = L[i]
      BY <1>1, <2>1
    <3>2. Shown(L, S, c)
      BY <1>6, <2>1, <3>1 DEF NoneForgotten
    <3> QED
      BY <1>5, <3>2
  <2>2. CASE i \notin 1 .. Len(L)
    <3>1. M[i] = S[1]
      <4>1. i = Len(L) + 1
        BY <1>1, <2>2
      <4> QED
        BY <1>1, <4>1
    <3>2. PICK k \in 1 .. Len(K) : K[k].pid = c
      BY <1>6, <3>1 DEF NewKids
    <3> QED
      BY <1>3, <3>2 DEF Shown
  <2> QED
    BY <2>1, <2>2
<1> QED
  BY <1>5, <1>6 DEF NoneForgotten

LEMMA ExpandInPlace ==
    ASSUME NEW own, NEW L, NEW S, InPlace(L, S), NEW K, NewKids(own, L, S, K),
           L \in Seq(TreeLine(own)), S \in Seq(TreeLine(own)),
           NEW M, NEW R, Joined(L, S, K, M, R)
    PROVE  InPlace(M, R)
<1> DEFINE h == S[1]
<1>1. /\ Len(L) \in Nat /\ Len(S) \in Nat \ {0} /\ Len(K) \in Nat
      /\ Len(M) = Len(L) + 1 /\ M[Len(L) + 1] = h
      /\ \A i \in 1 .. Len(L) : M[i] = L[i]
  BY DEF Joined
<1>2. \A i \in 1 .. Len(R) :
          \/ i \in 1 .. Len(K) /\ R[i] = K[i]
          \/ \E j \in 2 .. Len(S) : R[i] = S[j] /\ i = Len(K) + j - 1
  BY ONLY SMT, Joined(L, S, K, M, R) DEF Joined
<1>3. /\ 1 \in 1 .. Len(S) /\ \A j \in 2 .. Len(S) : j \in 1 .. Len(S) /\ 1 < j
      /\ \A j \in 1 .. Len(S) : S[j].depth \in Nat
      /\ \A j \in 1 .. Len(L) : L[j].depth \in Nat
  <2>1. /\ \A j \in 1 .. Len(S) : S[j] \in TreeLine(own)
        /\ \A j \in 1 .. Len(L) : L[j] \in TreeLine(own)
    OBVIOUS
  <2>2. 1 \in 1 .. Len(S) /\ \A j \in 2 .. Len(S) : j \in 1 .. Len(S) /\ 1 < j
    BY <1>1
  <2> QED
    BY <2>1, <2>2 DEF TreeLine
<1>4. \A i, j \in 1 .. Len(S) : i < j => S[j].depth <= S[i].depth
  BY DEF InPlace
<1>5. /\ \A i \in 1 .. Len(L) : UnderParent(L, i - 1, L[i])
      /\ \A i \in 1 .. Len(S) : UnderParent(L, Len(L), S[i])
  BY DEF InPlace
<1>6. \A i \in 1 .. Len(K) : /\ K[i].depth = h.depth + 1
                             /\ pcbTable[K[i].pid].ppid = h.pid /\ h.pid # 0
  BY DEF NewKids
<1> HIDE DEF h
<1>7. ASSUME NEW i \in 1 .. Len(R), NEW j \in 1 .. Len(R), i < j
      PROVE  R[j].depth <= R[i].depth
  <2>0. h.depth \in Nat /\ \A k \in 2 .. Len(S) : S[k].depth <= h.depth /\ S[k].depth \in Nat
    BY <1>3, <1>4 DEF h
  <2>1. CASE i \in 1 .. Len(K) /\ R[i] = K[i]
    <3>1. R[i].depth = h.depth + 1
      BY <1>6, <2>1
    <3>2. R[j].depth = h.depth + 1 \/ \E k \in 2 .. Len(S) : R[j] = S[k]
      BY <1>2, <1>6
    <3> QED
      BY <2>0, <3>1, <3>2
  <2>2. ASSUME NEW k \in 2 .. Len(S), R[i] = S[k], i = Len(K) + k - 1
        PROVE  R[j].depth <= R[i].depth
    <3>1. j \notin 1 .. Len(K)
      BY <1>1, <1>7, <2>2
    <3>2. PICK l \in 2 .. Len(S) : R[j] = S[l] /\ j = Len(K) + l - 1
      BY <1>2, <3>1
    <3>3. k < l
      BY <1>1, <1>7, <2>2, <3>2
    <3> QED
      BY <1>3, <1>4, <2>2, <3>2, <3>3
  <2> QED
    BY <1>2, <2>1, <2>2
<1>8. ASSUME NEW i \in 1 .. Len(M) PROVE UnderParent(M, i - 1, M[i])
  <2>1. CASE i \in 1 .. Len(L)
    <3>1. M[i] = L[i] /\ i - 1 \in Nat /\ \A k \in 1 .. i - 1 : M[k] = L[k]
      BY <1>1, <2>1
    <3>2. UnderParent(L, i - 1, L[i])
      BY <1>5, <2>1
    <3> QED
      BY <3>1, <3>2, UnderKept
  <2>2. CASE i \notin 1 .. Len(L)
    <3>1. M[i] = h /\ i - 1 = Len(L)
      BY <1>1, <2>2
    <3>2. UnderParent(L, Len(L), h)
      BY <1>3, <1>5 DEF h
    <3>3. UnderParent(M, Len(L), h)
      BY <1>1, <3>2, UnderKept
    <3> QED
      BY <3>1, <3>3
  <2> QED
    BY <2>1, <2>2
<1>9. ASSUME NEW i \in 1 .. Len(R) PROVE UnderParent(M, Len(M), R[i])
  <2>1. CASE i \in 1 .. Len(K) /\ R[i] = K[i]
    <3>1. Len(M) \in 1 .. Len(M) /\ M[Len(M)] = h /\ \A k \in Len(M) + 1 .. Len(M) : FALSE
      BY <1>1
    <3>2. /\ R[i].depth = h.depth + 1
          /\ pcbTable[R[i].pid].ppid = h.pid /\ h.pid # 0
      BY <1>6, <2>1
    <3> QED
      BY <3>1, <3>2 DEF UnderParent
  <2>2. ASSUME NEW k \in 2 .. Len(S), R[i] = S[k] PROVE UnderParent(M, Len(M), R[i])
    <3>1. UnderParent(L, Len(L), S[k])
      BY <1>3, <1>5
    <3>2. CASE pcbTable[S[k].pid].ppid = 0
      BY <2>2, <3>1, <3>2 DEF UnderParent
    <3>3. CASE pcbTable[S[k].pid].ppid # 0
      <4>1. PICK l \in 1 .. Len(L) : /\ L[l].pid = pcbTable[S[k].pid].ppid
                                     /\ S[k].depth = L[l].depth + 1
                                     /\ \A j \in l + 1 .. Len(L) : L[j].depth > L[l].depth
        BY <3>1, <3>3 DEF UnderParent
      <4>2. l \in 1 .. Len(M) /\ M[l] = L[l]
        BY <1>1
      <4>3. h.depth > L[l].depth
        <5>1. S[k].depth <= h.depth /\ h.depth \in Nat /\ S[k].depth \in Nat /\ L[l].depth \in Nat
          BY <1>3, <1>4 DEF h
        <5>2. S[k].depth = L[l].depth + 1
          BY <4>1
        <5> QED
          BY ONLY SMT, <5>1, <5>2
      <4>4. ASSUME NEW j \in l + 1 .. Len(M) PROVE M[j].depth > M[l].depth
        <5>1. (j \in l + 1 .. Len(L) /\ j \in 1 .. Len(L)) \/ j = Len(L) + 1
          BY <1>1
        <5> QED
          BY <1>1, <4>1, <4>2, <4>3, <5>1
      <4> QED
        BY <2>2, <3>3, <4>1, <4>2, <4>4 DEF UnderParent
    <3> QED
      BY <3>2, <3>3
  <2> QED
    BY <1>2, <2>1, <2>2
<1> QED
  BY <1>7, <1>8, <1>9 DEF InPlace

LEMMA ExpandWalked ==
    ASSUME NEW own, Forest(own), NEW L, NEW S, Walked(own, L, S), S # <<>>
    PROVE  LET K == Nodes(Kids(own, S[1].pid), S[1].depth + 1)
           IN  Walked(own, Append(L, S[1]), K \o Tail(S))
<1> DEFINE K == Nodes(Kids(own, S[1].pid), S[1].depth + 1)
           M == Append(L, S[1])
           R == K \o Tail(S)
<1>1. NewKids(own, L, S, K)
  BY KidsNew
<1> HIDE DEF K
<1>2. /\ L \in Seq(TreeLine(own)) /\ S \in Seq(TreeLine(own)) /\ K \in Seq(TreeLine(own))
      /\ OnceEach(L, S) /\ NoneForgotten(own, L, S) /\ InPlace(L, S)
  BY <1>1 DEF Walked, NewKids
<1>3. /\ M \in Seq(TreeLine(own)) /\ R \in Seq(TreeLine(own))
      /\ Joined(L, S, K, M, R)
  BY <1>2, ExpandsJoins
<1> HIDE DEF M, R
<1>4. OnceEach(M, R)
  BY <1>1, <1>2, <1>3, ExpandOnceEach
<1>5. NoneForgotten(own, M, R)
  BY <1>1, <1>2, <1>3, ExpandNoneForgotten
<1>6. InPlace(M, R)
  BY <1>1, <1>2, <1>3, ExpandInPlace
<1> QED
  BY <1>3, <1>4, <1>5, <1>6 DEF Walked, K, M, R

-----------------------------------------------------------------------------
(* The whole walk.                                                         *)

Roots(own) == {p \in own : pcbTable[p].ppid = 0 \/ pcbTable[p].ppid \notin own}

Call(own, g, n) ==
    IF n = 0 THEN [pending |-> Nodes(Roots(own), 0), lines |-> <<>>]
    ELSE appendTreeNode(own, g[n - 1])

WalkOf(g, own, N) == g = [n \in 0 .. N |-> Call(own, g, n)]

(* The recursive function of processTree exists.                           *)
LEMMA WalkExists == ASSUME NEW own, NEW N \in Nat PROVE \E g : WalkOf(g, own, N)
<1> DEFINE Good == {m \in 0 .. N : \E g : g = [n \in 0 .. m |-> Call(own, g, n)]}
<1>1. 0 \in Good
  <2> DEFINE g == [n \in 0 .. 0 |-> Call(own, <<>>, n)]
  <2>1. \A n \in 0 .. 0 : Call(own, <<>>, n) = Call(own, g, n)
    BY DEF Call
  <2>2. g = [n \in 0 .. 0 |-> Call(own, g, n)]
    BY <2>1
  <2> HIDE DEF g
  <2> QED
    BY <2>2
<1>2. ASSUME NEW m \in 1 .. N, m - 1 \in Good PROVE m \in Good
  <2>1. PICK g : g = [n \in 0 .. m - 1 |-> Call(own, g, n)]
    BY <1>2
  <2> DEFINE h == [n \in 0 .. m |-> Call(own, g, n)]
  <2>2. ASSUME NEW n \in 0 .. m PROVE Call(own, g, n) = Call(own, h, n)
    <3>1. CASE n = 0
      BY <3>1 DEF Call
    <3>2. CASE n # 0
      <4>1. n - 1 \in 0 .. m - 1 /\ n - 1 \in 0 .. m
        BY <3>2
      <4>2. h[n - 1] = Call(own, g, n - 1) /\ g[n - 1] = Call(own, g, n - 1)
        BY <2>1, <4>1
      <4>3. h[n - 1] = g[n - 1]
        BY <4>2
      <4> HIDE DEF h
      <4> QED
        BY <3>2, <4>3 DEF Call
    <3> QED
      BY <3>1, <3>2
  <2>3. h = [n \in 0 .. m |-> Call(own, h, n)]
    BY <2>2
  <2> HIDE DEF h
  <2> QED
    BY <2>3
<1> HIDE DEF Good
<1>3. N \in Good
  <2>1. \A n \in 0 .. N : n \in Good
    BY <1>1, <1>2, InductionUpTo
  <2> QED
    BY <2>1
<1> QED
  BY <1>3 DEF Good, WalkOf

LEMMA StartWalked ==
    ASSUME NEW own, Forest(own) PROVE Walked(own, <<>>, Nodes(Roots(own), 0))
<1> DEFINE S == Roots(own)
           K == Nodes(S, 0)
           m == Cardinality(S)
<1>1. \A p \in own : p \in S <=> pcbTable[p].ppid = 0
  BY DEF Forest, Roots
<1>2. S \in SUBSET own /\ S \in SUBSET Int /\ IsFiniteSet(S)
  <2>1. S \subseteq own /\ own \subseteq Nat \ {0} /\ IsFiniteSet(own)
    BY DEF Roots, Forest
  <2> HIDE DEF S
  <2>2. IsFiniteSet(S)
    BY <2>1, FS_Subset
  <2> QED
    BY <2>1, <2>2
<1> HIDE DEF S
<1>3. /\ m \in Nat
      /\ K = [k \in 1 .. m |-> K[k]]
      /\ \A k \in 1 .. m : /\ K[k].pid \in S
                           /\ K[k] = [pid |-> K[k].pid, depth |-> 0, cycle |-> FALSE]
      /\ \A k, l \in 1 .. m : k < l => K[k].pid < K[l].pid
      /\ \A p \in S : \E k \in 1 .. m : K[k].pid = p
  BY <1>2, NodesFacts
<1> HIDE DEF K, m
<1>4. ASSUME NEW k \in 1 .. m PROVE K[k] \in TreeLine(own) /\ K[k].depth = 0
  <2> DEFINE p == K[k].pid
  <2>1. p \in own /\ K[k] = [pid |-> p, depth |-> 0, cycle |-> FALSE]
    BY <1>2, <1>3
  <2> HIDE DEF p
  <2> QED
    BY <2>1 DEF TreeLine
<1>5. K \in Seq(TreeLine(own)) /\ Len(K) = m
  BY <1>3, <1>4
<1>6. Distinct(K)
  <2>1. ASSUME NEW i \in 1 .. m, NEW j \in 1 .. m, K[i].pid = K[j].pid, i < j PROVE FALSE
    <3>1. K[i].pid \in Int /\ K[i].pid < K[j].pid
      BY <1>2, <1>3, <2>1
    <3> QED
      BY <2>1, <3>1
  <2> QED
    BY <1>3, <1>5, <2>1 DEF Distinct
<1>7. <<>> \in Seq(TreeLine(own)) /\ Len(<<>>) = 0 /\ \A i \in 1 .. Len(<<>>) : FALSE
  OBVIOUS
<1>8. OnceEach(<<>>, K)
  BY <1>6, <1>7 DEF OnceEach, Distinct
<1>9. NoneForgotten(own, <<>>, K)
  BY <1>1, <1>3, <1>5, <1>7 DEF NoneForgotten, Shown
<1>10. InPlace(<<>>, K)
  <2>1. \A i \in 1 .. Len(K) : pcbTable[K[i].pid].ppid = 0 /\ K[i].depth = 0
    BY <1>1, <1>2, <1>3, <1>4, <1>5
  <2>2. \A i \in 1 .. Len(K) : UnderParent(<<>>, Len(<<>>), K[i])
    BY <2>1 DEF UnderParent
  <2>3. \A i, j \in 1 .. Len(K) : i < j => K[j].depth <= K[i].depth
    BY <2>1
  <2> QED
    BY <1>7, <2>2, <2>3 DEF InPlace
<1> QED
  BY <1>5, <1>7, <1>8, <1>9, <1>10 DEF Walked, K, S

(* As long as nodes are pending, every call shows one.                     *)
WalkedBy(own, w, n) ==
    /\ Walked(own, w.lines, w.pending)
    /\ w.pending # <<>> => Len(w.lines) = n

LEMMA CallWalked ==
    ASSUME NEW own, Forest(own), NEW w, NEW n \in Nat, WalkedBy(own, w, n)
    PROVE  WalkedBy(own, appendTreeNode(own, w), n + 1)
<1> DEFINE L == w.lines
           S == w.pending
           x == appendTreeNode(own, w)
<1>1. Walked(own, L, S) /\ (S # <<>> => Len(L) = n)
  BY DEF WalkedBy
<1>2. CASE S = <<>>
  BY <1>1, <1>2 DEF appendTreeNode, WalkedBy
<1>3. CASE S # <<>>
  <2> DEFINE K == Nodes(Kids(own, S[1].pid), S[1].depth + 1)
  <2>1. /\ L \in Seq(TreeLine(own)) /\ S \in Seq(TreeLine(own))
        /\ \A i \in 1 .. Len(L), j \in 1 .. Len(S) : L[i].pid # S[j].pid
    BY <1>1 DEF Walked, OnceEach
  <2>2. Head(S) = S[1] /\ DOMAIN L = 1 .. Len(L) /\ 1 \in 1 .. Len(S)
    BY <1>3, <2>1
  <2>3. ~\E i \in DOMAIN L : L[i].pid = Head(S).pid
    BY <2>1, <2>2
  <2>4. x = [pending |-> K \o Tail(S), lines |-> Append(L, S[1])]
    BY <1>3, <2>2, <2>3 DEF appendTreeNode, Kids
  <2>5. x.pending = K \o Tail(S) /\ x.lines = Append(L, S[1])
    <3> HIDE DEF L, S, x, K
    <3> QED
      BY <2>4
  <2>6. Walked(own, Append(L, S[1]), K \o Tail(S))
    BY <1>1, <1>3, ExpandWalked
  <2>7. Len(Append(L, S[1])) = n + 1
    <3>1. Len(L) = n /\ S[1] \in TreeLine(own)
      BY <1>1, <1>3, <2>1, <2>2
    <3> QED
      BY <2>1, <3>1
  <2> HIDE DEF L, S, x, K
  <2>8. WalkedBy(own, x, n + 1)
    BY <2>5, <2>6, <2>7 DEF WalkedBy
  <2> QED
    BY <2>8 DEF x
<1> QED
  BY <1>2, <1>3

LEMMA WalkWalked ==
    ASSUME NEW own, Forest(own), NEW N \in Nat, NEW g, WalkOf(g, own, N)
    PROVE  WalkedBy(own, g[N], N)
<1> DEFINE Good == {n \in 0 .. N : WalkedBy(own, g[n], n)}
<1>1. \A n \in 0 .. N : g[n] = Call(own, g, n)
  BY DEF WalkOf
<1>2. 0 \in Good
  <2>1. g[0] = [pending |-> Nodes(Roots(own), 0), lines |-> <<>>]
    BY <1>1 DEF Call
  <2>2. g[0].pending = Nodes(Roots(own), 0) /\ g[0].lines = <<>> /\ Len(g[0].lines) = 0
    BY <2>1
  <2>3. WalkedBy(own, g[0], 0)
    BY <2>2, StartWalked DEF WalkedBy
  <2> QED
    BY <2>3
<1>3. ASSUME NEW n \in 1 .. N, n - 1 \in Good PROVE n \in Good
  <2>1. n - 1 \in Nat /\ n - 1 + 1 = n /\ n \in 0 .. N /\ n # 0
    OBVIOUS
  <2>2. g[n] = appendTreeNode(own, g[n - 1])
    BY <1>1, <2>1 DEF Call
  <2>3. WalkedBy(own, g[n - 1], n - 1)
    BY <1>3
  <2>4. WalkedBy(own, appendTreeNode(own, g[n - 1]), n - 1 + 1)
    BY <2>1, <2>3, CallWalked
  <2> QED
    BY <2>1, <2>2, <2>4
<1> HIDE DEF Good
<1>4. N \in Good
  <2>1. \A n \in 0 .. N : n \in Good
    BY <1>2, <1>3, InductionUpTo
  <2> QED
    BY <2>1
<1> QED
  BY <1>4 DEF Good

(* A tree with every process on one line, under its parent.                *)
CompleteTree(own, L) ==
    /\ L \in Seq(TreeLine(own))
    /\ Distinct(L)
    /\ Len(L) = Cardinality(own)
    /\ \A p \in own : \E i \in 1 .. Len(L) : L[i].pid = p
    /\ \A i \in 1 .. Len(L) : UnderParent(L, i - 1, L[i])

(* Lines with different PIDs are no more than there are PIDs for them.     *)
LEMMA LinesBounded ==
    ASSUME NEW own, IsFiniteSet(own), NEW L \in Seq(TreeLine(own)), Distinct(L),
           NEW A \in SUBSET own, \A i \in 1 .. Len(L) : L[i].pid \in A
    PROVE  /\ Cardinality(A) \in Nat /\ Len(L) <= Cardinality(A)
           /\ (\A p \in A : \E i \in 1 .. Len(L) : L[i].pid = p) => Len(L) = Cardinality(A)
<1> DEFINE D == 1 .. Len(L)
           f == [i \in D |-> L[i].pid]
<1>1. Len(L) \in Nat
  OBVIOUS
<1>2. IsFiniteSet(D) /\ Cardinality(D) = Len(L) /\ IsFiniteSet(A) /\ Cardinality(A) \in Nat
  <2>1. IsFiniteSet(D) /\ Cardinality(D) = Len(L)
    <3>1. 1 \in Int /\ Len(L) \in Int
      BY <1>1
    <3>2. IsFiniteSet(D) /\ Cardinality(D) = IF 1 > Len(L) THEN 0 ELSE Len(L) - 1 + 1
      BY <3>1, FS_Interval
    <3> HIDE DEF D
    <3> QED
      BY <1>1, <3>2
  <2>2. IsFiniteSet(A)
    BY FS_Subset
  <2> QED
    BY <2>1, <2>2, FS_CardinalityType
<1>3. f \in [D -> A]
  OBVIOUS
<1>4. f \in Injection(D, A)
  BY <1>3 DEF Injection, IsInjective, Distinct
<1>5. ASSUME \A p \in A : \E i \in D : L[i].pid = p PROVE f \in Surjection(D, A)
  BY <1>3, <1>5 DEF Surjection
<1> HIDE DEF D, f
<1>6. Cardinality(D) <= Cardinality(A)
  BY <1>2, <1>4, FS_Injection
<1>7. f \in Surjection(D, A) => Cardinality(D) = Cardinality(A)
  BY <1>2, <1>4, FS_Injection
<1> QED
  BY <1>2, <1>5, <1>6, <1>7 DEF D

(* A walk of as many calls as there are processes is at its end: a node    *)
(* still pending would be one process more.  By then every process is      *)
(* shown, since the least one that were not would have its parent shown.   *)
LEMMA WalkEnds ==
    ASSUME NEW own, Forest(own), NEW N \in Nat, Cardinality(own) <= N,
           NEW w, WalkedBy(own, w, N)
    PROVE  CompleteTree(own, w.lines)
<1> DEFINE L == w.lines
           S == w.pending
<1>1. /\ L \in Seq(TreeLine(own)) /\ S \in Seq(TreeLine(own))
      /\ Distinct(L)
      /\ \A i \in 1 .. Len(L), j \in 1 .. Len(S) : L[i].pid # S[j].pid
      /\ NoneForgotten(own, L, S)
      /\ \A i \in 1 .. Len(L) : UnderParent(L, i - 1, L[i])
      /\ S # <<>> => Len(L) = N
  BY DEF WalkedBy, Walked, OnceEach, InPlace
<1> HIDE DEF L, S
<1>2. own \subseteq Nat \ {0} /\ IsFiniteSet(own)
  BY DEF Forest
<1>3. /\ \A i \in 1 .. Len(L) : L[i].pid \in own
      /\ \A i \in 1 .. Len(S) : S[i].pid \in own
  <2>1. /\ \A i \in 1 .. Len(L) : L[i] \in TreeLine(own)
        /\ \A i \in 1 .. Len(S) : S[i] \in TreeLine(own)
    BY <1>1
  <2> QED
    BY <2>1 DEF TreeLine
<1>4. S = <<>>
  <2> SUFFICES ASSUME S # <<>> PROVE FALSE
    OBVIOUS
  <2> DEFINE h == S[1].pid
  <2>1. 1 \in 1 .. Len(S)
    BY <1>1
  <2>2. h \in own /\ \A i \in 1 .. Len(L) : L[i].pid \in own \ {h}
    BY <1>1, <1>3, <2>1
  <2> HIDE DEF h
  <2>3. Cardinality(own \ {h}) \in Nat /\ Len(L) <= Cardinality(own \ {h})
    BY <1>1, <1>2, <2>2, LinesBounded
  <2>4. Cardinality(own) \in Nat /\ Cardinality(own \ {h}) = Cardinality(own) - 1
    BY <1>2, <2>2, FS_RemoveElement, FS_CardinalityType
  <2> QED
    BY <1>1, <2>3, <2>4
<1>5. \A p : Shown(L, S, p) => \E i \in 1 .. Len(L) : L[i].pid = p
  <2>1. \A i \in 1 .. Len(S) : FALSE
    BY <1>4
  <2> QED
    BY <2>1 DEF Shown
<1>6. \A p \in own : \E i \in 1 .. Len(L) : L[i].pid = p
  <2> DEFINE B == {p \in own : \A i \in 1 .. Len(L) : L[i].pid # p}
  <2> SUFFICES ASSUME B # {} PROVE FALSE
    OBVIOUS
  <2>1. B \in SUBSET Int /\ B \in SUBSET own
    <3>1. B \subseteq own
      OBVIOUS
    <3> HIDE DEF B
    <3> QED
      BY <1>2, <3>1
  <2>2. \E p \in B : \A q \in B : p <= q
    <3> HIDE DEF B
    <3>1. IsFiniteSet(B)
      BY <1>2, <2>1, FS_Subset
    <3> QED
      BY <2>1, <3>1, Smallest
  <2>3. PICK p \in B : \A q \in B : p <= q
    BY <2>2
  <2>4. p \in own /\ ~\E i \in 1 .. Len(L) : L[i].pid = p
    BY <2>3
  <2>5. pcbTable[p].ppid # 0
    BY <1>1, <1>5, <2>4 DEF NoneForgotten
  <2> DEFINE q == pcbTable[p].ppid
  <2>6. q \in own /\ q < p /\ p \in Kids(own, q)
    BY <2>4, <2>5 DEF Forest
  <2> HIDE DEF q
  <2>7. q \notin B
    <3>1. p \in Int /\ q \in Int /\ ~(p <= q)
      BY <1>2, <2>4, <2>6
    <3> QED
      BY <2>3, <3>1
  <2>8. PICK i \in 1 .. Len(L) : L[i].pid = q
    BY <2>6, <2>7
  <2> QED
    BY <1>1, <1>5, <2>4, <2>6, <2>8 DEF NoneForgotten
<1>7. Len(L) = Cardinality(own)
  <2>1. own \in SUBSET own
    OBVIOUS
  <2> QED
    BY <1>1, <1>2, <1>3, <1>6, <2>1, LinesBounded
<1>8. CompleteTree(own, L)
  BY <1>1, <1>6, <1>7 DEF CompleteTree
<1> QED
  BY <1>8 DEF L

LEMMA TreeComplete ==
    ASSUME PMInv, NEW user PROVE CompleteTree(OwnPids(user), processTree(user))
<1> DEFINE own == OwnPids(user)
           n == Cardinality(own)
           N == n * (n + 1)
           g == CHOOSE g : WalkOf(g, own, N)
<1>1. processTree(user) = g[N].lines
  BY DEF processTree, WalkOf, Call, Roots
<1>2. Forest(own)
  BY OwnForest
<1> HIDE DEF own
<1>3. n \in Nat
  BY <1>2, FS_CardinalityType DEF Forest
<1> HIDE DEF n
<1>4. N \in Nat /\ n <= N
  <2>1. n * n \in Nat /\ N = n * n + n
    BY <1>3
  <2> HIDE DEF N
  <2> QED
    BY <1>3, <2>1
<1> HIDE DEF N
<1>5. WalkOf(g, own, N)
  BY <1>4, WalkExists
<1> HIDE DEF g
<1>6. WalkedBy(own, g[N], N)
  BY <1>2, <1>4, <1>5, WalkWalked
<1>7. CompleteTree(own, g[N].lines)
  BY <1>2, <1>4, <1>6, WalkEnds DEF n
<1> QED
  BY <1>1, <1>7 DEF own

-----------------------------------------------------------------------------
(* What the user is shown.                                                 *)

LEMMA TreeIsShown == PMInv => TreeShowsEachOnce
<1> SUFFICES ASSUME PMInv, NEW user \in Users
             PROVE  LET lines == processTree(user)
                        own == OwnPids(user)
                    IN  /\ Len(lines) = Cardinality(own)
                        /\ {lines[i].pid : i \in DOMAIN lines} = own
                        /\ \A j \in DOMAIN lines :
                              IF pcbTable[lines[j].pid].ppid = 0 THEN lines[j].depth = 0
                              ELSE \E i \in 1 .. j - 1 :
                                      /\ lines[i].pid = pcbTable[lines[j].pid].ppid
                                      /\ lines[j].depth = lines[i].depth + 1
                                      /\ j \in Beneath(lines, i)
  BY DEF TreeShowsEachOnce
<1> DEFINE L == processTree(user)
           own == OwnPids(user)
<1>1. CompleteTree(own, L)
  BY TreeComplete
<1> HIDE DEF L, own
<1>2. /\ L \in Seq(TreeLine(own))
      /\ Len(L) = Cardinality(own)
      /\ \A p \in own : \E i \in 1 .. Len(L) : L[i].pid = p
      /\ \A i \in 1 .. Len(L) : UnderParent(L, i - 1, L[i])
  BY <1>1 DEF CompleteTree
<1>3. /\ DOMAIN L = 1 .. Len(L) /\ Len(L) \in Nat
      /\ \A i \in 1 .. Len(L) : L[i].pid \in own /\ L[i].depth \in Nat
  <2>1. DOMAIN L = 1 .. Len(L) /\ \A i \in 1 .. Len(L) : L[i] \in TreeLine(own)
    BY <1>2
  <2> QED
    BY <1>2, <2>1 DEF TreeLine
<1>4. {L[i].pid : i \in DOMAIN L} = own
  BY <1>2, <1>3
<1>5. ASSUME NEW j \in DOMAIN L, pcbTable[L[j].pid].ppid # 0
      PROVE  \E i \in 1 .. j - 1 : /\ L[i].pid = pcbTable[L[j].pid].ppid
                                   /\ L[j].depth = L[i].depth + 1
                                   /\ j \in Beneath(L, i)
  <2>1. PICK i \in 1 .. j - 1 : /\ L[i].pid = pcbTable[L[j].pid].ppid
                                /\ L[j].depth = L[i].depth + 1
                                /\ \A k \in i + 1 .. j - 1 : L[k].depth > L[i].depth
    BY <1>2, <1>3, <1>5 DEF UnderParent
  <2>2. i \in 1 .. Len(L) /\ j \in i .. Len(L)
    BY <1>3
  <2>3. L[j].depth > L[i].depth
    BY <1>3, <2>1, <2>2
  <2>4. ASSUME NEW k \in i + 1 .. j PROVE L[k].depth > L[i].depth
    <3>1. k = j \/ k \in i + 1 .. j - 1
      BY <1>3
    <3> QED
      BY <2>1, <2>3, <3>1
  <2> QED
    BY <2>1, <2>2, <2>4 DEF Beneath
<1>6. \A j \in DOMAIN L : pcbTable[L[j].pid].ppid = 0 => L[j].depth = 0
  BY <1>2, <1>3 DEF UnderParent
<1> QED
  BY <1>2, <1>4, <1>5, <1>6 DEF L, own

(* The lines beneath a line show exactly its process's subtree: they are   *)
(* closed under children, which are shown below their parents, and the     *)
(* first of them outside any closed set would have its parent outside too. *)
LEMMA KilledIsShown == PMInv => KillsWhatIsShown
<1> SUFFICES ASSUME PMInv, NEW user \in Users, NEW i \in DOMAIN processTree(user)
             PROVE  {processTree(user)[j].pid : j \in Beneath(processTree(user), i)}
                        = Subtree(pcbTable, user, processTree(user)[i].pid)
  BY DEF KillsWhatIsShown
<1> DEFINE L == processTree(user)
           own == OwnPids(user)
           A == {L[j].pid : j \in Beneath(L, i)}
           p == L[i].pid
<1>1. /\ CompleteTree(own, L) /\ Forest(own) /\ i \in DOMAIN L
      /\ \A q : q \in own <=> q \in Pids /\ pcbTable[q].owner = user
  BY TreeComplete, OwnForest DEF OwnPids
<1> HIDE DEF L, own
<1>2. /\ L \in Seq(TreeLine(own))
      /\ \A q \in own : \E j \in 1 .. Len(L) : L[j].pid = q
      /\ \A j, k \in 1 .. Len(L) : L[j].pid = L[k].pid => j = k
      /\ \A j \in 1 .. Len(L) : UnderParent(L, j - 1, L[j])
  BY <1>1 DEF CompleteTree, Distinct
<1>3. /\ i \in 1 .. Len(L) /\ Len(L) \in Nat
      /\ \A j \in 1 .. Len(L) : L[j].pid \in own /\ L[j].depth \in Nat
  <2>1. /\ DOMAIN L = 1 .. Len(L) /\ Len(L) \in Nat
        /\ \A j \in 1 .. Len(L) : L[j] \in TreeLine(own)
    BY <1>2
  <2>2. i \in 1 .. Len(L)
    BY <1>1, <2>1
  <2> QED
    BY <2>1, <2>2 DEF TreeLine
<1>4. \A j : j \in Beneath(L, i) <=>
          /\ j \in i .. Len(L)
          /\ \A k \in i + 1 .. j : L[k].depth > L[i].depth
  BY DEF Beneath
<1>5. i \in Beneath(L, i) /\ \A j \in Beneath(L, i) : j \in 1 .. Len(L) /\ i <= j
  BY <1>3, <1>4
<1>6. ASSUME NEW j \in 1 .. Len(L), pcbTable[L[j].pid].ppid # 0
      PROVE  \E k \in 1 .. j - 1 : /\ L[k].pid = pcbTable[L[j].pid].ppid
                                   /\ L[j].depth = L[k].depth + 1
                                   /\ \A l \in k + 1 .. j - 1 : L[l].depth > L[k].depth
  BY <1>2, <1>6 DEF UnderParent
<1>7. p \in A /\ A \subseteq own
  BY <1>3, <1>5
<1>8. A \in SUBSET DOMAIN pcbTable
  BY <1>1, <1>7 DEF Pids
<1>9. ClosedUnderChildren(pcbTable, user, A)
  <2> SUFFICES ASSUME NEW q \in A, NEW c \in pcbTable[q].children,
                      c \in DOMAIN pcbTable, pcbTable[c].owner = user
               PROVE  c \in A
    BY DEF ClosedUnderChildren
  <2>1. PICK j \in Beneath(L, i) : L[j].pid = q
    OBVIOUS
  <2>2. c \in own /\ q \in own /\ c \in Kids(own, q)
    BY <1>1, <1>7 DEF Kids, Pids
  <2>3. pcbTable[c].ppid = q /\ q # 0
    BY <1>1, <2>2 DEF Forest
  <2>4. PICK m \in 1 .. Len(L) : L[m].pid = c
    BY <1>2, <2>2
  <2>5. PICK k \in 1 .. m - 1 : /\ L[k].pid = q
                                /\ L[m].depth = L[k].depth + 1
                                /\ \A l \in k + 1 .. m - 1 : L[l].depth > L[k].depth
    BY <1>6, <2>3, <2>4
  <2>6. k = j /\ j \in 1 .. Len(L) /\ i <= j
    <3>1. k \in 1 .. Len(L)
      BY <1>3, <2>4
    <3> QED
      BY <1>2, <1>5, <2>1, <2>5, <3>1
  <2>7. L[j].depth >= L[i].depth
    <3>1. j = i \/ j \in i + 1 .. j
      BY <1>3, <2>6
    <3> QED
      BY <1>3, <1>4, <2>6, <3>1
  <2>8. ASSUME NEW l \in i + 1 .. m PROVE L[l].depth > L[i].depth
    <3>1. CASE l <= j
      <4>1. l \in i + 1 .. j
        BY <1>3, <2>6, <3>1
      <4> QED
        BY <1>4, <4>1
    <3>2. CASE l > j
      <4>1. (l = m \/ l \in j + 1 .. m - 1) /\ l \in 1 .. Len(L)
        BY <1>3, <2>4, <2>6, <3>2
      <4>2. L[l].depth > L[j].depth
        BY <1>3, <2>5, <2>6, <4>1
      <4>3. L[l].depth \in Nat /\ L[j].depth \in Nat /\ L[i].depth \in Nat
        BY <1>3, <2>6, <4>1
      <4> QED
        BY <2>7, <4>2, <4>3
    <3> QED
      BY <1>3, <2>6, <3>1, <3>2
  <2>9. m \in i .. Len(L)
    BY <1>3, <2>4, <2>5, <2>6
  <2> QED
    BY <1>4, <2>4, <2>8, <2>9
<1>10. ASSUME NEW S \in SUBSET DOMAIN pcbTable, p \in S,
              ClosedUnderChildren(pcbTable, user, S)
       PROVE  A \subseteq S
  <2> DEFINE B == {j \in Beneath(L, i) : L[j].pid \notin S}
  <2> SUFFICES ASSUME B # {} PROVE FALSE
    OBVIOUS
  <2>1. B \in SUBSET Int /\ IsFiniteSet(B)
    <3>1. B \subseteq 1 .. Len(L)
      BY <1>5
    <3>2. IsFiniteSet(1 .. Len(L)) /\ 1 .. Len(L) \subseteq Int
      BY <1>3, FS_Interval
    <3> HIDE DEF B
    <3> QED
      BY <3>1, <3>2, FS_Subset
  <2>2. \E j \in B : \A k \in B : j <= k
    <3> HIDE DEF B
    <3> QED
      BY <2>1, Smallest
  <2>3. PICK j \in B : \A k \in B : j <= k
    BY <2>2
  <2>4. j \in 1 .. Len(L) /\ j \in i + 1 .. j /\ L[j].pid \notin S
    BY <1>3, <1>5, <1>10, <2>3
  <2>5. L[j].depth > L[i].depth /\ j \in i .. Len(L)
        /\ \A k \in i + 1 .. j : L[k].depth > L[i].depth
    BY <1>4, <2>3, <2>4
  <2>6. pcbTable[L[j].pid].ppid # 0
    <3>1. L[j].depth # 0
      BY <1>3, <2>4, <2>5
    <3> QED
      BY <1>2, <2>4, <3>1 DEF UnderParent
  <2>7. PICK k \in 1 .. j - 1 : /\ L[k].pid = pcbTable[L[j].pid].ppid
                                /\ L[j].depth = L[k].depth + 1
                                /\ \A l \in k + 1 .. j - 1 : L[l].depth > L[k].depth
    BY <1>6, <2>4, <2>6
  <2>8. k \in 1 .. Len(L) /\ k < j
    BY <1>3, <2>4
  <2>9. k >= i
    <3> SUFFICES ASSUME k < i PROVE FALSE
      BY <1>3, <2>8
    <3>1. i \in k + 1 .. j - 1
      BY <1>3, <2>4, <2>8
    <3>2. L[i].depth > L[k].depth /\ L[j].depth = L[k].depth + 1 /\ L[j].depth > L[i].depth
      BY <2>5, <2>7, <3>1
    <3>3. L[i].depth \in Nat /\ L[k].depth \in Nat
      BY <1>3, <2>8
    <3> QED
      BY ONLY SMT, <3>2, <3>3
  <2>10. k \in Beneath(L, i)
    <3>1. k \in i .. Len(L) /\ \A l \in i + 1 .. k : l \in i + 1 .. j
      BY <1>3, <2>4, <2>8, <2>9
    <3> QED
      BY <1>4, <2>5, <3>1
  <2>11. L[k].pid \in S
    <3>1. ~(j <= k)
      BY <2>4, <2>8
    <3> QED
      BY <2>3, <2>10, <3>1
  <2>12. /\ L[j].pid \in Pids /\ pcbTable[L[j].pid].owner = user
         /\ L[j].pid \in pcbTable[L[k].pid].children
    <3>1. L[j].pid \in own
      BY <1>3, <2>4
    <3>2. L[j].pid \in Kids(own, L[k].pid)
      BY <1>1, <2>6, <2>7, <3>1 DEF Forest
    <3> QED
      BY <1>1, <3>1, <3>2 DEF Kids
  <2> QED
    BY <1>10, <2>4, <2>11, <2>12 DEF ClosedUnderChildren, Pids
<1> HIDE DEF A, p
<1>11. A = Subtree(pcbTable, user, p)
  <2>1. \A q \in Subtree(pcbTable, user, p) : q \in A
    BY <1>7, <1>8, <1>9 DEF Subtree
  <2>2. \A q \in A : q \in Subtree(pcbTable, user, p)
    BY <1>8, <1>10 DEF Subtree
  <2> QED
    BY <2>1, <2>2
<1> QED
  BY <1>11 DEF A, p, L

(* ptree and the overview show each process of their user on exactly one   *)
(* line, under its parent, however many processes there are.               *)
THEOREM TreesComplete == TableSpec => []TreeShowsEachOnce
BY TableInvariant, TreeIsShown, PTL

(* kill_pcb takes the process and exactly what the tree shows beneath it.  *)
THEOREM KillsAsShown == TableSpec => []KillsWhatIsShown
BY TableInvariant, KilledIsShown, PTL
=============================================================================
