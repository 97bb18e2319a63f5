------------------------------ MODULE Scheduler -----------------------------
(***************************************************************************)
(* One scheduling decision of src/src/process/Scheduler.cpp.               *)
(*                                                                         *)
(* Scheduler::step calls ProcessManager several times; Kernel holds        *)
(* stateMutex_ around the whole step, so no other operation sees the       *)
(* states in between and the step is one action here.  Its branches for a  *)
(* selected process that disappears, cannot be marked RUNNING or cannot    *)
(* tick need another thread inside the step and are not reachable.         *)
(***************************************************************************)
EXTENDS ProcessManager

quantumForQueue(level) ==
    CASE level = 0 -> 2 [] level = 1 -> 4 [] OTHER -> 8

-----------------------------------------------------------------------------
(* The parts of a step, as changes to one PCB.                             *)

RefilledSlice(pcb) ==
    [pcb EXCEPT !.timeSliceLeft =
        IF @ = 0 THEN timeSliceForQueue(pcb.queueLevel) ELSE @]

markRunning(pcb) == RefilledSlice([pcb EXCEPT !.state = "RUNNING"])

TicksRun(pcb, ticks) ==
    IF pcb.remainingTime < ticks THEN pcb.remainingTime ELSE ticks

tickProcess(pcb, ticks) ==
    LET used == TicksRun(pcb, ticks)
    IN  [pcb EXCEPT !.executedTime = @ + used,
                    !.remainingTime = @ - used,
                    !.timeSliceLeft = IF @ > used THEN @ - used ELSE 0]

(* Mutant of demoteProcess: there is always a lower queue.                 *)
demoteProcessBelow(pcb) ==
    [pcb EXCEPT !.queueLevel = @ + 1,
                !.timeSliceLeft = timeSliceForQueue(pcb.queueLevel + 1)]

demoteProcess(pcb) ==
    LET level == IF pcb.queueLevel < 2 THEN pcb.queueLevel + 1
                                       ELSE pcb.queueLevel
    IN  [pcb EXCEPT !.queueLevel = level,
                    !.timeSliceLeft = timeSliceForQueue(level)]

markReady(pcb) == RefilledSlice([pcb EXCEPT !.state = "READY"])

AfterRun(pcb) == tickProcess(markRunning(pcb), quantumForQueue(pcb.queueLevel))

(* An unfinished process is demoted if it used its whole quantum.          *)
Requeued(pcb) ==
    LET ran == AfterRun(pcb)
        usedFullQuantum == ran.executedTime - pcb.executedTime
                              >= quantumForQueue(pcb.queueLevel)
    IN  markReady(IF usedFullQuantum THEN demoteProcess(ran) ELSE ran)

-----------------------------------------------------------------------------
(* The step.                                                               *)

CleanedQueues ==
    removeFromReadyQueues(readyQueues, InvalidEntries(pcbTable, readyQueues))

(* Mutant of Selects: any entry of the owner is taken.                     *)
SelectsAny(owner, l, i) ==
    /\ i \in DOMAIN CleanedQueues[l]
    /\ pcbTable[CleanedQueues[l][i]].owner = owner

(* pickNextReadyProcess stops at entry i of queue l: the first entry, from *)
(* Q0 to Q2 and from the front, whose process belongs to owner.            *)
Selects(owner, l, i) ==
    /\ i \in DOMAIN CleanedQueues[l]
    /\ pcbTable[CleanedQueues[l][i]].owner = owner
    /\ \A j \in 1 .. i - 1 : pcbTable[CleanedQueues[l][j]].owner # owner
    /\ \A m \in 0 .. l - 1 : \A pid \in Range(CleanedQueues[m]) :
          pcbTable[pid].owner # owner

StepIdle(owner) ==
    /\ \A l \in Levels : \A pid \in Range(CleanedQueues[l]) :
          pcbTable[pid].owner # owner
    /\ readyQueues' = CleanedQueues
    /\ UNCHANGED <<pcbTable, nextPid>>

(* Mutant of StepFinish: a process whose slice is used up is done.         *)
StepFinishOnSlice(owner, pid) ==
    /\ AfterRun(pcbTable[pid]).timeSliceLeft = 0
    /\ LET removed == Subtree(pcbTable, owner, pid)
       IN  /\ pcbTable' = WithoutSubtree(pcbTable, removed)
           /\ readyQueues' = removeFromReadyQueues(CleanedQueues, removed)
    /\ UNCHANGED nextPid

(* The selected process completes: it is killed with its subtree.          *)
StepFinish(owner, pid) ==
    /\ AfterRun(pcbTable[pid]).remainingTime = 0
    /\ LET removed == Subtree(pcbTable, owner, pid)
       IN  /\ pcbTable' = WithoutSubtree(pcbTable, removed)
           /\ readyQueues' = removeFromReadyQueues(CleanedQueues, removed)
    /\ UNCHANGED nextPid

(* Mutant of StepRequeue: the process is not queued again.                 *)
StepRequeueLost(owner, pid) ==
    /\ AfterRun(pcbTable[pid]).remainingTime > 0
    /\ pcbTable' = [pcbTable EXCEPT ![pid] = Requeued(@)]
    /\ readyQueues' = removeFromReadyQueues(CleanedQueues, {pid})
    /\ UNCHANGED nextPid

(* Mutant of StepRequeue: the entries passed over are popped for good.     *)
StepRequeuePopping(owner, pid) ==
    LET q == CleanedQueues[pcbTable[pid].queueLevel]
        passed == {q[j] : j \in {k \in DOMAIN q : pid \notin Range(SubSeq(q, 1, k))}}
    IN  /\ AfterRun(pcbTable[pid]).remainingTime > 0
        /\ pcbTable' = [pcbTable EXCEPT ![pid] = Requeued(@)]
        /\ readyQueues' = enqueueReady(pcbTable',
                              removeFromReadyQueues(CleanedQueues, passed), pid)
        /\ UNCHANGED nextPid

(* The selected process goes back to the tail of its (new) queue.          *)
StepRequeue(owner, pid) ==
    /\ AfterRun(pcbTable[pid]).remainingTime > 0
    /\ pcbTable' = [pcbTable EXCEPT ![pid] = Requeued(@)]
    /\ readyQueues' = enqueueReady(pcbTable', CleanedQueues, pid)
    /\ UNCHANGED nextPid

step(owner) ==
    \/ StepIdle(owner)
    \/ \E l \in Levels : \E i \in DOMAIN CleanedQueues[l] :
          /\ Selects(owner, l, i)
          /\ \/ StepFinish(owner, CleanedQueues[l][i])
             \/ StepRequeue(owner, CleanedQueues[l][i])
=============================================================================
