# OSCoreSim: formal model

OSCoreSim simulates the core of an operating system for several users: processes
under a multi-level feedback queue, dynamic memory partitions, accounts, virtual
files, and a snapshot that survives restarts. One process of the program, the
*master*, owns the kernel; further ones are *clients* that forward command lines
to it. This directory holds TLA+ modules of that system, the TLC configurations
that check them and theorems that TLAPS proves. Paths below are relative to the
sources (`src/src/`).

## 1. The system

| Component | State | Operations that change it |
|---|---|---|
| Process table `process/ProcessManager` | `pcbTable_`, `readyQueues_` (Q0..Q2), `nextPid_` | create, kill (a subtree), block, wakeup, suspend, resume, renice, swap out, tick, demote, queue clean-up, address update, import |
| Scheduler `process/Scheduler` | none of its own | one step: select, run a quantum, finish or requeue |
| Memory `memory/MemoryManager` | `blocks_`, `algorithm_` | allocate (first, best, worst fit), free by address or PID, swap out, compact, set algorithm, import |
| Accounts `auth/UserManager` | `users_`, `currentUser_` | register, login (also failing), logout, import |
| Files `vfs/VirtualFileSystem` | `files_`, `nextFileId_` | touch, write, delete, import |
| Kernel `kernel/Kernel`, `kernel/CommandDispatcher` | owns the above, `schedulerRunning_`, `schedulerOwner_`, `stopping_`; worker and scheduler thread | executes one request at a time, one automatic step at a time; start, stop, save, load |
| Request queue `util/BlockingQueue` | values, `shutdownRequested_` | push, pop, shutdown |
| Pipe server and client `ipc/NamedPipe*` | `running_`, the pipe instances | serve one client after the other, stop |
| Console `app/ConsoleApp` | none | reads commands, waits for the answers, shuts down |
| Menus `app/MenuConsole` | the menu or dialog the window is in, the answers so far | put a command line together, execute it, show its effect |
| Instance guard `ipc/InstanceGuard` | the named mutex and who holds a handle | decides who is master |
| Snapshot store `persistence/SnapshotStore` | `data/os_state.bin`, a temporary file | save, load |
| Overview `view/OverviewRenderer` | none | shows copies of all the above |
| Text helpers `util` | none | |

**How they interact.** The console thread and the pipe server thread call
`Kernel::submitCommand`, which pushes a request to the queue and blocks on its
future. The worker thread pops one request after the other and executes it under
`stateMutex_`. The scheduler thread takes the same lock for each automatic step.
A request may call several components in a row (`create_pcb`: memory, then
table, then perhaps memory again; `compact`: memory, then every PCB), and a
scheduler step calls the table and the memory. `save` copies all components to a
snapshot and the store writes it; `load` and every start read it, validate it
and import it component by component, repairing what they can. A client process
writes each command line to a named pipe of which the server offers one instance
at a time. Which process is master and may touch the snapshot is decided by a
named mutex that every process opens.

**What is hard about it**, and what correctness means for each part:

* *Process table.* One fact is recorded several times: a state and a queue entry,
  a `ppid` and a `children` entry, a flag and the state SWAPPED, a priority and
  a level and a slice. Correct: the records agree after any sequence of calls
  (`QueuesMatchStates`, `TreeConsistent`, `PcbsConsistent`), and no PID
  in use is issued again (`PidsBelowNext`).
* *Scheduler.* All users share the queues. Correct: a step serves its own user in
  the right order (`RunsInTurn`), leaves everybody else's processes and
  their order alone (`OneUserPerStep`), and nobody waits for ever
  (`ScheduledProcessesComplete`).
* *Memory.* Splitting, merging and sliding blocks. Correct: the blocks tile the
  memory (`PartitionValid`), a request that fits is served (`FreeCoalesced`,
  `NoFalseRefusal`), memory in use never overlaps and moves only in a compaction
  (`ImplementsAddressSpace`).
* *Kernel.* Steps over several components, partial failures, the session against
  the scheduler thread. Correct: `MemoryMatchesProcesses`, `RollbackRestores`,
  `SchedulerServesSession`, `UsersIsolated`, `OwnersExist`, `SessionValid`.
* *Snapshots.* Correct: whatever can be reached can be saved and loaded back
  unaltered (`SnapshotLoadable`, `SnapshotFaithful`, `RecoversLastSave`), names and
  ids stay unique (`FilesUnique`), and the file is never half-written or outdated
  (`NeverPartial`, `NeverStale`, `StartRecovers`).
* *Several windows.* Masters and clients start, end and crash at any moment.
  Correct: one kernel at a time (`OneKernel`).
* *Pipeline.* Three threads of the master and other processes. Correct: an answer
  goes to the caller that waits for it (`OneRequestPerWaiter`), calls return
  (`ClientAnswered`, `ConsoleAnswered`), calls are executed one by one in the
  order they were made, as if each were one step (`ImplementsRequestService`), the
  shutdown is orderly and ends (`KernelStopsAlone`, `EofShutdownCompletes`).
* *Menus.* A line is put together here and taken apart in the kernel. Correct:
  both agree (`MenuUnderstood`, `NoShiftedAnswer`), and an exit ends the right
  window only: a client keeps it to itself (`ClientExitsUnseen`, which also says
  where the code fails to), and a master says nothing after it
  (`NothingAfterExit`).
* *Displays.* Trees and sums are computed again by code of their own. Correct:
  `TreeShowsEachOnce`, `KillsWhatIsShown`, `MemoryAddsUp`.

## 2. The modules

| Module | Models | Built on |
|---|---|---|
| `QueueOps` | filtering a ready queue in order | |
| `Owners` | the users and the empty owner | |
| `ProcessManager` | the process table, one action per operation | `QueueOps`, `Owners` |
| `Scheduler` | `Scheduler::step` | `ProcessManager` |
| `ProcessTable` | the table under all calls the kernel makes; `TableSpec` | `Scheduler` |
| `ProcessViews` | the process trees a user is shown | `ProcessManager` |
| `MemoryManager` | the partitions, one action per operation | `Owners` |
| `AddressSpace` | abstract: what a memory manager promises | |
| `MemoryPartition` | the partitions under all calls; refines `AddressSpace` | `MemoryManager` |
| `UserManager`, `VirtualFileSystem` | accounts and session; files | `Owners` |
| `Kernel` | all requests, the scheduler thread, save, load and restart; `KernelSpec` | the five component modules |
| `Overview` | the memory figures of `overview`, `mem_stat` and `status` | `Kernel` |
| `RequestService` | abstract: what `submitCommand` promises its callers | |
| `CommandPipeline` | callers, pipe, clients, queue, worker, shutdown; `PipelineSpec`; refines `RequestService` | |
| `SnapshotStore` | the files of save and load, with crashes and failures | |
| `Instances` | several windows, the mutex, start and end; `InstancesSpec` | `SnapshotStore` |
| `Console` | menus, dialogs and raw lines of a window, and the lines the kernel takes | |
| `MC...` | the instances TLC checks: symmetry sets, inputs | |
| `QueueOpsProofs` | lemmas about queues | TLAPS |
| `ProcessManagerProofs` | about the operations of table and scheduler | `QueueOpsProofs` |
| `ProcessTableProofs` | about the table under all calls and the trees | `ProcessManagerProofs` |
| `MemoryManagerProofs` | about the operations of the memory | `QueueOpsProofs` |
| `MemoryProofs` | about the partition under all calls and its refinement | `MemoryManagerProofs` |
| `KernelProofs` | about the composed kernel | `ProcessManagerProofs`, `MemoryManagerProofs` |
| `CommandPipelineProofs` | about the pipeline and its refinement | TLAPS |
| `WindowProofs` | about the windows: which one runs the kernel, and what one executes | TLAPS |

**State.** Variables bear the names of the members without the trailing
underscore. A table is a function from its key (`pcbTable`, `users`); a vector
that the code keeps sorted is a set (`blocks`, `files`, `children`); a deque is
a sequence. Left out of the data: names, tags, time stamps, salts, message
texts.

**Actions.** A public method of a component holds that component's mutex from
its first read to its return and is one action. In the kernel the unit is the
critical section under `stateMutex_`: one request, or one automatic step, with
*all* calls it makes. Hence `CreatePcb` is the conjunction of
`allocateForProcess` and `createProcess`, `KillPcb` frees the memory of exactly
the PIDs the kill removed, and `Restart` is a clean kernel plus the import. A
refused request changes nothing and is not an action, except the three that do
change state: a wrong password (`LoginRejected`), a creation rolled back
(`CreatePcbRollback`), and a load that fails after having stopped the automatic
scheduler (`LoadRejected`). Branches of `Scheduler::step` for a process that
vanishes *during* the step cannot be reached, because the kernel's lock covers
the step.

In `CommandPipeline` the unit is finer, because there the threads do run
concurrently: the check of `stopping_` and the push are two steps of
`submitCommand`, and so are the parts of each stop (flag, wake-up, join). The
pipe instance is created, connected, read and answered in steps of their own,
each of which may fail, and clients may vanish at any of them. In
`SnapshotStore` each call to the file system is a step, and a window may crash
before and after it. In `Console` an action is one line of input with everything
up to the next prompt.

**Closed forms.** A module with theorems can contain no RECURSIVE operator.
`Erase` (filtering a queue) gives each entry of the result by its rank;
`Subtree` is the least set closed under children; `Merged` builds the maximal
runs of free blocks; `CompactedStart` counts the allocated KBs below an address.
`EraseIsFilter`, an assumption of `MCProcessTable` that TLC evaluates at the
start of both runs of the process table, compares the first with the library's
`SelectSeq` on all queues of up to five entries over three values, duplicates
included; `EraseFilters` proves the two equations that define a filter, for all
queues. The depth-first walk of the tree display (`ProcessViews`) is a recursive
*function* of the number of calls made: `appendTreeNode` is one call of
`appendTreeNodeLocked`, and the calls that the loops over the children still have
to make are an explicit stack of nodes. A walk is given n(n + 1) calls for n
processes, as many as it can make when each process is expanded once.

## 3. The runs

| Run | Instance | Shows |
|---|---|---|
| `table_users` | 2 users, 3 PIDs, one priority, 3 ticks of work | `PidsBelowNext`, `QueuesMatchStates`, `TreeConsistent`, `OneUserPerStep`, `TreeShowsEachOnce`, `KillsWhatIsShown`, `RunsInTurn` |
| `table_levels` | 1 user, 2 PIDs, priorities 0, 5, 15 and the invalid 16, work 0, 1, 17 | `PMTypeOK`, `PcbsConsistent`, `RunsInTurn` |
| `memory_partition` | 5 KB, requests of 0, 1, 2 KB, 2 users, 2 processes | `PartitionValid`, `FreeCoalesced`, `NoFalseRefusal`, `ImplementsAddressSpace` |
| `kernel_requests` | 1 user, 2 PIDs, 7 ticks of work, 2 KB, blocks of 1 and 2 KB, fair scheduler | `MemoryMatchesProcesses`, `SnapshotLoadable`, `SnapshotFaithful`, `RollbackRestores`, `ScheduledProcessesComplete`, `MemoryAddsUp` |
| `kernel_users` | 2 users, 2 PIDs, 2 KB, 2 ticks of work, 2 files with 2 contents | `OwnersExist`, `SchedulerServesSession`, `UsersIsolated` |
| `kernel_snapshots` | 1 user, 1 PID, 2 file names and ids, 1 KB, one save at any moment | `SessionValid`, `FilesUnique`, `RecoversLastSave` |
| `pipeline_threads` | console, server, worker, 2 clients, both endings, fair threads | `OneRequestPerWaiter`, `KernelStopsAlone`, `ImplementsRequestService`, `ClientAnswered`, `ConsoleAnswered`, `EofShutdownCompletes` |
| `pipeline_exit` | 1 client, the console sends `exit` | `ShutdownCompletes` is violated (section 5) |
| `instances` | 3 windows, 3 changes of state, one of them unreadable | `OneKernel`, `NeverPartial`, `NeverStale`, `StartRecovers` |
| `store_atomic` | the same | `SavedStateSurvives` is violated (section 5) |
| `instance_roles` | the same | `ClientHasMaster` is violated (section 5) |
| `console` | every menu entry, nine kinds of answers, twelve raw lines, both roles | `ClientExitsUnseen`, `NothingAfterExit`, `MenuUnderstood`, `NoShiftedAnswer` |

**Bounds.** `MaxPid` and `MaxFileId` bound the creations, `MaxSaves` the saves,
`MaxVersion` the changes of the state between saves, `TotalMemoryKB` the memory
(1024 in the program). They are guards of
`createProcess`, `newFile`, `Save` and `Change`, so every other action goes on at
the bound. Three PIDs give a chain of three generations, a parent with two
children, and a foreign process between two of one's own in a queue, which are
the cases the tree, the displays and the selection tell apart. Work of 17 ticks
is more than 2 + 4 + 8: it visits Q0, Q1 and twice Q2, and its last slice is
partial. Work of 7 ticks, in `kernel_requests`, visits each queue once, so the
process that liveness is about also waits in Q2. Five KB hold two blocks with holes before, between and behind them, with
different sizes, so that the three algorithms differ and a merge can have free
blocks on both sides. In the kernel's runs the memory is as small as the requests
allow (1 or 2 KB): what the partition does is the subject of `memory_partition`,
and what it does to the rest of the kernel is proved for every size. One save suffices
because a load forgets everything since it. `kernel_snapshots` has two names and
two ids: files are created and deleted in either order, saved, and created again
after a load has put the counter back, which is how a name or an id could be given
twice. `kernel_users` has two file ids for two users, so that one session could
touch the other's file. `TooLong` and `Oversized` stand for contents and versions
above the 1 MB that `readString` accepts. `TooLong` is empty in the kernel's runs,
where it would multiply the states of two files; `LastSaveRecovered` is proved for
any `TooLong`, and `instances` checks starts with a snapshot that cannot be read. Three windows are a master, a client that outlives it, and
the window started then; three changes of state let a save replace an older
snapshot twice. Two clients race for the one pipe instance while a third party,
the wake-up of `stop`, may take it too. The answers of `MCFields` are none, the
digit 0, a digit, a word, two pairs of words, and three with vertical blanks:
alone, before a digit, and between two words. That is what the validations and the
shifting of arguments tell apart. The raw lines are blank, a vertical blank alone,
commands, and `exit` and `quit` plain, with an argument, and with a vertical blank
before or behind them.

Deadlock is checked except in the pipeline runs and in `console`, where the
window or the master has ended for good. Users are permuted by symmetry in
`table_users`, `memory_partition` and `kernel_users`, file names in
`kernel_snapshots`, windows in the runs of `Instances`; none of these checks
liveness.

**Mutants.** A definition under the heading *Mutant of ...* is no part of the
model. It is the definition below it with a plausible slip (a dropped guard, an
off-by-one, a forgotten update) and documents what a property is sensitive to:
with the mutant in the definition's place, TLC finds the property violated.
`PROJECT.json` pairs each property with one.

**Fairness.** `FairKernelSpec` has weak fairness of `AutoStep` only: the
scheduler thread looks at `schedulerRunning_` in an endless loop and waits for
`stateMutex_` no longer than one request takes. No fairness is assumed of users.
`ScheduledProcessesComplete` says that `Scheduled(p)` (p is READY and its owner's
automatic scheduler runs) is false again and again: p completes, or a command
takes it or the scheduler away. There is no priority boost in the code, so a
*never-ending* stream of new processes could starve Q2; `MaxPid` excludes that,
and the property claims nothing about it.

`FairPipelineSpec` has weak fairness of each of the three threads of the master
(the console while it is not waiting for its user, the worker, the pipe server)
and of a client process that has begun a call: it goes on with the call or
vanishes. That is all the operating system gives. When a client calls, or
whether it calls at all, is its user's choice. Calls of the operating system may
fail, and nothing keeps the creation of a pipe from failing again and again.

## 4. What is proved

For all sets of users, windows and clients, all sizes, priorities, run times and
numbers of processes, all choices, answers and raw lines. The assumptions are
those the modules name: `OwnersAssumption` (the empty owner is no user),
`PMAssumption`, `TableAssumption`, `MemoryAssumption` (there is memory),
`PartitionAssumption`, `KernelAssumption`, `StoreAssumption`,
`PipelineAssumption`, `ConsoleAssumption` (ranges of the inputs, and that the
markers are no values).

**The process table** (`TableSpec`; `ProcessTableProofs`). `TableInvariant` is
`[]PMInv`, the conjunction of the six invariants of `ProcessManager`; from it
`TypeCorrect`, `PidsFresh`, `QueuesCorrect`, `TreeCorrect` and `PcbsCorrect`
(`StatesConsistent` and `RuntimeConsistent` together) follow. None of the six is
inductive alone. The queues are right because no PCB is swapped out and READY at once (`StatesConsistent`); a created
PCB gets a fresh queue entry because its PID is new (`PidsBelowNext`); a kill
leaves the tree closed because parents and children mirror each other and have
one owner (`TreeConsistent`): the subtree computed through `children` is closed
under `ppid` too, so no survivor has lost its parent; a demoted level is in range
because the level is never better than the priority's and never below Q2
(`RuntimeConsistent`, `PMTypeOK`).

`QueueOpsProofs` counts: the rank is a bijection from the kept positions to the
positions of the result (`RankBijective`), from which follow the entries, range
and injectivity of `Erase` and of `Append`. `ProcessManagerProofs` turns the
invariant into a predicate `TableOK` of a table, its queues and the next PID, so
that lemmas speak of values, also of those in a snapshot.

Two action properties say what a step may not do. `OneUserAtATime`
(`OneUserPerStep`): every operation satisfies `LeavesOthers(owner)`, that is, it
replaces or removes only PCBs of its owner and `Touches` the queues only in
entries of that owner; what another user waits in (`InLine`, the queue without
everybody else's entries) is then the same queue (`OthersInLine`), because
filtering commutes with removing and appending entries that the filter drops.
The queue clean-up changes nothing in a state of the invariant (`CleanedSame`).
`CpuInTurn` (`RunsInTurn`) covers every run, the last one of a process included:
a process runs in a step when its run time changes or when the step completes it
(`Completes`). Only a step of the scheduler changes a run time (`TimesKept` of all
others); the entry it selects has no entry of its owner before it, and every READY
process of the owner is somewhere in the queues (`StepInTurn`). A process that
completes is removed with its subtree, and in that subtree it is the only one
whose parent is not removed too (`SubtreeRoot`).

**The trees** (`ProcessTableProofs`) are consequences of the invariant too, but of
a loop: `TreesComplete` (`TreeShowsEachOnce`) and `KillsAsShown`
(`KillsWhatIsShown`). The invariant makes the processes of one user a forest whose
parents have smaller PIDs (`OwnForest`). Between two calls of the walk
(`Walked`) no process is twice among the lines written and the nodes pending
(`OnceEach`), every root and every child of a line is among them
(`NoneForgotten`), and for each pending node the last line that is less deep is
its parent (`InPlace`). A call keeps each of the three (`ExpandOnceEach`,
`ExpandNoneForgotten`, `ExpandInPlace`): the children it puts on the stack are new
because their parent was not shown before (`KidsNew`), which is also why the mark
"(cycle detected)" never appears. The walk ends because every call with a node
pending writes a line and different lines show different processes
(`LinesBounded`, `WalkEnds`); at its end no process is missing, since the least
one that were has a parent that is shown. For the kill, the lines beneath line i
are closed under children, and the first line outside any such closed set would
have its parent outside too; so they are the least one, which `Subtree` is.

**The memory** (`PartitionSpec`; `MemoryManagerProofs`, `MemoryProofs`).
`PartitionAlwaysValid`, `AlwaysCoalesced`, `NeverRefusedFalsely` and
`PartitionImplements`, the refinement of `AddressSpace`. The invariant is
`PartitionInv`: the blocks tile the memory *and* free neighbours are merged.
`NoFalseRefusal` needs both: consecutive free KBs lie in one block, because the
next block would be a free neighbour. The work is in three lemmas about
partitions as values. `MergedValid`: the runs that `Merged` makes are free
throughout (`RunFacts`), contain every free KB (`CellInRun`) and lie apart
(`RunsApart`). `PlacedValid`: a split. And `CompactedValid`: a count of the used
KBs below an address keeps the size of a block (`CompactedSize`) and the order,
and covers everything below its end (`CompactedCovers`). Inductions over
addresses are arguments about a least address (`HasLeast`).

**The kernel** (`KernelSpec`; `KernelProofs`). `KernelInvariant` is
`[]KernelInv`: the table's invariant, the accounts, owners that exist, file ids,
the session, the owner of the automatic scheduler; the partition, and
`MemoryMatchesProcesses`, which links partition and table; and all of that for
the snapshot on disk as well: what a load or a restart imports was right when it
was saved, and nothing has touched it since. `MemoryMatchesProcesses` is where
the components need each other: a creation is given a block that no process had;
a kill frees the blocks of exactly the PIDs the table removed, a finished process
those of its PID; a compaction moves a block and the address of its PCB alike
(`CompactedStart` on both sides); a free by address can hit no process's block.
From the invariant follow

* `KernelTypes`, `SchedulerServes`, `SessionsValid`, `OwnersKnown`,
  `FilesDistinct`, `KernelQueues`, `KernelPartition`, `MemoryMatches`;
* `SavesLoadable` (`SnapshotLoadable`): each check of the validation is implied
  by a part of the invariant; and `SavesFaithful` (`SnapshotFaithful`): each
  repair of the import finds nothing to do. The children are those the `ppid`s
  give, the queues have no entry to drop, the blocks are merged already;
* `LastSaveRecovered` (`RecoversLastSave`), from the same two facts about the
  snapshot on disk;
* `RollbacksRestore` (`RollbackRestores`): placing a block in a free one and
  releasing it again gives the former blocks, since its neighbours were not free;
* `OthersLeftAlone` (`UsersIsolated`): `LeavesOthers` of the table's operations,
  and the same argument for blocks (`BlocksKept`) and files (`FilesKept`);
* `FiguresAddUp` (`MemoryAddsUp`). The figures are folds over sets, so each fact
  about them is an induction over a set. The library's induction theorems take an
  operator; `SubsetInduction` takes a *set* of good subsets instead and is proved
  from the least size of a bad one (`Smallest`). With it, the fold has a solution
  (`FoldExists`) in which the order of the elements does not matter
  (`FoldAddsUp`), sums of disjoint sets add up (`SumOfUnion`), corresponding sets
  have equal sums (`SumOfImage`: PCBs and their blocks), and a sum of the sizes of
  disjoint sets counts their union (`SumIsCount`: the KBs of the memory, in
  `SizesAddUp`).

**The pipeline** (`PipelineSpec`; `CommandPipelineProofs`). `PipelineInvariant`,
`OneRequestEach`, `StopsAlone`. The invariant counts a caller's requests in the
queue and in execution together with the answer it waits for, and says in which
order console, server and worker can have ended.

`PipelineImplements` (`ImplementsRequestService`) is the refinement. The service
has the calls not executed yet in one sequence, and a result for each caller. The
mapping takes the call in execution, if there is one, before the queue
(`Unexecuted`), and reads what a caller has of its call off its state and its
future (`ResultOf`). Pushing is `Submit`, the end of an execution is `Execute`,
taking the answer is `Receive`, a worker that finds the queue shut and empty is
`Close`; a `pop`
moves a call from the queue into execution and changes nothing (`PopSeen`), and
neither does anything that the pipe or a client does. The invariant provides that
there is at most one call in execution, that its caller still waits without an
answer, and that `ExitExecuted` changes only with an exit or when nothing is left
to execute.

**Windows and snapshot files** (`InstancesSpec`; `WindowProofs`).
`InstancesInvariant`, `OneKernelOnly`, `SnapshotWhole`, `SnapshotCurrent`,
`StartsRecover`. The handles of the mutex are exactly those of the windows that
are open, only a master is inside a save, and once the temporary file is complete
it holds that master's state.

**What a window executes** (`ConsoleSpec`; `WindowProofs`). `OnlyUnseenExits`
(`ClientExitsUnseen`), `ExitIsLast`, `MenusUnderstood`, `AnswersInPlace`. Every
entry of the menus is one of seven kinds (`MenusKnown`), by its questions and the
command it makes; the words of a line are as many as its answers have together
(`WordsOfOne`, `WordsOfTwo`, `WordsOfFive`), and a valid answer in which the kernel
finds words at all (`HasWords`) has at least one, or exactly one; hence the number
of words is one the kernel accepts exactly when, or at least whenever, each answer
is a single word (`WordsUnderstood`, `EntryUnderstood`). The invariant `ConsoleInv`
keeps the answers of an unfinished dialog valid for their questions, and the
commands of the last line either understood ones, or a single raw one that a
client has not recognised as an exit, or the exit that ends the master's window.

**Model-checked only.** Liveness under fairness is beyond the prover:
`ScheduledProcessesComplete`, `ClientAnswered`, `ConsoleAnswered` and
`EofShutdownCompletes` are properties of runs only. So is `EraseIsFilter` as it
stands, because `SelectSeq` is the library's; `EraseFilters` states the same by
its equations. Every other property of the passing runs is a theorem.

## 5. Where code and documents disagree

Three runs are expected to find a violation:

* **Exit leaves a request behind** (`kernel/Kernel.cpp:200`, run
  `pipeline_exit`). After `exit` the worker shuts the queue and leaves; a client's
  request pushed just before is never served and its promise is never set. The
  pipe server thread waits in `future.get()`, `NamedPipeServer::stop` joins that
  thread, and the master hangs. `util/BlockingQueue.h:13` promises that shutdown
  leaves no background thread behind. When the input simply ends
  (`EofShutdownCompletes`), the pipe server is stopped while the worker still
  works, and the shutdown completes.
* **Save is not atomic** (`persistence/SnapshotStore.cpp:373`, run
  `store_atomic`). The old snapshot is removed before the new one is renamed. A
  crash or a failed rename in between leaves no snapshot, and the
  next start begins clean. `README.md:77` and the design report call the
  write atomic.
* **A client without a master** (`ipc/InstanceGuard.cpp:29`, run
  `instance_roles`). Clients hold a handle to the mutex, so it outlives the
  master; a window started then is told that a master runs.

Further observations, which the model follows the code in:

* A file above 1 MB is saved, but the snapshot cannot be loaded again
  (`persistence/SnapshotStore.cpp:107`). `RecoversLastSave` and `StartRecovers`
  are stated for readable snapshots.
* There is no free pipe instance while a client is served: `NamedPipeServer.cpp`
  creates the next one just before it closes the last. A second client that calls
  meanwhile waits in `WaitNamedPipeA`; of two that wait, one finds the instance
  taken when it opens it and gives up. Between two instances there may be no pipe
  at all, and then the wait returns at once, not after 2 s.
* An answer with blanks to a question of `create_pcb` or `write_file` shifts the
  arguments behind it, and the kernel may accept the line
  (`app/MenuConsole.cpp:620`); `NoShiftedAnswer` excepts these two. Leading blanks
  of a file's content, which the menu asks for as free text, are dropped when the
  kernel cuts the line (`extractWriteFileContent`).
* The commands that show the effect of a dialog are still sent when the dialog's
  own command has reported a lost master.
* The end of input at the exit confirmation counts as a yes.
* A client recognises its exit by cutting the line at space, tab and line ends
  (`app/ConsoleApp.cpp:166`), while the kernel also cuts at vertical blanks
  (`kernel/CommandDispatcher.cpp:74`). A raw line of a vertical blank and `exit` is
  therefore sent, although the comment at `app/ConsoleApp.cpp:145` says that a
  client's exit only closes its own window. The master's worker takes it, shuts
  the queue and ends, and the master answers everything after it with "Failed to
  submit command". `ClientExitsUnseen` says that this is the only way: no menu,
  dialog, confirmation or other spelling sends an exit.
* For the same reason an answer that consists of vertical blanks only counts for
  the menu and is no word for the kernel, so the arguments behind it move up.
  `NoShiftedAnswer` and `MenuUnderstood` except such answers (`HasWords`).
* The queue display of the overview warns of READY processes of *other* users,
  which are in the shared queues by design (`view/OverviewRenderer.cpp:511`).

## 6. What is not modelled

* Text: listings, help, status, labels, the queue display and its warnings, the
  memory bar and its layout, the masking of passwords, `util`.
* In `CommandPipeline`, the exit that a client sends unnoticed (section 5).
* Steps inside a critical section. The scheduler thread's unlocked test of
  `schedulerRunning_` and its re-check under the lock (`kernel/Kernel.cpp:212` and `221`) are
  one action, as the first only saves taking the lock. `SwapOut`, which changes the
  memory first and the process second, is one action as well: the request holds
  `stateMutex_` over both, and the second cannot fail after the checks before the
  first.
* Strict numbers, the syntax of names and passwords: a rejected word leaves
  the state alone; the model starts from parsed values, valid and invalid ones
  alike. Of the kinds of blanks only what `Console` tells apart: those at which both
  the window and the kernel cut a line, and the vertical ones, at which only the
  kernel does.
* Salts and hashes: a password is right or wrong. Names and memory tags.
* The byte layout of the snapshot, its magic number and versions: reading gives
  what was written, or fails. Of the format only the limit on strings is modelled.
  The version-1 format, without files, is never written by this program.
* Partial messages: a pipe call moves a whole line or fails.
* The wrap of the 32-bit counters (PIDs, file ids, request ids).
* `setTotalMemoryKB`: the size is the same in every snapshot the program writes.

## 7. What could follow

1. An abstract specification of the kernel as seen by one user (a session over
   own processes and files), refined by `Kernel`.
2. The overview's memory bar, and the version-1 snapshot.
