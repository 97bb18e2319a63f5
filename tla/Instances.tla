------------------------------ MODULE Instances -----------------------------
(***************************************************************************)
(* Several windows of the program on one machine: the named mutex by which *)
(* InstanceGuard (src/src/ipc/InstanceGuard.cpp) decides who is master,    *)
(* the start and the end of masters and clients (src/src/main.cpp,         *)
(* src/src/app/ConsoleApp.cpp), and the snapshot files that only a master  *)
(* may touch.  The mutex exists as long as some process holds a handle to  *)
(* it, and clients hold one like masters do.                               *)
(*                                                                         *)
(* A master that hangs in its shutdown (see CommandPipeline) is one whose  *)
(* MasterEnds does not happen; its window can only be killed (Crash).      *)
(***************************************************************************)
EXTENDS SnapshotStore, FiniteSets

VARIABLES instance,       \* where each window is
          mutexHolders    \* the processes with a handle to the named mutex

instanceVars == <<instance, mutexHolders, storeVars>>

(* "starting": master, Kernel::start has not run yet; "leaving": masterLoop *)
(* has returned and the kernel is stopped, ~InstanceGuard has not run yet.  *)
Phases == {"closed", "starting", "master", "leaving", "client"}

InstancesInit ==
    /\ instance = [w \in Windows |-> "closed"]
    /\ mutexHolders = {}
    /\ StoreInit

(* InstanceGuard::initialize: CreateMutexA gives a handle in either case,  *)
(* and tells whether the mutex existed before.  If the call fails the      *)
(* program ends before it has done anything.                               *)
initialize(w) ==
    /\ instance[w] = "closed"
    /\ mutexHolders' = mutexHolders \cup {w}
    /\ instance' = [instance EXCEPT
                       ![w] = IF mutexHolders = {} THEN "starting" ELSE "client"]
    /\ UNCHANGED storeVars

MasterStarts(w) ==
    /\ instance[w] = "starting"
    /\ instance' = [instance EXCEPT ![w] = "master"]
    /\ KernelStart(w)
    /\ UNCHANGED mutexHolders

(* What the master does for its console and for its clients.               *)
MasterServes(w) ==
    /\ instance[w] = "master"
    /\ Change(w) \/ SaveStep(w) \/ Load(w)
    /\ UNCHANGED <<instance, mutexHolders>>

(* Mutant of MasterEnds: the handle is closed as soon as the console ends, *)
(* while the worker may still save.                                        *)
MasterEndsEarly(w) ==
    /\ instance[w] = "master"
    /\ mutexHolders' = mutexHolders \ {w}
    /\ UNCHANGED <<instance, storeVars>>

(* The console ends.  The pipe server and the kernel are stopped and their *)
(* threads joined, so that a save in progress is finished first.           *)
MasterEnds(w) ==
    /\ instance[w] = "master"
    /\ saveStep[w] = "idle"
    /\ instance' = [instance EXCEPT ![w] = "leaving"]
    /\ ProgramEnds(w)
    /\ UNCHANGED mutexHolders

(* ~InstanceGuard, the last thing a process does.                          *)
CloseHandle(w) ==
    /\ instance[w] \in {"leaving", "client"}
    /\ instance' = [instance EXCEPT ![w] = "closed"]
    /\ mutexHolders' = mutexHolders \ {w}
    /\ UNCHANGED storeVars

(* A window is closed or killed at any moment; the system closes handles.  *)
Crash(w) ==
    /\ instance[w] # "closed"
    /\ instance' = [instance EXCEPT ![w] = "closed"]
    /\ mutexHolders' = mutexHolders \ {w}
    /\ ProgramEnds(w)

InstancesNext ==
    \E w \in Windows :
        \/ initialize(w) \/ MasterStarts(w) \/ MasterServes(w)
        \/ MasterEnds(w) \/ CloseHandle(w) \/ Crash(w)

InstancesSpec == InstancesInit /\ [][InstancesNext]_instanceVars

-----------------------------------------------------------------------------
RunsKernel(w) == instance[w] \in {"starting", "master", "leaving"}

(* At most one process runs a kernel, from the moment it takes the mutex   *)
(* until its threads are joined: two kernels would each save a state of    *)
(* their own under the same name.                                          *)
OneKernel == \A v, w \in Windows : RunsKernel(v) /\ RunsKernel(w) => v = w

(* Every start after a successful save finds exactly what was saved,       *)
(* however masters ended in between -- unless a save was cut short while   *)
(* it replaced the file (see SavedStateSurvives), or the state saved holds *)
(* a string that only reading refuses.                                     *)
StartRecovers ==
    [][\A w \in Windows :
           /\ instance[w] = "starting" /\ instance'[w] = "master"
           /\ finalFile # NoFile /\ lastSaved \notin Oversized
           => version'[w] = lastSaved]_instanceVars

(* A process becomes a client because a master is running                  *)
(* (InstanceGuard.cpp:30), which it then asks to execute its commands.  In *)
(* the code the mutex may be that of another client.                       *)
ClientHasMaster ==
    [][\A w \in Windows :
           instance[w] = "closed" /\ instance'[w] = "client"
               => \E v \in Windows : RunsKernel(v)]_instanceVars
=============================================================================
