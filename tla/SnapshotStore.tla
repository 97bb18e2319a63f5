---------------------------- MODULE SnapshotStore ---------------------------
(***************************************************************************)
(* The files behind save and load: SnapshotStore::save of                  *)
(* src/src/persistence/SnapshotStore.cpp, step by step, with failures of   *)
(* the file system, and the load that every start of a kernel makes.       *)
(*                                                                         *)
(* Each running program has a kernel state of its own and may be inside a  *)
(* save; the two files are common to all of them.  Instances says which    *)
(* programs run a kernel and when they end.  The state of a kernel is      *)
(* reduced to a version number that requests raise.                        *)
(***************************************************************************)
EXTENDS Integers

CONSTANTS Windows,      \* the programs a user may start
          NoFile,       \* there is no such file
          Partial,      \* a file whose writing was cut short
          MaxVersion,   \* bound: how often the kernel's state changes
          Oversized     \* the versions with a string above kMaxStringLength

ASSUME StoreAssumption ==
    /\ MaxVersion \in Nat
    /\ NoFile \notin Nat /\ Partial \notin Nat /\ NoFile # Partial
    /\ Oversized \subseteq Nat \ {0}

VARIABLES version,     \* the kernel state of each program: 0 is the clean one
          saveStep,    \* where each program's save is
          finalFile,   \* data/os_state.bin
          tmpFile,     \* the temporary file next to it
          lastSaved    \* the version the last successful save wrote, or 0

storeVars == <<version, saveStep, finalFile, tmpFile, lastSaved>>

Versions == 0 .. MaxVersion

File == Versions \cup {NoFile, Partial}

StoreInit ==
    /\ version = [w \in Windows |-> 0]
    /\ saveStep = [w \in Windows |-> "idle"]
    /\ finalFile = NoFile
    /\ tmpFile = NoFile
    /\ lastSaved = 0

(* A request changes the kernel's state.                                   *)
Change(w) ==
    /\ saveStep[w] = "idle"
    /\ \E v \in Versions : v > version[w] /\ version' = [version EXCEPT ![w] = v]
    /\ UNCHANGED <<saveStep, finalFile, tmpFile, lastSaved>>

(* Mutant of SaveOpens: the snapshot itself is overwritten.                *)
SaveOpensInPlace(w) ==
    /\ saveStep[w] = "idle"
    /\ finalFile' = Partial /\ tmpFile' = Partial
    /\ saveStep' = [saveStep EXCEPT ![w] = "writing"]
    /\ UNCHANGED <<version, lastSaved>>

(* The temporary file is opened with std::ios::trunc ...                   *)
SaveOpens(w) ==
    /\ saveStep[w] = "idle"
    /\ tmpFile' = Partial
    /\ saveStep' = [saveStep EXCEPT ![w] = "writing"]
    /\ UNCHANGED <<version, finalFile, lastSaved>>

(* ... and written and flushed, whatever the lengths of its strings, ...   *)
SaveWrites(w) ==
    /\ saveStep[w] = "writing"
    /\ tmpFile' = version[w]
    /\ saveStep' = [saveStep EXCEPT ![w] = "written"]
    /\ UNCHANGED <<version, finalFile, lastSaved>>

(* ... the old snapshot is removed (an error is ignored), ...              *)
SaveRemoves(w) ==
    /\ saveStep[w] = "written"
    /\ finalFile' \in {NoFile, finalFile}
    /\ saveStep' = [saveStep EXCEPT ![w] = "removed"]
    /\ UNCHANGED <<version, tmpFile, lastSaved>>

(* ... and the temporary file takes its name, replacing one still there.   *)
SaveRenames(w) ==
    /\ saveStep[w] = "removed"
    /\ finalFile' = tmpFile
    /\ tmpFile' = NoFile
    /\ lastSaved' = version[w]
    /\ saveStep' = [saveStep EXCEPT ![w] = "idle"]
    /\ UNCHANGED version

(* The write or the rename fails: save gives up and leaves the files be.   *)
SaveFails(w) ==
    /\ saveStep[w] \in {"writing", "removed"}
    /\ saveStep' = [saveStep EXCEPT ![w] = "idle"]
    /\ UNCHANGED <<version, finalFile, tmpFile, lastSaved>>

SaveStep(w) ==
    SaveOpens(w) \/ SaveWrites(w) \/ SaveRemoves(w) \/ SaveRenames(w) \/ SaveFails(w)

(* SnapshotStore::load: a file that is cut short, and one with a string    *)
(* above the limit that only reading enforces, is rejected.                *)
Loadable == finalFile \in Versions \ Oversized

Load(w) ==
    /\ saveStep[w] = "idle"
    /\ Loadable
    /\ version' = [version EXCEPT ![w] = finalFile]
    /\ UNCHANGED <<saveStep, finalFile, tmpFile, lastSaved>>

(* Mutant of KernelStart: a temporary file left behind is taken over.      *)
KernelStartWithTmp(w) ==
    /\ IF tmpFile \in Versions
       THEN /\ finalFile' = tmpFile /\ tmpFile' = NoFile
            /\ version' = [version EXCEPT ![w] = tmpFile]
       ELSE /\ version' = [version EXCEPT ![w] = IF Loadable THEN finalFile ELSE 0]
            /\ UNCHANGED <<finalFile, tmpFile>>
    /\ UNCHANGED <<saveStep, lastSaved>>

(* Kernel::start: the snapshot if it can be loaded, else a clean kernel;   *)
(* a snapshot that cannot be loaded stays where it is.                     *)
KernelStart(w) ==
    /\ version' = [version EXCEPT ![w] = IF Loadable THEN finalFile ELSE 0]
    /\ UNCHANGED <<saveStep, finalFile, tmpFile, lastSaved>>

(* The program ends, perhaps in the middle of a save.  What was written    *)
(* stays written: it is the program that ends, not the machine.            *)
ProgramEnds(w) ==
    /\ saveStep' = [saveStep EXCEPT ![w] = "idle"]
    /\ version' = [version EXCEPT ![w] = 0]
    /\ UNCHANGED <<finalFile, tmpFile, lastSaved>>

-----------------------------------------------------------------------------
StoreTypeOK ==
    /\ version \in [Windows -> Versions]
    /\ saveStep \in [Windows -> {"idle", "writing", "written", "removed"}]
    /\ finalFile \in File /\ tmpFile \in File
    /\ lastSaved \in Versions

(* The snapshot is never a half-written file, whenever a program ends and  *)
(* whichever program starts next.                                          *)
NeverPartial == finalFile # Partial

(* The snapshot, when there is one, is what the last successful save wrote *)
(* -- not an older state that a failed or interrupted save brought back,   *)
(* nor that of a kernel that is no longer the one in use.                  *)
NeverStale == finalFile # NoFile => finalFile = lastSaved

(* Save is atomic, as README.md says: once a save has succeeded, a start   *)
(* always finds a snapshot.  The code removes the old file before it       *)
(* renames the new one.                                                    *)
SavedStateSurvives == lastSaved # 0 => finalFile # NoFile
=============================================================================
