---------------------------- MODULE WindowProofs ----------------------------
(***************************************************************************)
(* What the windows of the program do to each other.  Which of them runs   *)
(* the kernel, and what its files hold: one kernel at a time, and a        *)
(* snapshot that is whole and current, for any number of windows and       *)
(* versions, wherever programs crash (Instances).  What a window executes: *)
(* commands the kernel understands, and which exits, for any choices,      *)
(* answers and raw lines (Console).                                        *)
(***************************************************************************)
EXTENDS Instances, Console, TLAPS

(* The mutex is held by exactly the processes that are there; only a       *)
(* master saves; and once the temporary file is written it holds that      *)
(* master's state.                                                         *)
Holders ==
    /\ instance \in [Windows -> Phases]
    /\ mutexHolders = {w \in Windows : instance[w] # "closed"}

SaveOK ==
    \A w \in Windows :
        /\ saveStep[w] # "idle" => instance[w] = "master"
        /\ saveStep[w] \in {"written", "removed"} => tmpFile = version[w]

InstancesInv ==
    /\ StoreTypeOK /\ Holders /\ SaveOK
    /\ OneKernel /\ NeverPartial /\ NeverStale

LEMMA InitEstablishes == InstancesInit => InstancesInv
<1> SUFFICES ASSUME InstancesInit PROVE InstancesInv
  OBVIOUS
<1> USE DEF InstancesInit, StoreInit
<1>1. StoreTypeOK
  BY StoreAssumption DEF StoreTypeOK, File, Versions
<1>2. Holders /\ SaveOK
  BY DEF Holders, SaveOK, Phases
<1>3. OneKernel /\ NeverPartial /\ NeverStale
  BY StoreAssumption DEF OneKernel, RunsKernel, NeverPartial, NeverStale
<1> QED
  BY <1>1, <1>2, <1>3 DEF InstancesInv

(* Starting, ending and crashing leave the files alone.                    *)
LEMMA WindowStep ==
    ASSUME InstancesInv, NEW w \in Windows,
           \/ initialize(w) \/ MasterStarts(w) \/ MasterEnds(w)
           \/ CloseHandle(w) \/ Crash(w)
    PROVE  InstancesInv'
<1> USE DEF InstancesInv
<1>1. /\ UNCHANGED <<finalFile, tmpFile, lastSaved>>
      /\ saveStep' = saveStep \/ saveStep' = [saveStep EXCEPT ![w] = "idle"]
      /\ \/ version' = version
         \/ \E v \in Versions : version' = [version EXCEPT ![w] = v]
  BY StoreAssumption DEF initialize, MasterStarts, MasterEnds, CloseHandle, Crash,
         KernelStart, ProgramEnds, storeVars, Loadable, Versions
<1>2. StoreTypeOK'
  BY <1>1 DEF StoreTypeOK
<1>3. Holders'
  <2>1. /\ instance' = [instance EXCEPT ![w] = instance'[w]]
        /\ instance'[w] \in Phases
    BY DEF initialize, MasterStarts, MasterEnds, CloseHandle, Crash, Holders, Phases
  <2>2. mutexHolders' = IF instance'[w] = "closed" THEN mutexHolders \ {w}
                                                   ELSE mutexHolders \cup {w}
    BY DEF initialize, MasterStarts, MasterEnds, CloseHandle, Crash, Holders, Phases
  <2> QED
    BY <2>1, <2>2 DEF Holders
<1>4. SaveOK'
  <2>1. \A v \in Windows \ {w} : /\ instance'[v] = instance[v]
                                 /\ saveStep'[v] = saveStep[v]
                                 /\ version'[v] = version[v]
    BY <1>1 DEF initialize, MasterStarts, MasterEnds, CloseHandle, Crash, Holders,
                StoreTypeOK
  <2>2. saveStep'[w] = "idle"
    BY DEF initialize, MasterStarts, MasterEnds, CloseHandle, Crash, Holders,
           StoreTypeOK, SaveOK, KernelStart, ProgramEnds, storeVars
  <2> QED
    BY <1>1, <2>1, <2>2 DEF SaveOK
<1>5. OneKernel'
  <2>1. CASE initialize(w)
    BY <2>1 DEF initialize, Holders, OneKernel, RunsKernel
  <2>2. CASE MasterStarts(w) \/ MasterEnds(w)
    BY <2>2 DEF MasterStarts, MasterEnds, Holders, OneKernel, RunsKernel
  <2>3. CASE CloseHandle(w) \/ Crash(w)
    BY <2>3 DEF CloseHandle, Crash, Holders, OneKernel, RunsKernel
  <2> QED
    BY <2>1, <2>2, <2>3
<1> QED
  BY <1>1, <1>2, <1>3, <1>4, <1>5 DEF NeverPartial, NeverStale

(* A master at work changes its own version and the files.                 *)
LEMMA ServeStep ==
    ASSUME InstancesInv, NEW w \in Windows, MasterServes(w)
    PROVE  InstancesInv'
<1> USE DEF InstancesInv
<1>1. /\ instance[w] = "master"
      /\ UNCHANGED <<instance, mutexHolders>>
  BY DEF MasterServes
<1>2. \A v \in Windows \ {w} : saveStep[v] = "idle"
  BY <1>1 DEF SaveOK, OneKernel, RunsKernel
<1>3. Holders' /\ OneKernel'
  BY <1>1 DEF Holders, OneKernel, RunsKernel
<1>4. CASE Change(w) \/ Load(w)
  BY <1>1, <1>2, <1>3, <1>4 DEF Change, Load, Loadable, StoreTypeOK, SaveOK,
         NeverPartial, NeverStale
<1>5. CASE SaveOpens(w)
  BY <1>1, <1>2, <1>3, <1>5 DEF SaveOpens, StoreTypeOK, SaveOK, File,
         NeverPartial, NeverStale
<1>6. CASE SaveWrites(w)
  BY <1>1, <1>2, <1>3, <1>6 DEF SaveWrites, StoreTypeOK, SaveOK, File,
         NeverPartial, NeverStale
<1>7. CASE SaveRemoves(w)
  BY <1>1, <1>2, <1>3, <1>7, StoreAssumption DEF SaveRemoves, StoreTypeOK, SaveOK,
         File, NeverPartial, NeverStale
<1>8. CASE SaveRenames(w)
  <2>1. finalFile' = version[w] /\ lastSaved' = version[w] /\ version[w] \in Versions
    BY <1>8 DEF SaveRenames, SaveOK, StoreTypeOK
  <2>2. version[w] # Partial
    BY <2>1, StoreAssumption DEF Versions
  <2> QED
    BY <1>1, <1>2, <1>3, <1>8, <2>1, <2>2 DEF SaveRenames, StoreTypeOK, SaveOK, File,
           NeverPartial, NeverStale
<1>9. CASE SaveFails(w)
  BY <1>1, <1>2, <1>3, <1>9 DEF SaveFails, StoreTypeOK, SaveOK,
         NeverPartial, NeverStale
<1> QED
  BY <1>4, <1>5, <1>6, <1>7, <1>8, <1>9 DEF MasterServes, SaveStep

(* At most one process runs a kernel; the snapshot is never half-written,  *)
(* and when there is one it is what the last successful save wrote.        *)
THEOREM InstancesInvariant == InstancesSpec => []InstancesInv
<1>1. InstancesInv /\ [InstancesNext]_instanceVars => InstancesInv'
  <2> SUFFICES ASSUME InstancesInv, [InstancesNext]_instanceVars PROVE InstancesInv'
    OBVIOUS
  <2>1. CASE UNCHANGED instanceVars
    BY <2>1 DEF instanceVars, storeVars, InstancesInv, StoreTypeOK, Holders, SaveOK,
           OneKernel, RunsKernel, NeverPartial, NeverStale
  <2>2. CASE InstancesNext
    BY <2>2, WindowStep, ServeStep DEF InstancesNext
  <2> QED
    BY <2>1, <2>2
<1> QED
  BY InitEstablishes, <1>1, PTL DEF InstancesSpec

(* Two windows never run a kernel at the same time.                        *)
THEOREM OneKernelOnly == InstancesSpec => []OneKernel
<1>1. InstancesInv => OneKernel
  BY DEF InstancesInv
<1> QED
  BY InstancesInvariant, <1>1, PTL

(* The snapshot is never half-written.                                     *)
THEOREM SnapshotWhole == InstancesSpec => []NeverPartial
<1>1. InstancesInv => NeverPartial
  BY DEF InstancesInv
<1> QED
  BY InstancesInvariant, <1>1, PTL

(* The snapshot is what the last successful save wrote.                    *)
THEOREM SnapshotCurrent == InstancesSpec => []NeverStale
<1>1. InstancesInv => NeverStale
  BY DEF InstancesInv
<1> QED
  BY InstancesInvariant, <1>1, PTL

(* A start finds what the last successful save wrote.                      *)
THEOREM StartsRecover == InstancesSpec => StartRecovers
<1>1. InstancesInv /\ [InstancesNext]_instanceVars =>
        [\A w \in Windows :
           /\ instance[w] = "starting" /\ instance'[w] = "master"
           /\ finalFile # NoFile /\ lastSaved \notin Oversized
           => version'[w] = lastSaved]_instanceVars
  <2> SUFFICES ASSUME InstancesInv, InstancesNext, NEW w \in Windows,
                      instance[w] = "starting", instance'[w] = "master",
                      finalFile # NoFile, lastSaved \notin Oversized
               PROVE  version'[w] = lastSaved
    OBVIOUS
  <2>1. MasterStarts(w)
    BY DEF InstancesNext, InstancesInv, Holders, initialize, MasterStarts, MasterServes,
           MasterEnds, CloseHandle, Crash
  <2>2. finalFile = lastSaved /\ lastSaved \in Versions \ Oversized
    BY DEF InstancesInv, NeverStale, StoreTypeOK
  <2> QED
    BY <2>1, <2>2 DEF MasterStarts, KernelStart, Loadable, InstancesInv, StoreTypeOK
<1> QED
  BY InstancesInvariant, <1>1, PTL DEF InstancesSpec, StartRecovers

-----------------------------------------------------------------------------
(* The lines a window executes.                                            *)

(* The words of one, of two and of five answers.                           *)
LEMMA WordsOfOne ==
    ASSUME NEW W, NEW s \in Seq(Seq(W)), Len(s) = 1
    PROVE  Len(Lists!FlattenSeq(s)) = Len(s[1])
<1> DEFINE F(g) == g = [i \in 1 .. 1 |-> IF i = 1 THEN s[i] ELSE g[i - 1] \o s[i]]
           f == CHOOSE g : F(g)
           w == [i \in 1 .. 1 |-> s[1]]
<1>1. F(w)
  OBVIOUS
<1>2. F(f)
  BY <1>1
<1>3. Lists!FlattenSeq(s) = f[1]
  BY DEF Lists!FlattenSeq
<1> QED
  BY <1>2, <1>3

LEMMA EntryTyped ==
    ASSUME NEW T, NEW s \in Seq(T) PROVE \A i \in 1 .. Len(s) : s[i] \in T
OBVIOUS

LEMMA WordsOfTwo ==
    ASSUME NEW W, NEW s \in Seq(Seq(W)), Len(s) = 2
    PROVE  Len(Lists!FlattenSeq(s)) = Len(s[1]) + Len(s[2])
<1> DEFINE F(g) == g = [i \in 1 .. 2 |-> IF i = 1 THEN s[i] ELSE g[i - 1] \o s[i]]
           f == CHOOSE g : F(g)
           w == [i \in 1 .. 2 |-> IF i = 1 THEN s[1] ELSE s[1] \o s[2]]
<1>1. F(w)
  OBVIOUS
<1>2. F(f)
  BY <1>1
<1>3. Lists!FlattenSeq(s) = f[2]
  BY DEF Lists!FlattenSeq
<1>4. f[2] = s[1] \o s[2]
  <2>1. \A i \in 1 .. 2 : f[i] = IF i = 1 THEN s[i] ELSE f[i - 1] \o s[i]
    BY <1>2
  <2> HIDE DEF f
  <2>2. f[1] = s[1] /\ f[2] = f[1] \o s[2]
    BY <2>1
  <2> QED
    BY <2>2
<1>5. s[1] \in Seq(W) /\ s[2] \in Seq(W)
  <2>1. \A i \in 1 .. Len(s) : s[i] \in Seq(W)
    BY Zenon, EntryTyped
  <2>2. 1 \in 1 .. Len(s) /\ 2 \in 1 .. Len(s)
    OBVIOUS
  <2> QED
    BY Zenon, <2>1, <2>2
<1> HIDE DEF f
<1>6. Len(s[1] \o s[2]) = Len(s[1]) + Len(s[2])
  BY <1>5
<1> QED
  BY <1>3, <1>4, <1>6

LEMMA Joined ==
    ASSUME NEW W, NEW a \in Seq(W), NEW b \in Seq(W)
    PROVE  a \o b \in Seq(W) /\ Len(a \o b) = Len(a) + Len(b)
OBVIOUS

LEMMA JoinedLength ==
    ASSUME NEW W, NEW a \in Seq(W), NEW b \in Seq(W), NEW c \in Seq(W),
           NEW d \in Seq(W), NEW e \in Seq(W)
    PROVE  Len((((a \o b) \o c) \o d) \o e) = Len(a) + Len(b) + Len(c) + Len(d) + Len(e)
<1> DEFINE x == a \o b
           y == x \o c
           z == y \o d
<1>1. x \in Seq(W)
  OBVIOUS
<1>2. y \in Seq(W)
  BY <1>1
<1>3. z \in Seq(W)
  BY <1>2
<1>4. Len(x) = Len(a) + Len(b)
  OBVIOUS
<1>5. Len(y) = Len(x) + Len(c)
  BY Zenon, <1>1, Joined
<1>6. Len(z) = Len(y) + Len(d)
  BY Zenon, <1>2, Joined
<1>7. Len(z \o e) = Len(z) + Len(e)
  BY Zenon, <1>3, Joined
<1> QED
  BY Zenon, <1>4, <1>5, <1>6, <1>7

LEMMA WordsOfFive ==
    ASSUME NEW W, NEW s \in Seq(Seq(W)), Len(s) = 5
    PROVE  Len(Lists!FlattenSeq(s))
               = Len(s[1]) + Len(s[2]) + Len(s[3]) + Len(s[4]) + Len(s[5])
<1> DEFINE F(g) == g = [i \in 1 .. 5 |-> IF i = 1 THEN s[i] ELSE g[i - 1] \o s[i]]
           f == CHOOSE g : F(g)
           two == s[1] \o s[2]
           three == two \o s[3]
           four == three \o s[4]
           w == [i \in 1 .. 5 |-> IF i = 1 THEN s[1] ELSE IF i = 2 THEN two
                                  ELSE IF i = 3 THEN three ELSE IF i = 4 THEN four
                                  ELSE four \o s[5]]
<1>1. F(w)
  OBVIOUS
<1>2. F(f)
  BY <1>1
<1>3. Lists!FlattenSeq(s) = f[5]
  BY DEF Lists!FlattenSeq
<1>4. f[5] = four \o s[5]
  <2>1. \A i \in 1 .. 5 : f[i] = IF i = 1 THEN s[i] ELSE f[i - 1] \o s[i]
    BY <1>2
  <2> HIDE DEF f
  <2>2. f[1] = s[1] /\ f[2] = f[1] \o s[2]
    BY <2>1
  <2>3. f[3] = f[2] \o s[3] /\ f[4] = f[3] \o s[4]
    BY <2>1
  <2>4. f[5] = f[4] \o s[5]
    BY <2>1
  <2> QED
    BY <2>2, <2>3, <2>4
<1>5. \A i \in 1 .. Len(s) : s[i] \in Seq(W)
  BY Zenon, EntryTyped
<1>6. /\ 1 \in 1 .. Len(s) /\ 2 \in 1 .. Len(s) /\ 3 \in 1 .. Len(s)
      /\ 4 \in 1 .. Len(s) /\ 5 \in 1 .. Len(s)
  OBVIOUS
<1>7. /\ s[1] \in Seq(W) /\ s[2] \in Seq(W) /\ s[3] \in Seq(W)
      /\ s[4] \in Seq(W) /\ s[5] \in Seq(W)
  BY Zenon, <1>5, <1>6
<1>8. Len(four \o s[5]) = Len(s[1]) + Len(s[2]) + Len(s[3]) + Len(s[4]) + Len(s[5])
  BY ONLY SMT, <1>7, JoinedLength
<1> HIDE DEF f, four
<1> QED
  BY Zenon, <1>3, <1>4, <1>8

-----------------------------------------------------------------------------
(* The commands the menus put together, by what they ask for.              *)

NoArguments ==
    {"logout", "whoami", "status", "overview", "list_pcb", "ptree", "readyq",
     "show_mem", "mem_stat", "compact", "ls_file", "save", "load",
     "step", "start_sched", "stop_sched", "restart_sched"}

OneArgument ==
    {"show_pcb", "block_pcb", "wakeup_pcb", "suspend", "resume", "kill_pcb",
     "free_mem", "set_alloc_algo", "swap_out", "touch_file", "read_file", "rm_file"}

TwoArguments == {"register", "login", "renice"}

Asks(e) ==
    \/ e.asks = <<>> /\ e.name \in NoArguments
    \/ e.asks = <<"required">> /\ e.name \in OneArgument
    \/ e.asks = <<"required", "required">> /\ e.name \in TwoArguments
    \/ e.asks = <<"optional">> /\ e.name = "pgfault"
    \/ e.asks = <<"tag", "size">> /\ e.name = "alloc"
    \/ e.asks = <<"required", "content">> /\ e.name = "write_file"
    \/ /\ e.asks = <<"name", "required", "required", "required", "optional">>
       /\ e.name = "create_pcb"

Shows(e) == \A i \in DOMAIN e.shows : e.shows[i] \in NoArguments

KnownEntry(e) == Asks(e) /\ Shows(e)

LEMMA PlainKnown == ASSUME NEW name \in NoArguments PROVE KnownEntry(Plain(name))
BY DEF KnownEntry, Asks, Shows, Plain, Entry

LEMMA DialogKnown ==
    ASSUME NEW name, NEW asks,
           \/ asks = <<"required">> /\ name \in OneArgument
           \/ asks = <<"required", "required">> /\ name \in TwoArguments
           \/ asks = <<"optional">> /\ name = "pgfault"
           \/ asks = <<"required", "content">> /\ name = "write_file"
    PROVE  KnownEntry(Dialog(name, asks))
BY DEF KnownEntry, Asks, Shows, Dialog, Entry

LEMMA WithTableKnown ==
    ASSUME NEW name, NEW asks,
           \/ asks = <<"required">> /\ name \in OneArgument
           \/ asks = <<"required", "required">> /\ name \in TwoArguments
    PROVE  KnownEntry(WithTable(name, asks))
BY DEF KnownEntry, Asks, Shows, WithTable, Entry, NoArguments

LEMMA MenusKnown ==
    ASSUME NEW m \in DOMAIN Entries, NEW i \in DOMAIN Entries[m]
    PROVE  KnownEntry(Entries[m][i])
<1>1. \A j \in DOMAIN handleUserMenu : KnownEntry(handleUserMenu[j])
  BY PlainKnown, DialogKnown DEF handleUserMenu, NoArguments, TwoArguments
<1>2. \A j \in DOMAIN handleProcessMenu : KnownEntry(handleProcessMenu[j])
  <2>1. KnownEntry(handleProcessMenu[1])
    BY DEF handleProcessMenu, KnownEntry, Asks, Shows, Entry, NoArguments
  <2>2. \A j \in 2 .. 11 : KnownEntry(handleProcessMenu[j])
    BY PlainKnown, DialogKnown, WithTableKnown
       DEF handleProcessMenu, NoArguments, OneArgument, TwoArguments
  <2>3. DOMAIN handleProcessMenu = 1 .. 11
    BY DEF handleProcessMenu
  <2> QED
    BY <2>1, <2>2, <2>3
<1>3. \A j \in DOMAIN handleMemoryMenu : KnownEntry(handleMemoryMenu[j])
  <2>1. KnownEntry(handleMemoryMenu[1])
    BY DEF handleMemoryMenu, KnownEntry, Asks, Shows, Entry, NoArguments
  <2>2. \A j \in 2 .. 8 : KnownEntry(handleMemoryMenu[j])
    BY PlainKnown, DialogKnown DEF handleMemoryMenu, NoArguments, OneArgument
  <2>3. DOMAIN handleMemoryMenu = 1 .. 8
    BY DEF handleMemoryMenu
  <2> QED
    BY <2>1, <2>2, <2>3
<1>4. \A j \in DOMAIN handleSchedulerMenu : KnownEntry(handleSchedulerMenu[j])
  BY PlainKnown DEF handleSchedulerMenu, NoArguments
<1>5. \A j \in DOMAIN handlePersistenceMenu : KnownEntry(handlePersistenceMenu[j])
  BY PlainKnown DEF handlePersistenceMenu, NoArguments
<1>6. \A j \in DOMAIN handleOverviewMenu : KnownEntry(handleOverviewMenu[j])
  BY PlainKnown DEF handleOverviewMenu, NoArguments
<1>7. \A j \in DOMAIN handleVfsMenu : KnownEntry(handleVfsMenu[j])
  BY PlainKnown, DialogKnown DEF handleVfsMenu, NoArguments, OneArgument
<1> QED
  BY <1>1, <1>2, <1>3, <1>4, <1>5, <1>6, <1>7 DEF Entries

-----------------------------------------------------------------------------
(* How the kernel takes them.                                              *)

LEMMA AcceptedNumbers ==
    /\ \A name \in NoArguments : Accepts(name, 0)
    /\ \A name \in OneArgument : \A n \in Nat : Accepts(name, n) <=> n = 1
    /\ \A name \in TwoArguments : \A n \in Nat : Accepts(name, n) <=> n = 2
    /\ \A n \in Nat : Accepts("pgfault", n) <=> n <= 1
    /\ \A n \in Nat : Accepts("alloc", n) <=> n \in {1, 2}
    /\ \A n \in Nat : Accepts("write_file", n) <=> n >= 2
    /\ \A n \in Nat : Accepts("create_pcb", n) <=> n \in {4, 5}
<1>1. \A name \in NoArguments : Accepts(name, 0)
  BY DEF NoArguments, Accepts, AcceptsDispatched, AcceptsInKernel
<1>2. \A name \in OneArgument : \A n \in Nat : Accepts(name, n) <=> n = 1
  BY DEF OneArgument, Accepts, AcceptsDispatched, AcceptsInKernel
<1>3. \A name \in TwoArguments : \A n \in Nat : Accepts(name, n) <=> n = 2
  BY DEF TwoArguments, Accepts, AcceptsDispatched, AcceptsInKernel
<1>4. /\ \A n \in Nat : Accepts("pgfault", n) <=> n <= 1
      /\ \A n \in Nat : Accepts("alloc", n) <=> n \in {1, 2}
      /\ \A n \in Nat : Accepts("write_file", n) <=> n >= 2
      /\ \A n \in Nat : Accepts("create_pcb", n) <=> n \in {4, 5}
  BY DEF Accepts, AcceptsDispatched, AcceptsInKernel
<1> QED
  BY <1>1, <1>2, <1>3, <1>4

(* The command is no exit, its menu and the kernel agree about its         *)
(* arguments, and it is not taken with a shifted answer.                   *)
Understood(c) ==
    /\ ~IsExit(c)
    /\ OneWordEach(c) => Accepts(c.name, Len(Arguments(c)))
    /\ /\ HasWords(c) /\ c.name \notin {"create_pcb", "write_file"}
       /\ Accepts(c.name, Len(Arguments(c)))
       => OneWordEach(c)

LEMMA PlainUnderstood ==
    ASSUME NEW name \in NoArguments PROVE Understood(Command(name, <<>>))
<1> DEFINE c == Command(name, <<>>)
<1>1. c.name = name /\ c.fields = <<>>
  BY DEF Command
<1> HIDE DEF c
<1>2. Arguments(c) = <<>> /\ OneWordEach(c)
  <2>1. DOMAIN c.fields = {} /\ [i \in DOMAIN c.fields |-> c.fields[i].words] = <<>>
    BY <1>1
  <2> QED
    BY <2>1 DEF Arguments, Lists!FlattenSeq, OneWordEach, HasWords
<1>3. ~IsExit(c)
  BY <1>1 DEF IsExit, NoArguments
<1> QED
  BY <1>1, <1>2, <1>3, AcceptedNumbers DEF Understood, c

LEMMA LineFacts ==
    ASSUME NEW line \in Fields
    PROVE  /\ line.words \in Seq(Words) /\ Len(line.words) \in Nat
           /\ line # Blank /\ line.words # <<>> => Len(line.words) >= 1
           /\ \A ask \in {"required", "content", "name"} : Valid(ask, line) => line # Blank
           /\ \A ask \in {"tag", "size"} :
                 Valid(ask, line) => line # Blank /\ Len(line.words) = 1
<1>1. line.words \in Seq(Words)
  BY ConsoleAssumption DEF Lines
<1>2. Len(line.words) \in Nat /\ (line.words # <<>> => Len(line.words) >= 1)
  BY <1>1
<1>3. ASSUME NEW word, line = Line(<<word>>) PROVE line # Blank /\ Len(line.words) = 1
  <2>1. line.words = <<word>> /\ Len(<<word>>) = 1 /\ <<word>> # <<>>
    BY <1>3 DEF Line
  <2>2. Blank.words = <<>>
    BY DEF Blank, Line
  <2> QED
    BY <2>1, <2>2
<1>4. \A ask \in {"tag", "size"} : Valid(ask, line) => \E word : line = Line(<<word>>)
  BY DEF Valid, AnyOf
<1>5. \A ask \in {"required", "content", "name"} : Valid(ask, line) => line # Blank
  BY DEF Valid
<1> QED
  BY <1>1, <1>2, <1>3, <1>4, <1>5

LEMMA TwoPositive ==
    \A k, m \in Nat : k >= 1 /\ m >= 1 =>
        /\ k + m \in Nat /\ k + m >= 2
        /\ k + m = 2 <=> k <= 1 /\ m <= 1
OBVIOUS

SingleWords(w) == \A i \in 1 .. Len(w) : Len(w[i]) <= 1

(* The words of the answers to an entry's questions are as many as the     *)
(* kernel takes exactly when, or at least whenever, each answer is a       *)
(* single word.                                                            *)
LEMMA WordsUnderstood ==
    ASSUME NEW e, KnownEntry(e), NEW w \in Seq(Seq(Words)), Len(w) = Len(e.asks),
           e.asks # <<>>,
           \A i \in 1 .. Len(w) :
               /\ Len(w[i]) \in Nat
               /\ e.asks[i] \in {"required", "content", "name"} => Len(w[i]) >= 1
               /\ e.asks[i] \in {"tag", "size"} => Len(w[i]) = 1,
           NEW n, n = Len(Lists!FlattenSeq(w))
    PROVE  \/ SingleWords(w) <=> Accepts(e.name, n)
           \/ /\ e.name \in {"create_pcb", "write_file"}
              /\ SingleWords(w) => Accepts(e.name, n)
<1>1. \A i \in 1 .. Len(w) :
          /\ Len(w[i]) \in Nat
          /\ e.asks[i] \in {"required", "content", "name"} => Len(w[i]) >= 1
          /\ e.asks[i] \in {"tag", "size"} => Len(w[i]) = 1
  OBVIOUS
<1>2. ASSUME e.asks = <<"required">>, e.name \in OneArgument
      PROVE  SingleWords(w) <=> Accepts(e.name, n)
  <2>1. Len(w) = 1
    BY <1>2
  <2>2. n = Len(w[1])
    BY <2>1, WordsOfOne
  <2>3. 1 \in 1 .. Len(w)
    BY <2>1
  <2>4. e.asks[1] = "required"
    BY <1>2
  <2>5. n \in Nat /\ n >= 1
    BY <1>1, <2>2, <2>3, <2>4
  <2>6. SingleWords(w) <=> n <= 1
    BY <2>1, <2>2 DEF SingleWords
  <2>7. Accepts(e.name, n) <=> n = 1
    BY <1>2, <2>5, AcceptedNumbers
  <2> QED
    BY <2>5, <2>6, <2>7
<1>3. ASSUME e.asks = <<"required", "required">>, e.name \in TwoArguments
      PROVE  SingleWords(w) <=> Accepts(e.name, n)
  <2>1. Len(w) = 2
    BY <1>3
  <2>2. n = Len(w[1]) + Len(w[2])
    BY <2>1, WordsOfTwo
  <2>3. 1 \in 1 .. Len(w) /\ 2 \in 1 .. Len(w)
    BY <2>1
  <2>4. e.asks[1] = "required" /\ e.asks[2] = "required"
    BY <1>3
  <2>6. /\ Len(w[1]) \in Nat /\ Len(w[2]) \in Nat
        /\ Len(w[1]) >= 1 /\ Len(w[2]) >= 1
    BY <1>1, <2>3, <2>4
  <2>7. SingleWords(w) <=> Len(w[1]) <= 1 /\ Len(w[2]) <= 1
    BY <2>1 DEF SingleWords
  <2>8. n \in Nat /\ (n = 2 <=> Len(w[1]) <= 1 /\ Len(w[2]) <= 1)
    BY Zenon, <2>2, <2>6, TwoPositive
  <2>9. Accepts(e.name, n) <=> n = 2
    BY <1>3, <2>8, AcceptedNumbers
  <2> QED
    BY <2>7, <2>8, <2>9
<1>4. ASSUME e.asks = <<"optional">>, e.name = "pgfault"
       PROVE  SingleWords(w) <=> Accepts(e.name, n)
  <2>1. Len(w) = 1
    BY <1>4
  <2>2. n = Len(w[1])
    BY <2>1, WordsOfOne
  <2>3. n \in Nat
    BY <1>1, <2>1, <2>2
  <2>4. SingleWords(w) <=> n <= 1
    BY <2>1, <2>2 DEF SingleWords
  <2>5. Accepts(e.name, n) <=> n <= 1
    BY <1>4, <2>3, AcceptedNumbers
  <2> QED
    BY <2>4, <2>5
<1>5. ASSUME e.asks = <<"tag", "size">>, e.name = "alloc"
       PROVE  SingleWords(w) /\ Accepts(e.name, n)
  <2>1. Len(w) = 2
    BY <1>5
  <2>2. n = Len(w[1]) + Len(w[2])
    BY <2>1, WordsOfTwo
  <2>3. 1 \in 1 .. Len(w) /\ 2 \in 1 .. Len(w)
    BY <2>1
  <2>4. e.asks[1] = "tag" /\ e.asks[2] = "size"
    BY <1>5
  <2>6. /\ Len(w[1]) \in Nat /\ Len(w[2]) \in Nat
        /\ Len(w[1]) = 1 /\ Len(w[2]) = 1
    BY <1>1, <2>3, <2>4
  <2>7. SingleWords(w)
    <3>1. \A i \in 1 .. Len(w) : i = 1 \/ i = 2
      BY <2>1
    <3>2. 1 <= 1
      OBVIOUS
    <3> QED
      BY Zenon, <2>6, <3>1, <3>2 DEF SingleWords
  <2>8. n = 2 /\ n \in Nat
    <3>1. n = 1 + 1
      BY Zenon, <2>2, <2>6
    <3> QED
      BY <3>1
  <2> QED
    BY <1>5, <2>7, <2>8, AcceptedNumbers
<1>6. ASSUME e.asks = <<"required", "content">>, e.name = "write_file"
       PROVE  SingleWords(w) => Accepts(e.name, n)
  <2>1. Len(w) = 2
    BY <1>6
  <2>2. n = Len(w[1]) + Len(w[2])
    BY <2>1, WordsOfTwo
  <2>3. 1 \in 1 .. Len(w) /\ 2 \in 1 .. Len(w)
    BY <2>1
  <2>4. e.asks[1] = "required" /\ e.asks[2] = "content"
    BY <1>6
  <2>6. /\ Len(w[1]) \in Nat /\ Len(w[2]) \in Nat
        /\ Len(w[1]) >= 1 /\ Len(w[2]) >= 1
    BY <1>1, <2>3, <2>4
  <2>7. n \in Nat /\ n >= 2
    BY Zenon, <2>2, <2>6, TwoPositive
  <2> QED
    BY <1>6, <2>7, AcceptedNumbers
<1>7. ASSUME e.asks = <<"name", "required", "required", "required", "optional">>,
              e.name = "create_pcb"
       PROVE  SingleWords(w) => Accepts(e.name, n)
  <2>1. Len(w) = 5
    BY <1>7
  <2>2. n = Len(w[1]) + Len(w[2]) + Len(w[3]) + Len(w[4]) + Len(w[5])
    BY <2>1, WordsOfFive
  <2>3. /\ e.asks[1] = "name" /\ e.asks[2] = "required" /\ e.asks[3] = "required"
        /\ e.asks[4] = "required"
    BY <1>7
  <2>4. \A i \in 1 .. 5 : Len(w[i]) \in Nat
    BY <1>1, <2>1
  <2>5. Len(w[1]) >= 1 /\ Len(w[2]) >= 1 /\ Len(w[3]) >= 1 /\ Len(w[4]) >= 1
    BY <1>1, <2>1, <2>3
  <2>6. SingleWords(w) => \A i \in 1 .. 5 : Len(w[i]) <= 1
    BY <2>1 DEF SingleWords
  <2>7. SingleWords(w) => n \in {4, 5}
    <3> DEFINE l(i) == Len(w[i])
    <3>1. n = l(1) + l(2) + l(3) + l(4) + l(5)
      BY <2>2
    <3>2. /\ l(1) \in Nat /\ l(2) \in Nat /\ l(3) \in Nat /\ l(4) \in Nat /\ l(5) \in Nat
          /\ l(1) >= 1 /\ l(2) >= 1 /\ l(3) >= 1 /\ l(4) >= 1
      BY <2>4, <2>5
    <3>3. SingleWords(w) => l(1) <= 1 /\ l(2) <= 1 /\ l(3) <= 1 /\ l(4) <= 1 /\ l(5) <= 1
      BY <2>6
    <3> HIDE DEF l
    <3> QED
      BY <3>1, <3>2, <3>3
  <2>8. n \in {4, 5} => Accepts("create_pcb", n)
    <3>1. n \in {4, 5} => n \in Nat
      OBVIOUS
    <3> QED
      BY Zenon, <3>1, AcceptedNumbers
  <2> QED
    BY Zenon, <1>7, <2>7, <2>8
<1>8. \/ e.asks = <<"required">> /\ e.name \in OneArgument
      \/ e.asks = <<"required", "required">> /\ e.name \in TwoArguments
      \/ e.asks = <<"optional">> /\ e.name = "pgfault"
      \/ e.asks = <<"tag", "size">> /\ e.name = "alloc"
      \/ e.asks = <<"required", "content">> /\ e.name = "write_file"
      \/ /\ e.asks = <<"name", "required", "required", "required", "optional">>
         /\ e.name = "create_pcb"
  BY Zenon DEF KnownEntry, Asks
<1> DEFINE either == SingleWords(w) <=> Accepts(e.name, n)
           least == /\ e.name \in {"create_pcb", "write_file"}
                    /\ SingleWords(w) => Accepts(e.name, n)
<1>9. either \/ least
  <2>1. CASE e.asks = <<"required">> /\ e.name \in OneArgument
    BY Zenon, <2>1, <1>2
  <2>2. CASE e.asks = <<"required", "required">> /\ e.name \in TwoArguments
    BY Zenon, <2>2, <1>3
  <2>3. CASE e.asks = <<"optional">> /\ e.name = "pgfault"
    BY Zenon, <2>3, <1>4
  <2>4. CASE e.asks = <<"tag", "size">> /\ e.name = "alloc"
    BY Zenon, <2>4, <1>5
  <2>5. CASE e.asks = <<"required", "content">> /\ e.name = "write_file"
    BY Zenon, <2>5, <1>6
  <2>6. CASE /\ e.asks = <<"name", "required", "required", "required", "optional">>
             /\ e.name = "create_pcb"
    BY Zenon, <2>6, <1>7
  <2> QED
    BY Zenon, <1>8, <2>1, <2>2, <2>3, <2>4, <2>5, <2>6
<1> QED
  BY Zenon, <1>9

(* Every line that the questions of an entry can put together.             *)
LEMMA EntryUnderstood ==
    ASSUME NEW e, KnownEntry(e), e.asks # <<>>, NEW a \in Seq(Fields), Len(a) = Len(e.asks),
           \A i \in 1 .. Len(a) : Valid(e.asks[i], a[i])
    PROVE  Understood(Command(e.name, a))
<1> DEFINE c == Command(e.name, a)
           w == [i \in 1 .. Len(a) |-> a[i].words]
           n == Len(Arguments(c))
<1>1. c.name = e.name /\ c.fields = a
  BY DEF Command
<1>2. DOMAIN a = 1 .. Len(a) /\ \A i \in 1 .. Len(a) : a[i] \in Fields
  OBVIOUS
<1>3. n = Len(Lists!FlattenSeq(w))
  <2>1. [i \in DOMAIN c.fields |-> c.fields[i].words] = w
    BY <1>1, <1>2
  <2> QED
    BY Zenon, <2>1 DEF Arguments
<1>4. ~IsExit(c)
  BY <1>1 DEF KnownEntry, Asks, IsExit, OneArgument, TwoArguments
<1>5. OneWordEach(c) <=> HasWords(c) /\ SingleWords(w)
  <2> DEFINE Single == \A i \in DOMAIN c.fields : Len(c.fields[i].words) <= 1
  <2>1. Len(w) = Len(a) /\ \A i \in 1 .. Len(a) : w[i] = a[i].words
    BY <1>2
  <2>2. Single <=> SingleWords(w)
    BY <1>1, <1>2, <2>1 DEF SingleWords
  <2> QED
    BY Zenon, <2>2 DEF OneWordEach
<1>6. HasWords(c) => \A i \in 1 .. Len(a) : a[i] # Blank => a[i].words # <<>>
  BY <1>1, <1>2 DEF HasWords
<1>7. ASSUME HasWords(c)
      PROVE  \/ OneWordEach(c) <=> Accepts(e.name, n)
             \/ /\ e.name \in {"create_pcb", "write_file"}
                /\ OneWordEach(c) => Accepts(e.name, n)
  <2>1. w \in Seq(Seq(Words)) /\ Len(w) = Len(a)
    <3>1. \A i \in 1 .. Len(a) : a[i].words \in Seq(Words)
      BY <1>2, LineFacts
    <3> QED
      BY <3>1
  <2>2. ASSUME NEW i \in 1 .. Len(w)
        PROVE  /\ Len(w[i]) \in Nat
               /\ e.asks[i] \in {"required", "content", "name"} => Len(w[i]) >= 1
               /\ e.asks[i] \in {"tag", "size"} => Len(w[i]) = 1
    <3>1. w[i] = a[i].words /\ a[i] \in Fields /\ Valid(e.asks[i], a[i])
      BY <1>2, <2>1
    <3>2. a[i] # Blank => a[i].words # <<>>
      BY <1>6, <1>7, <2>1
    <3> HIDE DEF w
    <3> QED
      BY <3>1, <3>2, LineFacts
  <2>3. OneWordEach(c) <=> SingleWords(w)
    BY <1>5, <1>7
  <2> HIDE DEF c, w, n
  <2>4. \/ SingleWords(w) <=> Accepts(e.name, n)
        \/ /\ e.name \in {"create_pcb", "write_file"}
           /\ SingleWords(w) => Accepts(e.name, n)
    BY Zenon, <1>3, <2>1, <2>2, WordsUnderstood
  <2> QED
    BY <2>3, <2>4
<1> QED
  BY <1>1, <1>4, <1>5, <1>7 DEF Understood, c, n

-----------------------------------------------------------------------------
(* The invariant.                                                          *)

(* What was executed since the last line: commands of the menus, or one    *)
(* command that may be an exit: the master's window ends with it, and a    *)
(* client's has not seen it.                                               *)
MenuCommands(commands) == \A i \in DOMAIN commands : Understood(commands[i])

SingleCommand(r, where, commands) ==
    /\ Len(commands) = 1
    /\ \/ commands[1].raw
       \/ commands[1] = Command("exit", <<>>)
    /\ IsExit(commands[1]) => IF r = "MASTER" THEN where = "ended" ELSE Unseen(commands[1])

SentOK(r, where, commands) ==
    /\ \E n \in Nat : DOMAIN commands = 1 .. n /\ Len(commands) = n
    /\ MenuCommands(commands) \/ SingleCommand(r, where, commands)

(* A dialog belongs to an entry that asks something, and what was answered *)
(* is valid.                                                               *)
InDialog(d) == d[1] \in DOMAIN Entries /\ d[2] \in DOMAIN Entries[d[1]]

Answered(d, a) ==
    /\ a \in Seq(Fields)
    /\ \A i \in 1 .. Len(a) : Valid(Entries[d[1]][d[2]].asks[i], a[i])

DialogOK ==
    /\ place \in {"asked", "again"} => InDialog(dialog)
    /\ place = "asked" => Answered(dialog, answers)
    /\ place \notin {"asked", "ended"} => answers = <<>>

RoleKnown == role \in {"MASTER", "CLIENT"}

ConsoleInv == SentOK(role, place, sent) /\ DialogOK

LEMMA NothingSent == ASSUME NEW r, NEW where PROVE SentOK(r, where, <<>>)
<1>1. DOMAIN <<>> = 1 .. 0 /\ Len(<<>>) = 0 /\ 0 \in Nat
  OBVIOUS
<1> QED
  BY <1>1 DEF SentOK, MenuCommands

LEMMA NoAnswers == ASSUME NEW d PROVE Answered(d, <<>>)
BY DEF Answered

LEMMA MenuPlaces ==
    ASSUME NEW m \in DOMAIN Entries
    PROVE  m \notin {"main", "raw", "confirm", "asked", "again", "ended"}
BY DEF Entries

LEMMA GoesOnOK ==
    ASSUME NEW next, GoesOn(next) PROVE SentOK(role', place', sent') /\ place' = next
BY NothingSent DEF GoesOn

(* A menu may answer its commands' outcome by ending; what it sent is OK   *)
(* in either case.                                                         *)
LEMMA ExecutesMenu ==
    ASSUME NEW commands, NEW n \in Nat, DOMAIN commands = 1 .. n, Len(commands) = n,
           MenuCommands(commands), NEW next, Executes(commands, next)
    PROVE  SentOK(role', place', sent') /\ place' \in {"ended", next}
<1>1. sent' = commands /\ place' \in {"ended", next}
  BY DEF Executes
<1> QED
  BY <1>1 DEF SentOK

LEMMA InitIsOK == ConsoleInit => ConsoleInv
<1> SUFFICES ASSUME ConsoleInit PROVE ConsoleInv
  OBVIOUS
<1>1. SentOK(role, place, sent)
  BY NothingSent DEF ConsoleInit
<1> QED
  BY <1>1 DEF ConsoleInit, ConsoleInv, DialogOK

LEMMA MainMenuStep ==
    ASSUME ConsoleInv, NEW word, MainMenu(word) PROVE ConsoleInv'
<1>1. PICK next : GoesOn(next) /\ next \notin {"asked", "again", "ended"}
  <2>1. \A i \in DOMAIN Menus : Menus[i] \notin {"asked", "again", "ended"}
    BY DEF Menus
  <2> QED
    BY <2>1 DEF MainMenu
<1>2. place' = next /\ answers' = <<>>
  BY <1>1, GoesOnOK DEF MainMenu, ConsoleInv, DialogOK
<1> QED
  BY <1>1, <1>2, GoesOnOK DEF ConsoleInv, DialogOK

LEMMA ConfirmStep ==
    ASSUME ConsoleInv, NEW confirmed, confirmExit(confirmed) PROVE ConsoleInv'
<1>1. answers' = <<>> /\ role' = role
  BY DEF confirmExit, ConsoleInv, DialogOK
<1>2. CASE GoesOn("main")
  BY <1>1, <1>2, GoesOnOK DEF ConsoleInv, DialogOK
<1>3. CASE /\ sent' = IF role = "MASTER" THEN <<Command("exit", <<>>)>> ELSE <<>>
           /\ place' = "ended"
  <2>1. CASE role = "MASTER"
    <3>1. sent' = <<Command("exit", <<>>)>>
      BY <1>3, <2>1
    <3> DEFINE c == Command("exit", <<>>)
    <3> HIDE DEF c
    <3>2. sent' = <<c>> /\ c = Command("exit", <<>>)
      BY <3>1 DEF c
    <3>3. DOMAIN sent' = 1 .. 1 /\ Len(sent') = 1 /\ sent'[1] = c /\ 1 \in Nat
      BY <3>2
    <3>4. SentOK(role', place', sent')
      BY <1>1, <1>3, <2>1, <3>2, <3>3 DEF SentOK, SingleCommand
    <3> QED
      BY <1>3, <3>4 DEF ConsoleInv, DialogOK
  <2>2. CASE role # "MASTER"
    <3>1. SentOK(role', place', sent')
      BY <1>3, <2>2, NothingSent
    <3> QED
      BY <1>3, <3>1 DEF ConsoleInv, DialogOK
  <2> QED
    BY <2>1, <2>2
<1> QED
  BY <1>2, <1>3 DEF confirmExit

LEMMA SubmenuStep ==
    ASSUME ConsoleInv, NEW word, Submenu(word) PROVE ConsoleInv'
<1>1. place \in DOMAIN Entries
  BY DEF Submenu
<1>2. answers = <<>> /\ answers' = <<>> /\ role' = role
  BY <1>1, MenuPlaces DEF Submenu, ConsoleInv, DialogOK
<1>3. ASSUME NEW next \in {"main", place}, GoesOn(next) PROVE ConsoleInv'
  BY <1>1, <1>2, <1>3, GoesOnOK, MenuPlaces DEF ConsoleInv, DialogOK
<1>4. ASSUME NEW i \in DOMAIN Entries[place], Entries[place][i].asks = <<>>,
             Executes(<<Command(Entries[place][i].name, <<>>)>>, place)
      PROVE  ConsoleInv'
  <2> DEFINE c == Command(Entries[place][i].name, <<>>)
  <2>1. Entries[place][i].name \in NoArguments
    BY <1>1, <1>4, MenusKnown DEF KnownEntry, Asks
  <2>2. Understood(c)
    BY <2>1, PlainUnderstood
  <2> HIDE DEF c
  <2>3. DOMAIN <<c>> = 1 .. 1 /\ Len(<<c>>) = 1 /\ 1 \in Nat /\ MenuCommands(<<c>>)
    BY <2>2 DEF MenuCommands
  <2>4. Executes(<<c>>, place)
    BY <1>4 DEF c
  <2>5. SentOK(role', place', sent') /\ place' \in {"ended", place}
    BY <2>3, <2>4, ExecutesMenu
  <2> QED
    BY <1>1, <1>2, <2>5, MenuPlaces DEF ConsoleInv, DialogOK
<1>5. ASSUME NEW i \in DOMAIN Entries[place], dialog' = <<place, i>>, GoesOn("asked")
      PROVE  ConsoleInv'
  <2>1. InDialog(dialog')
    BY <1>1, <1>5 DEF InDialog
  <2> QED
    BY <1>2, <1>5, <2>1, GoesOnOK, NoAnswers DEF ConsoleInv, DialogOK
<1> QED
  BY <1>3, <1>4, <1>5 DEF Submenu

LEMMA AnswerStep ==
    ASSUME ConsoleInv, NEW line \in Fields,
           AnswerLeaves(line) \/ AnswerInvalid(line) \/ AnswerOne(line)
    PROVE  ConsoleInv'
<1>1. place = "asked" /\ InDialog(dialog) /\ Answered(dialog, answers)
  BY DEF AnswerLeaves, AnswerInvalid, AnswerOne, ConsoleInv, DialogOK
<1>2. dialog[1] \in DOMAIN Entries
  BY <1>1 DEF InDialog
<1>3. ASSUME GoesOn(dialog[1]), LeaveDialog PROVE ConsoleInv'
  BY <1>2, <1>3, GoesOnOK, MenuPlaces DEF ConsoleInv, DialogOK, LeaveDialog
<1>4. ASSUME GoesOn("asked"), answers' = <<>>, UNCHANGED dialog PROVE ConsoleInv'
  BY <1>1, <1>4, GoesOnOK, NoAnswers DEF ConsoleInv, DialogOK
<1>5. CASE AnswerOne(line)
  <2>1. /\ Valid(Entries[dialog[1]][dialog[2]].asks[Len(answers) + 1], line)
        /\ answers' = Append(answers, line) /\ dialog' = dialog /\ GoesOn("asked")
    BY <1>5 DEF AnswerOne, NextAsk, CurrentEntry
  <2> DEFINE asks == Entries[dialog[1]][dialog[2]].asks
  <2>2. answers \in Seq(Fields) /\ \A i \in 1 .. Len(answers) : Valid(asks[i], answers[i])
    BY <1>1 DEF Answered
  <2>3. Valid(asks[Len(answers) + 1], line)
    BY <2>1
  <2> HIDE DEF asks
  <2>4. /\ Append(answers, line) \in Seq(Fields)
        /\ \A i \in 1 .. Len(Append(answers, line)) : Valid(asks[i], Append(answers, line)[i])
    BY <2>2, <2>3
  <2>5. Answered(dialog', answers')
    BY <2>1, <2>4 DEF Answered, asks
  <2> QED
    BY <1>1, <2>1, <2>5, GoesOnOK DEF ConsoleInv, DialogOK
<1> QED
  BY <1>3, <1>4, <1>5 DEF AnswerLeaves, AnswerInvalid, LeaveDialog

(* The command of a dialog, and the commands that show its effect.         *)
LEMMA FunctionIsSequence ==
    ASSUME NEW T, NEW m \in Nat, NEW f, DOMAIN f = 1 .. m, f = [i \in 1 .. m |-> f[i]],
           \A i \in 1 .. m : f[i] \in T
    PROVE  f \in Seq(T)
OBVIOUS

LEMMA PrependedUnderstood ==
    ASSUME NEW T, NEW c \in T, NEW s \in Seq(T), \A x \in T : Understood(x)
    PROVE  \E n \in Nat : /\ DOMAIN (<<c>> \o s) = 1 .. n /\ Len(<<c>> \o s) = n
                          /\ MenuCommands(<<c>> \o s)
<1>1. /\ Len(<<c>> \o s) = 1 + Len(s) /\ 1 + Len(s) \in Nat
      /\ DOMAIN (<<c>> \o s) = 1 .. (1 + Len(s))
      /\ \A i \in 1 .. (1 + Len(s)) : (<<c>> \o s)[i] \in T
  OBVIOUS
<1> QED
  BY <1>1 DEF MenuCommands

LEMMA DialogUnderstood ==
    ASSUME NEW e, KnownEntry(e), e.asks # <<>>,
           NEW a \in Seq(Fields), Len(a) = Len(e.asks),
           \A i \in 1 .. Len(a) : Valid(e.asks[i], a[i]),
           NEW shows, shows = [i \in DOMAIN e.shows |-> Command(e.shows[i], <<>>)],
           NEW m \in Nat, DOMAIN e.shows = 1 .. m,
           NEW commands, commands = <<Command(e.name, a)>> \o shows
    PROVE  \E n \in Nat : /\ DOMAIN commands = 1 .. n /\ Len(commands) = n
                          /\ MenuCommands(commands)
<1> DEFINE c == Command(e.name, a)
           T == {c} \cup {shows[i] : i \in 1 .. m}
<1>1. Understood(c)
  BY EntryUnderstood
<1>2. DOMAIN shows = 1 .. m /\ shows = [i \in 1 .. m |-> shows[i]]
  OBVIOUS
<1>3. \A i \in 1 .. m : Understood(shows[i])
  BY PlainUnderstood DEF KnownEntry, Shows
<1> HIDE DEF c
<1>4. \A x \in T : Understood(x)
  BY <1>1, <1>3
<1>5. c \in T /\ \A i \in 1 .. m : shows[i] \in T
  OBVIOUS
<1>6. commands = <<c>> \o shows
  BY DEF c
<1> HIDE DEF T
<1>7. shows \in Seq(T)
  BY ONLY Zenon, m \in Nat, <1>2, <1>5, FunctionIsSequence
<1>8. \E n \in Nat : /\ DOMAIN (<<c>> \o shows) = 1 .. n /\ Len(<<c>> \o shows) = n
                     /\ MenuCommands(<<c>> \o shows)
  BY ONLY Zenon, <1>4, <1>5, <1>7, PrependedUnderstood
<1> QED
  BY ONLY <1>6, <1>8

LEMMA ShowsLength ==
    ASSUME NEW m \in DOMAIN Entries, NEW i \in DOMAIN Entries[m]
    PROVE  \E n \in Nat : DOMAIN Entries[m][i].shows = 1 .. n
<1> DEFINE Sized(e) == \E n \in Nat : DOMAIN e.shows = 1 .. n
<1>1. \A name : Sized(Plain(name))
  BY DEF Plain, Entry
<1>2. \A name, asks : Sized(Dialog(name, asks)) /\ Sized(WithTable(name, asks))
  BY DEF Dialog, WithTable, Entry
<1>3. Sized(handleProcessMenu[1])
  <2>1. handleProcessMenu[1].shows = <<"list_pcb">>
    BY DEF handleProcessMenu, Entry
  <2>2. DOMAIN <<"list_pcb">> = 1 .. 1 /\ 1 \in Nat
    OBVIOUS
  <2> QED
    BY Zenon, <2>1, <2>2
<1>4. Sized(handleMemoryMenu[1])
  <2>1. handleMemoryMenu[1].shows = <<"show_mem", "list_pcb">>
    BY DEF handleMemoryMenu, Entry
  <2>2. DOMAIN <<"show_mem", "list_pcb">> = 1 .. 2 /\ 2 \in Nat
    OBVIOUS
  <2> QED
    BY Zenon, <2>1, <2>2
<1> HIDE DEF Sized
<1>5. /\ \A j \in DOMAIN handleUserMenu : Sized(handleUserMenu[j])
      /\ \A j \in DOMAIN handleSchedulerMenu : Sized(handleSchedulerMenu[j])
      /\ \A j \in DOMAIN handlePersistenceMenu : Sized(handlePersistenceMenu[j])
      /\ \A j \in DOMAIN handleOverviewMenu : Sized(handleOverviewMenu[j])
      /\ \A j \in DOMAIN handleVfsMenu : Sized(handleVfsMenu[j])
  BY <1>1, <1>2 DEF handleUserMenu, handleSchedulerMenu, handlePersistenceMenu,
                    handleOverviewMenu, handleVfsMenu
<1>6. \A j \in DOMAIN handleProcessMenu : Sized(handleProcessMenu[j])
  <2>1. \A j \in 2 .. 11 : Sized(handleProcessMenu[j])
    BY <1>1, <1>2 DEF handleProcessMenu
  <2>2. DOMAIN handleProcessMenu = 1 .. 11
    BY DEF handleProcessMenu
  <2> QED
    BY <1>3, <2>1, <2>2
<1>7. \A j \in DOMAIN handleMemoryMenu : Sized(handleMemoryMenu[j])
  <2>1. \A j \in 2 .. 8 : Sized(handleMemoryMenu[j])
    BY <1>1, <1>2 DEF handleMemoryMenu
  <2>2. DOMAIN handleMemoryMenu = 1 .. 8
    BY DEF handleMemoryMenu
  <2> QED
    BY <1>4, <2>1, <2>2
<1>8. Sized(Entries[m][i])
  BY <1>5, <1>6, <1>7 DEF Entries
<1> QED
  BY <1>8 DEF Sized

LEMMA AnswerLastStep ==
    ASSUME ConsoleInv, NEW line \in Fields, AnswerLast(line) PROVE ConsoleInv'
<1>1. place = "asked" /\ InDialog(dialog) /\ Answered(dialog, answers)
  BY DEF AnswerLast, ConsoleInv, DialogOK
<1>2. dialog[1] \in DOMAIN Entries /\ dialog[2] \in DOMAIN Entries[dialog[1]]
  BY <1>1 DEF InDialog
<1> DEFINE e == CurrentEntry
           a == Append(answers, line)
           shows == [i \in DOMAIN e.shows |-> Command(e.shows[i], <<>>)]
           commands == <<Command(e.name, a)>> \o shows
           next == IF e.repeats THEN "again" ELSE dialog[1]
<1>3. KnownEntry(e) /\ \E m \in Nat : DOMAIN e.shows = 1 .. m
  BY <1>2, MenusKnown, ShowsLength DEF CurrentEntry
<1>4. answers \in Seq(Fields) /\ \A i \in 1 .. Len(answers) : Valid(e.asks[i], answers[i])
  BY <1>1 DEF Answered, CurrentEntry
<1>5. Valid(e.asks[Len(answers) + 1], line) /\ Len(answers) + 1 = Len(e.asks)
  BY DEF AnswerLast, NextAsk
<1>6. Executes(commands, next) /\ answers' = <<>>
      /\ dialog' = (IF e.repeats THEN dialog ELSE <<>>) /\ role' = role
  BY DEF AnswerLast
<1> HIDE DEF e
<1>7. /\ a \in Seq(Fields) /\ Len(a) = Len(e.asks)
      /\ \A i \in 1 .. Len(a) : Valid(e.asks[i], a[i])
  BY <1>4, <1>5
<1>8. e.asks # <<>>
  BY <1>4, <1>5
<1> HIDE DEF a, shows
<1>9. \E n \in Nat : /\ DOMAIN commands = 1 .. n /\ Len(commands) = n
                     /\ MenuCommands(commands)
  BY <1>3, <1>7, <1>8, DialogUnderstood DEF shows
<1> HIDE DEF commands, next
<1>10. SentOK(role', place', sent') /\ place' \in {"ended", next}
  BY <1>6, <1>9, ExecutesMenu
<1>11. CASE e.repeats
  BY <1>1, <1>6, <1>10, <1>11 DEF ConsoleInv, DialogOK, next
<1>12. CASE ~e.repeats
  BY <1>2, <1>6, <1>10, <1>12, MenuPlaces DEF ConsoleInv, DialogOK, next
<1> QED
  BY <1>11, <1>12

LEMMA RepeatStep ==
    ASSUME ConsoleInv, NEW again, Repeat(again) PROVE ConsoleInv'
<1>1. place = "again" /\ InDialog(dialog) /\ answers = <<>> /\ answers' = answers
  BY DEF Repeat, ConsoleInv, DialogOK
<1>2. dialog[1] \in DOMAIN Entries
  BY <1>1 DEF InDialog
<1>3. CASE GoesOn("asked") /\ UNCHANGED dialog
  BY <1>1, <1>3, GoesOnOK, NoAnswers DEF ConsoleInv, DialogOK
<1>4. CASE GoesOn(dialog[1])
  BY <1>1, <1>2, <1>4, GoesOnOK, MenuPlaces DEF ConsoleInv, DialogOK
<1> QED
  BY <1>3, <1>4 DEF Repeat

LEMMA RawStep ==
    ASSUME RoleKnown, ConsoleInv, NEW line, RawLine(line) PROVE ConsoleInv'
<1>1. answers = <<>> /\ answers' = <<>> /\ role' = role
  BY DEF RawLine, ConsoleInv, DialogOK
<1>2. ASSUME NEW next \in {"raw", "ended"}, GoesOn(next) PROVE ConsoleInv'
  BY <1>1, <1>2, GoesOnOK DEF ConsoleInv, DialogOK
<1>3. ASSUME ~(role = "CLIENT" /\ isLocalExitCommand(line)),
             Executes(<<RawCommand(line)>>, "raw")
      PROVE  ConsoleInv'
  <2> DEFINE c == RawCommand(line)
  <2>1. c.raw /\ (IsExit(c) => Unseen(c) \/ isLocalExitCommand(line))
    <3>1. c.name = (IF line.words = <<>> THEN "" ELSE line.words[1])
      BY DEF RawCommand
    <3>2. c.raw /\ c.fields = <<line>>
      BY DEF RawCommand
    <3>3. c.fields[1] = line
      BY <3>2
    <3>4. IsExit(c) => line.words[1] \in {"exit", "quit"}
      BY <3>1 DEF IsExit
    <3> QED
      BY <3>2, <3>3, <3>4 DEF isLocalExitCommand, Unseen
  <2>2. Executes(<<c>>, "raw")
    BY <1>3
  <2> HIDE DEF c
  <2>3. DOMAIN <<c>> = 1 .. 1 /\ Len(<<c>>) = 1 /\ <<c>>[1] = c /\ 1 \in Nat
    OBVIOUS
  <2>4. sent' = <<c>> /\ place' \in {"ended", "raw"}
    BY <2>2 DEF Executes
  <2>5. IsExit(c) => IF role = "MASTER" THEN place' = "ended" ELSE Unseen(c)
    <3>1. ASSUME IsExit(c), role = "MASTER" PROVE place' = "ended"
      <4>1. executor(c) = {"shouldExit"}
        BY <3>1 DEF executor
      <4>2. \A f \in Outcomes(<<c>>) : 1 \in DOMAIN f /\ f[1] = "shouldExit"
        BY <2>3, <4>1 DEF Outcomes
      <4> QED
        BY <2>2, <4>2 DEF Executes
    <3>2. ASSUME IsExit(c), role # "MASTER" PROVE Unseen(c)
      BY <1>3, <2>1, <3>2 DEF RoleKnown
    <3> QED
      BY <3>1, <3>2
  <2>6. SentOK(role', place', sent')
    BY <1>1, <2>1, <2>3, <2>4, <2>5 DEF SentOK, SingleCommand
  <2> QED
    BY <1>1, <2>4, <2>6 DEF ConsoleInv, DialogOK
<1> QED
  BY <1>2, <1>3 DEF RawLine

LEMMA EndStep == ASSUME ConsoleInv, EndOfInput PROVE ConsoleInv'
BY GoesOnOK DEF EndOfInput, ConsoleInv, DialogOK

LEMMA ConsoleNextPreserves ==
    ASSUME RoleKnown, ConsoleInv, [ConsoleNext]_consoleVars PROVE ConsoleInv'
<1>1. CASE UNCHANGED consoleVars
  BY <1>1 DEF consoleVars, ConsoleInv, DialogOK
<1> QED
  BY <1>1, MainMenuStep, SubmenuStep, ConfirmStep, RepeatStep, AnswerStep,
     AnswerLastStep, RawStep, EndStep DEF ConsoleNext

LEMMA RoleStays ==
    ASSUME RoleKnown, [ConsoleNext]_consoleVars PROVE RoleKnown'
BY DEF RoleKnown, ConsoleNext, MainMenu, Submenu, confirmExit, Repeat, AnswerLeaves,
       AnswerInvalid, AnswerOne, AnswerLast, RawLine, EndOfInput, consoleVars

(* The commands that MenuCommands and SingleCommand allow are as the four  *)
(* properties of Console have them.                                        *)
LEMMA ConsoleConsequences ==
    ASSUME RoleKnown, ConsoleInv
    PROVE  ClientExitsUnseen /\ NothingAfterExit /\ MenuUnderstood /\ NoShiftedAnswer
<1>1. CASE MenuCommands(sent)
  <2>1. \A i \in DOMAIN sent : ~IsExit(sent[i])
    BY <1>1 DEF MenuCommands, Understood
  <2>2. ClientExitsUnseen /\ NothingAfterExit
    BY <2>1 DEF ClientExitsUnseen, NothingAfterExit, Sent
  <2>3. \A c \in Sent : Understood(c)
    BY <1>1 DEF MenuCommands, Sent
  <2>4. MenuUnderstood /\ NoShiftedAnswer
    BY <2>3 DEF MenuUnderstood, NoShiftedAnswer, Understood
  <2> QED
    BY <2>2, <2>4
<1>2. CASE SingleCommand(role, place, sent)
  <2> DEFINE c == sent[1]
  <2>1. Len(sent) = 1 /\ DOMAIN sent = {1}
    BY <1>2 DEF SingleCommand, ConsoleInv, SentOK
  <2>2. Sent = {c}
    BY <2>1 DEF Sent
  <2>3. /\ c.raw \/ c = Command("exit", <<>>)
        /\ IsExit(c) => IF role = "MASTER" THEN place = "ended" ELSE Unseen(c)
    BY <1>2 DEF SingleCommand
  <2> HIDE DEF c
  <2>4. ClientExitsUnseen
    BY <2>2, <2>3 DEF ClientExitsUnseen
  <2>5. NothingAfterExit
    BY <2>1, <2>3 DEF NothingAfterExit, c
  <2>6. c.raw \/ (OneWordEach(c) /\ \A n \in Nat : Accepts(c.name, n))
    <3>1. ASSUME c = Command("exit", <<>>)
          PROVE  OneWordEach(c) /\ \A n \in Nat : Accepts(c.name, n)
      <4>1. c.name = "exit" /\ c.fields = <<>>
        BY <3>1 DEF Command
      <4>2. \A n \in Nat : Accepts("exit", n)
        BY DEF Accepts, AcceptsDispatched
      <4> QED
        BY <4>1, <4>2 DEF OneWordEach, HasWords
    <3> QED
      BY <2>3, <3>1
  <2>7. c.raw \/ Arguments(c) = <<>>
    <3>1. ASSUME c.fields = <<>> PROVE Arguments(c) = <<>>
      <4>1. [i \in DOMAIN c.fields |-> c.fields[i].words] = <<>>
        BY <3>1
      <4> QED
        BY <4>1 DEF Arguments, Lists!FlattenSeq
    <3> QED
      BY <2>3, <3>1 DEF Command
  <2>8. Len(<<>>) \in Nat
    OBVIOUS
  <2>9. MenuUnderstood
    BY Zenon, <2>2, <2>6, <2>7, <2>8 DEF MenuUnderstood
  <2>10. NoShiftedAnswer
    BY Zenon, <2>2, <2>6 DEF NoShiftedAnswer
  <2> QED
    BY <2>4, <2>5, <2>9, <2>10
<1> QED
  BY <1>1, <1>2 DEF ConsoleInv, SentOK

(* In every state of a window what was executed since the last line is     *)
(* either understood commands of the menus or one raw command or the       *)
(* confirmed exit of the master's window.                                  *)
THEOREM ConsoleInvariant == ConsoleSpec => [](RoleKnown /\ ConsoleInv)
<1>1. ConsoleInit => RoleKnown /\ ConsoleInv
  BY InitIsOK DEF ConsoleInit, RoleKnown
<1>2. RoleKnown /\ ConsoleInv /\ [ConsoleNext]_consoleVars => RoleKnown' /\ ConsoleInv'
  BY ConsoleNextPreserves, RoleStays
<1> QED
  BY <1>1, <1>2, PTL DEF ConsoleSpec

(* The only exits a client's window sends are raw lines with vertical      *)
(* blanks in their first piece, which isLocalExitCommand takes for another *)
(* word: no menu entry is an exit, and confirmExit keeps its own.          *)
THEOREM OnlyUnseenExits == ConsoleSpec => []ClientExitsUnseen
BY ConsoleInvariant, ConsoleConsequences, PTL

(* An exit that the master's window executes is the last command it does.  *)
THEOREM ExitIsLast == ConsoleSpec => []NothingAfterExit
BY ConsoleInvariant, ConsoleConsequences, PTL

(* Every line a menu puts together from one-word answers is one that       *)
(* CommandDispatcher takes, for any answers and tags.                      *)
THEOREM MenusUnderstood == ConsoleSpec => []MenuUnderstood
BY ConsoleInvariant, ConsoleConsequences, PTL

(* When the kernel finds words in each answer, one of several words is     *)
(* refused, not shifted, except in the entries NoShiftedAnswer names.      *)
THEOREM AnswersInPlace == ConsoleSpec => []NoShiftedAnswer
BY ConsoleInvariant, ConsoleConsequences, PTL
=============================================================================
