------------------------ MODULE CommandPipelineProofs -----------------------
(***************************************************************************)
(* One request per waiting caller, a kernel that is stopped only when      *)
(* nobody is left to call it, and the refinement of the request service,   *)
(* for any number of clients and either ending of the console.             *)
(***************************************************************************)
EXTENDS CommandPipeline, FiniteSetTheorems, SequenceTheorems, TLAPS

ConsolePlaces ==
    {"idle", "pushing", "pushingExit", "waiting", "stopPipe", "wakePipe",
     "joinPipe", "joinWorker", "ended"}

ServerPlaces ==
    {"starting", "looping", "connecting", "reading", "pushing", "waiting",
     "replying", "ended"}

PipelineTypeOK ==
    /\ caller \in [Callers -> ConsolePlaces \cup ServerPlaces]
    /\ queue \in Seq(Request)
    /\ executing \in SUBSET Request
    /\ shutdownRequested \in BOOLEAN
    /\ stopping \in BOOLEAN
    /\ worker \in {"popping", "executing", "closing", "ended"}
    /\ answer \in [Callers -> Answers]

Executing(t) == \E r \in executing : r.by = t

Queued(t) == \E i \in 1 .. Len(queue) : queue[i].by = t

(* The worker holds one request while it executes, and none otherwise.     *)
OneExecuted ==
    /\ worker = "executing" <=> executing # {}
    /\ \A r, s \in executing : r = s

(* Two requests in the queue have different callers, none of which has its *)
(* request in execution as well.                                           *)
NoneTwice ==
    /\ \A i, j \in 1 .. Len(queue) : queue[i].by = queue[j].by => i = j
    /\ \A t \in Callers : ~(Executing(t) /\ Queued(t))

(* Who has a request on its way waits, also behind an exit; until an exit  *)
(* is executed, who waits has a request on its way.                        *)
WaitersServed ==
    \A t \in Callers :
        /\ Executing(t) \/ Queued(t) => Waits(t)
        /\ ~ExitExecuted /\ Waits(t) => Executing(t) \/ Queued(t)

StoppedAlone ==
    stopping => /\ caller["server"] = "ended"
                /\ caller["console"] \in {"joinWorker", "ended"}

PipelineInv ==
    PipelineTypeOK /\ OneExecuted /\ NoneTwice /\ WaitersServed /\ StoppedAlone

LEMMA InitEstablishes == PipelineInit => PipelineInv
<1> SUFFICES ASSUME PipelineInit PROVE PipelineInv
  OBVIOUS
<1> USE DEF PipelineInit
<1>1. PipelineTypeOK
  <2>1. caller \in [Callers -> ConsolePlaces \cup ServerPlaces]
    BY DEF ConsolePlaces, ServerPlaces
  <2>2. answer \in [Callers -> Answers]
    BY DEF Answers
  <2>3. queue \in Seq(Request) /\ executing \in SUBSET Request
    OBVIOUS
  <2> QED
    BY <2>1, <2>2, <2>3 DEF PipelineTypeOK
<1>2. OneExecuted /\ NoneTwice /\ StoppedAlone
  BY DEF OneExecuted, NoneTwice, StoppedAlone, Executing, Queued
<1>3. WaitersServed
  BY DEF WaitersServed, Executing, Queued, Waits, Callers, ExitExecuted
<1> QED
  BY <1>1, <1>2, <1>3 DEF PipelineInv

(* A caller that is not waiting for its future goes somewhere else.        *)
LEMMA CallerStep ==
    ASSUME PipelineInv, NEW t \in Callers,
           NEW place \in (ConsolePlaces \cup ServerPlaces) \ {"waiting"},
           ~Waits(t),
           stopping => t = "console" /\ place \in {"joinWorker", "ended"},
           Moves(t, place),
           UNCHANGED kernelVars
    PROVE  PipelineInv'
<1> USE DEF PipelineInv
<1>1. UNCHANGED <<queue, executing, shutdownRequested, stopping, worker, answer>>
  BY DEF kernelVars
<1>2. /\ caller \in [Callers -> ConsolePlaces \cup ServerPlaces]
      /\ caller' = [caller EXCEPT ![t] = place]
  BY DEF PipelineTypeOK, Moves
<1>3. PipelineTypeOK'
  BY <1>1, <1>2 DEF PipelineTypeOK
<1>4. \A s \in Callers : Waits(s)' = Waits(s)
  BY <1>1, <1>2 DEF Waits
<1>5. OneExecuted' /\ NoneTwice'
  BY <1>1 DEF OneExecuted, NoneTwice, Executing, Queued
<1>6. WaitersServed'
  BY <1>1, <1>4 DEF WaitersServed, Executing, Queued, ExitExecuted
<1>7. StoppedAlone'
  BY <1>1, <1>2 DEF StoppedAlone, Callers
<1> QED
  BY <1>3, <1>5, <1>6, <1>7

LEMMA PushStep ==
    ASSUME PipelineInv, NEW t \in Callers, push(t)
    PROVE  PipelineInv'
<1> USE DEF PipelineInv
<1> DEFINE r == [by |-> t, exit |-> caller[t] = "pushingExit"]
<1>1. /\ queue \in Seq(Request) /\ r \in Request
      /\ queue' = Append(queue, r)
      /\ UNCHANGED <<executing, shutdownRequested, stopping, worker>>
  BY DEF push, PipelineTypeOK, Request
<1>2. /\ caller \in [Callers -> ConsolePlaces \cup ServerPlaces]
      /\ caller' = [caller EXCEPT ![t] = "waiting"]
      /\ caller[t] \in {"pushing", "pushingExit"}
      /\ answer \in [Callers -> Answers]
      /\ answer' = [answer EXCEPT ![t] = "none"]
  BY DEF push, Moves, PipelineTypeOK
<1>3. PipelineTypeOK'
  BY <1>1, <1>2 DEF PipelineTypeOK, ConsolePlaces, Answers
<1>4. r.by = t
  OBVIOUS
<1> HIDE DEF r
<1>5. /\ Len(queue') = Len(queue) + 1 /\ queue'[Len(queue) + 1] = r
      /\ Len(queue) \in Nat
      /\ \A i \in 1 .. Len(queue) : queue'[i] = queue[i]
  BY <1>1
<1>6. ~Waits(t) /\ ~Executing(t) /\ ~Queued(t)
  BY <1>2 DEF WaitersServed, Waits
<1>7. \A s \in Callers : /\ Executing(s)' = Executing(s)
                         /\ Queued(s)' <=> Queued(s) \/ s = t
                         /\ Waits(s)' <=> Waits(s) \/ s = t
  <2> TAKE s \in Callers
  <2>1. Executing(s)' = Executing(s)
    BY <1>1 DEF Executing
  <2>2. Queued(s)' <=> Queued(s) \/ s = t
    BY <1>4, <1>5 DEF Queued
  <2>3. Waits(s)' <=> Waits(s) \/ s = t
    BY <1>2 DEF Waits
  <2> QED
    BY <2>1, <2>2, <2>3
<1>8. OneExecuted'
  BY <1>1 DEF OneExecuted
<1>9. NoneTwice'
  <2>1. \A i \in 1 .. Len(queue) : queue[i].by # t
    BY <1>6 DEF Queued
  <2>2. (\A i, j \in 1 .. Len(queue) : queue[i].by = queue[j].by => i = j)'
    BY <1>4, <1>5, <2>1 DEF NoneTwice
  <2>3. (\A s \in Callers : ~(Executing(s) /\ Queued(s)))'
    BY <1>6, <1>7 DEF NoneTwice
  <2> QED
    BY <2>2, <2>3 DEF NoneTwice
<1>10. WaitersServed'
  BY <1>1, <1>6, <1>7 DEF WaitersServed, ExitExecuted
<1>11. StoppedAlone'
  BY <1>1, <1>2 DEF StoppedAlone, Callers
<1> QED
  BY <1>3, <1>8, <1>9, <1>10, <1>11

LEMMA PopStep == ASSUME PipelineInv, pop PROVE PipelineInv'
<1> USE DEF PipelineInv
<1>1. /\ queue \in Seq(Request) /\ queue # <<>> /\ executing = {}
      /\ executing' = {Head(queue)} /\ queue' = Tail(queue)
      /\ worker = "popping" /\ worker' = "executing"
      /\ UNCHANGED <<caller, shutdownRequested, stopping, answer>>
  BY DEF pop, PipelineTypeOK, OneExecuted
<1>2. /\ Len(queue) \in Nat \ {0} /\ Head(queue) = queue[1] /\ queue[1] \in Request
      /\ Len(queue') = Len(queue) - 1
      /\ \A i \in 1 .. Len(queue) - 1 : queue'[i] = queue[i + 1]
  BY <1>1
<1>3. PipelineTypeOK'
  BY <1>1, <1>2 DEF PipelineTypeOK
<1>4. \A i, j \in 1 .. Len(queue) : queue[i].by = queue[j].by => i = j
  BY DEF NoneTwice
<1>5. \A s \in Callers :
         /\ Executing(s)' <=> queue[1].by = s
         /\ Queued(s)' <=> \E i \in 2 .. Len(queue) : queue[i].by = s
         /\ Waits(s)' = Waits(s)
         /\ Queued(s) <=> queue[1].by = s \/ \E i \in 2 .. Len(queue) : queue[i].by = s
         /\ ~Executing(s)
  <2> TAKE s \in Callers
  <2>1. Executing(s)' <=> queue[1].by = s
    BY <1>1, <1>2 DEF Executing
  <2>2. Queued(s)' <=> \E i \in 2 .. Len(queue) : queue[i].by = s
    <3>1. ASSUME Queued(s)' PROVE \E i \in 2 .. Len(queue) : queue[i].by = s
      <4>1. PICK i \in 1 .. Len(queue) - 1 : queue'[i].by = s
        BY <1>2, <3>1 DEF Queued
      <4> QED
        BY <1>2, <4>1
    <3>2. ASSUME NEW i \in 2 .. Len(queue), queue[i].by = s PROVE Queued(s)'
      <4>1. i - 1 \in 1 .. Len(queue) - 1 /\ queue'[i - 1] = queue[i]
        BY <1>2
      <4> QED
        BY <1>2, <3>2, <4>1 DEF Queued
    <3> QED
      BY <3>1, <3>2
  <2>3. Waits(s)' = Waits(s)
    BY <1>1 DEF Waits
  <2>4. Queued(s) <=> queue[1].by = s \/ \E i \in 2 .. Len(queue) : queue[i].by = s
    BY <1>2 DEF Queued
  <2>5. ~Executing(s)
    BY <1>1 DEF Executing
  <2> QED
    BY <2>1, <2>2, <2>3, <2>4, <2>5
<1>6. OneExecuted'
  BY <1>1 DEF OneExecuted
<1>7. NoneTwice'
  <2>1. ASSUME NEW i \in 1 .. Len(queue) - 1, NEW j \in 1 .. Len(queue) - 1,
               queue'[i].by = queue'[j].by
        PROVE  i = j
    BY <1>2, <1>4, <2>1
  <2>2. (\A i, j \in 1 .. Len(queue) : queue[i].by = queue[j].by => i = j)'
    BY <1>2, <2>1
  <2>3. \A s \in Callers : ~(Executing(s)' /\ Queued(s)')
    BY <1>2, <1>4, <1>5
  <2> QED
    BY <2>2, <2>3 DEF NoneTwice
<1>8. WaitersServed'
  BY <1>1, <1>5 DEF WaitersServed, ExitExecuted
<1>9. StoppedAlone'
  BY <1>1 DEF StoppedAlone
<1> QED
  BY <1>3, <1>6, <1>7, <1>8, <1>9

LEMMA ExecuteStep == ASSUME PipelineInv, executeRequest PROVE PipelineInv'
<1> USE DEF PipelineInv
<1>1. PICK r \in executing :
         /\ answer' = [answer EXCEPT ![r.by] = IF r.exit THEN "exit" ELSE "done"]
         /\ worker' = IF r.exit THEN "closing" ELSE "popping"
  BY DEF executeRequest
<1>2. /\ worker = "executing" /\ executing' = {}
      /\ UNCHANGED <<caller, queue, shutdownRequested, stopping>>
  BY DEF executeRequest
<1>3. /\ r \in Request /\ r.by \in Callers /\ answer \in [Callers -> Answers]
      /\ executing = {r}
  BY DEF PipelineTypeOK, OneExecuted, Request
<1>4. PipelineTypeOK'
  BY <1>1, <1>2, <1>3 DEF PipelineTypeOK, Answers
<1>5. \A s \in Callers :
         /\ ~Executing(s)' /\ Queued(s)' = Queued(s)
         /\ Waits(s)' <=> Waits(s) /\ s # r.by
         /\ Executing(s) <=> s = r.by
  <2> TAKE s \in Callers
  <2>1. ~Executing(s)' /\ Queued(s)' = Queued(s)
    BY <1>2 DEF Executing, Queued
  <2>2. Waits(s)' <=> Waits(s) /\ s # r.by
    BY <1>1, <1>2, <1>3 DEF Waits
  <2>3. Executing(s) <=> s = r.by
    BY <1>3 DEF Executing
  <2> QED
    BY <2>1, <2>2, <2>3
<1>6. OneExecuted'
  <2>1. worker' # "executing"
    BY <1>1
  <2> QED
    BY <1>2, <2>1 DEF OneExecuted
<1>7. NoneTwice'
  BY <1>2, <1>5 DEF NoneTwice
<1>8. WaitersServed'
  BY <1>2, <1>5 DEF WaitersServed, NoneTwice, ExitExecuted
<1>9. StoppedAlone'
  BY <1>2 DEF StoppedAlone
<1> QED
  BY <1>4, <1>6, <1>7, <1>8, <1>9

(* The worker leaves, or the console sets stopping_: the requests stay.    *)
LEMMA EndStep ==
    ASSUME PipelineInv, workerShutdown \/ popShutdown PROVE PipelineInv'
<1> USE DEF PipelineInv
<1>1. /\ UNCHANGED <<caller, queue, executing, stopping, answer>>
      /\ worker' = "ended" /\ worker # "executing"
      /\ shutdownRequested' \in BOOLEAN
  BY DEF workerShutdown, popShutdown, PipelineTypeOK
<1>2. PipelineTypeOK'
  BY <1>1 DEF PipelineTypeOK
<1>3. OneExecuted'
  BY <1>1 DEF OneExecuted
<1>4. NoneTwice' /\ StoppedAlone'
  BY <1>1 DEF NoneTwice, StoppedAlone, Executing, Queued
<1>5. WaitersServed'
  BY <1>1 DEF WaitersServed, Executing, Queued, Waits, ExitExecuted
<1> QED
  BY <1>2, <1>3, <1>4, <1>5

LEMMA StopStep == ASSUME PipelineInv, kernelStop PROVE PipelineInv'
<1> USE DEF PipelineInv
<1>1. /\ UNCHANGED <<queue, executing, worker, answer>>
      /\ caller' = [caller EXCEPT !["console"] = "joinWorker"]
      /\ caller["console"] = "joinPipe" /\ caller["server"] = "ended"
      /\ stopping' = TRUE /\ shutdownRequested' = TRUE
  BY DEF kernelStop, Moves
<1>2. caller \in [Callers -> ConsolePlaces \cup ServerPlaces]
  BY DEF PipelineTypeOK
<1>3. PipelineTypeOK'
  BY <1>1, <1>2 DEF PipelineTypeOK, ConsolePlaces
<1>4. \A s \in Callers : Waits(s)' = Waits(s)
  BY <1>1, <1>2 DEF Waits, Callers
<1>5. OneExecuted' /\ NoneTwice'
  BY <1>1 DEF OneExecuted, NoneTwice, Executing, Queued
<1>6. WaitersServed'
  BY <1>1, <1>4 DEF WaitersServed, Executing, Queued, ExitExecuted
<1>7. StoppedAlone'
  BY <1>1, <1>2 DEF StoppedAlone, Callers
<1> QED
  BY <1>3, <1>5, <1>6, <1>7

(* The clients leave the master's threads alone.                           *)
LEMMA ClientStep ==
    ASSUME PipelineInv, UNCHANGED <<caller, kernelVars>> PROVE PipelineInv'
BY DEF PipelineInv, PipelineTypeOK, OneExecuted, NoneTwice, WaitersServed,
       StoppedAlone, Executing, Queued, Waits, ExitExecuted, kernelVars

LEMMA ConsoleStep ==
    ASSUME PipelineInv, ConsoleReads \/ ConsoleEof \/ ConsoleWorks PROVE PipelineInv'
<1> USE DEF PipelineInv
<1>1. "console" \in Callers /\ StoppedAlone
  BY DEF Callers
<1>2. CASE ConsoleReads
  <2>1. PICK place \in {"pushing", "pushingExit"} :
           caller["console"] = "idle" /\ Moves("console", place) /\ UNCHANGED kernelVars
    BY <1>2 DEF ConsoleReads, submitCommand
  <2> QED
    BY <1>1, <2>1, CallerStep DEF Waits, StoppedAlone, ConsolePlaces
<1>3. CASE ConsoleEof
  BY <1>1, <1>3, CallerStep DEF ConsoleEof, Waits, StoppedAlone, ConsolePlaces
<1>4. CASE push("console")
  BY <1>1, <1>4, PushStep
<1>5. CASE ConsoleReceives
  <2>1. PICK place \in {"stopPipe", "idle"} :
           /\ caller["console"] = "waiting" /\ answer["console"] # "none"
           /\ Moves("console", place) /\ UNCHANGED kernelVars
    BY <1>5 DEF ConsoleReceives
  <2> QED
    BY <1>1, <2>1, CallerStep DEF Waits, StoppedAlone, ConsolePlaces
<1>6. CASE pipeStop
  BY <1>1, <1>6, CallerStep DEF pipeStop, Waits, StoppedAlone, ConsolePlaces
<1>7. CASE wakePipe
  BY <1>1, <1>7, CallerStep DEF wakePipe, Waits, StoppedAlone, ConsolePlaces
<1>8. CASE kernelStop
  BY <1>8, StopStep
<1>9. CASE kernelJoined
  BY <1>1, <1>9, CallerStep DEF kernelJoined, Waits, StoppedAlone, ConsolePlaces
<1> QED
  BY <1>2, <1>3, <1>4, <1>5, <1>6, <1>7, <1>8, <1>9 DEF ConsoleWorks

LEMMA ServerStep == ASSUME PipelineInv, ServerWorks PROVE PipelineInv'
<1> USE DEF PipelineInv
<1>1. CASE push("server")
  BY <1>1, PushStep DEF Callers
<1>2. CASE ~push("server")
  <2>1. PICK place \in ServerPlaces \ {"waiting"} :
           /\ Moves("server", place) /\ UNCHANGED kernelVars
           /\ caller["server"] # "ended" /\ ~Waits("server")
    <3> USE DEF ServerPlaces, Waits
    <3>1. ServerStarts \/ ServerLoops \/ ServerConnects \/ ServerReconnects
          \/ ServerReads \/ ServerReadsNothing \/ ServerReplies \/ ServerFlushes
      BY <1>2 DEF ServerWorks
    <3>2. CASE ServerStarts \/ ServerLoops
      BY <3>2 DEF ServerStarts, ServerLoops
    <3>3. CASE ServerConnects \/ ServerReconnects
      BY <3>3 DEF ServerConnects, ServerReconnects, NextInstance
    <3>4. CASE ServerReads
      BY <3>4 DEF ServerReads, submitCommand
    <3>5. CASE ServerReadsNothing \/ ServerFlushes
      BY <3>5 DEF ServerReadsNothing, ServerFlushes, NextInstance
    <3>6. CASE ServerReplies
      BY <3>6 DEF ServerReplies
    <3> QED
      BY <3>1, <3>2, <3>3, <3>4, <3>5, <3>6
  <2>2. ~stopping /\ "server" \in Callers
    BY <2>1 DEF StoppedAlone, Callers
  <2> QED
    BY <2>1, <2>2, CallerStep
<1> QED
  BY <1>1, <1>2

LEMMA NextPreserves ==
    ASSUME PipelineInv, [PipelineNext]_pipelineVars PROVE PipelineInv'
<1>1. CASE ConsoleReads \/ ConsoleEof \/ ConsoleWorks
  BY <1>1, ConsoleStep
<1>2. CASE WorkerWorks
  BY <1>2, PopStep, ExecuteStep, EndStep DEF WorkerWorks
<1>3. CASE ServerWorks
  BY <1>3, ServerStep
<1>4. CASE \E c \in Clients : ClientCalls(c) \/ ClientWorks(c) \/ ClientLeaves(c)
  <2>1. PICK c \in Clients : ClientCalls(c) \/ ClientWorks(c) \/ ClientLeaves(c)
    BY <1>4
  <2>2. UNCHANGED <<caller, kernelVars>>
    BY <2>1 DEF ClientWorks, ClientCalls, ClientLeaves, ClientFindsPipe, ClientConnects,
                ClientWrites, ClientReads, ClientFails, ClientMoves
  <2> QED
    BY <2>2, ClientStep
<1>5. CASE UNCHANGED pipelineVars
  BY <1>5, ClientStep DEF pipelineVars
<1> QED
  BY <1>1, <1>2, <1>3, <1>4, <1>5 DEF PipelineNext

(* In every state of the pipeline the inductive invariant holds.           *)
THEOREM PipelineInvariant == PipelineSpec => []PipelineInv
<1>1. PipelineInit => PipelineInv
  BY InitEstablishes
<1>2. PipelineInv /\ [PipelineNext]_pipelineVars => PipelineInv'
  BY NextPreserves
<1> QED
  BY <1>1, <1>2, PTL DEF PipelineSpec

(* The count of a caller's requests is the one the invariant implies.      *)
LEMMA InvCounts == PipelineInv => OneRequestPerWaiter
<1> SUFFICES ASSUME PipelineInv, worker \in {"popping", "executing"}, NEW t \in Callers
             PROVE  Pending(t) = IF Waits(t) THEN 1 ELSE 0
  BY DEF OneRequestPerWaiter
<1> USE DEF PipelineInv
<1> DEFINE S == {i \in DOMAIN queue : queue[i].by = t}
<1>1. DOMAIN queue = 1 .. Len(queue)
  BY DEF PipelineTypeOK
<1>2. /\ Waits(t) <=> Executing(t) \/ Queued(t)
      /\ ~(Executing(t) /\ Queued(t))
  BY DEF WaitersServed, NoneTwice, ExitExecuted
<1>3. Pending(t) = (IF Executing(t) THEN 1 ELSE 0) + Cardinality(S)
  BY DEF Pending, Executing
<1>4. CASE Queued(t)
  <2>1. PICK i \in 1 .. Len(queue) : queue[i].by = t
    BY <1>4 DEF Queued
  <2>2. S = {i}
    BY <1>1, <2>1 DEF NoneTwice
  <2>3. Cardinality(S) = 1
    BY <2>2, FS_Singleton
  <2> HIDE DEF S
  <2> QED
    BY <1>2, <1>3, <1>4, <2>3
<1>5. CASE ~Queued(t)
  <2>1. S = {}
    BY <1>1, <1>5 DEF Queued
  <2>2. Cardinality(S) = 0
    BY <2>1, FS_EmptySet
  <2> HIDE DEF S
  <2> QED
    BY <1>2, <1>3, <1>5, <2>2
<1> QED
  BY <1>4, <1>5

LEMMA InvStopsAlone == PipelineInv => KernelStopsAlone
<1> SUFFICES ASSUME PipelineInv, stopping
             PROVE  queue = <<>> /\ executing = {} /\ caller["server"] = "ended"
  BY DEF KernelStopsAlone
<1> USE DEF PipelineInv
<1>1. \A t \in Callers : ~Executing(t) /\ ~Queued(t)
  BY DEF StoppedAlone, WaitersServed, Waits, Callers
<1>2. executing = {}
  BY <1>1 DEF Executing, PipelineTypeOK, Request
<1>3. queue = <<>>
  <2>1. queue \in Seq(Request) /\ Len(queue) \in Nat
    BY DEF PipelineTypeOK
  <2>2. ASSUME Len(queue) # 0 PROVE FALSE
    <3>1. queue[1] \in Request /\ 1 \in 1 .. Len(queue)
      BY <2>1, <2>2
    <3> QED
      BY <1>1, <3>1 DEF Queued, Request
  <2> QED
    BY <2>1, <2>2
<1> QED
  BY <1>2, <1>3 DEF StoppedAlone

(* Until the worker executes an exit, each waiting caller has exactly one  *)
(* request on its way: no answer reaches the wrong caller.                 *)
THEOREM OneRequestEach == PipelineSpec => []OneRequestPerWaiter
BY PipelineInvariant, InvCounts, PTL

(* When Kernel::stop sets stopping_, nobody is left who could submit.      *)
THEOREM StopsAlone == PipelineSpec => []KernelStopsAlone
BY PipelineInvariant, InvStopsAlone, PTL

-----------------------------------------------------------------------------
(* The queue, the worker and the futures implement the request service.    *)

Results == [t \in Callers |-> ResultOf(t)]

(* What the service shows of the pipeline.                                 *)
Seen == <<Unexecuted, Results, ~ExitExecuted>>

(* The call in execution lies before the queue.                            *)
LEMMA Before ==
    ASSUME NEW T, NEW x \in T, NEW q \in Seq(T), NEW y \in T
    PROVE  /\ <<x>> \o q # <<>>
           /\ Head(<<x>> \o q) = x /\ Tail(<<x>> \o q) = q
           /\ Append(<<x>> \o q, y) = <<x>> \o Append(q, y)
<1> DEFINE s == <<x>> \o q
<1>1. /\ <<x>> \in Seq(T) /\ <<y>> \in Seq(T)
      /\ Len(<<x>>) = 1 /\ <<x>>[1] = x /\ Len(q) \in Nat
  OBVIOUS
<1>2. /\ s \in Seq(T) /\ Len(s) = 1 + Len(q)
      /\ \A i \in 1 .. 1 + Len(q) : s[i] = IF i <= 1 THEN <<x>>[i] ELSE q[i - 1]
  BY <1>1, ConcatProperties
<1>3. Append(s, y) = <<x>> \o Append(q, y)
  <2>1. Append(s, y) = s \o <<y>> /\ Append(q, y) = q \o <<y>>
    BY <1>2, AppendIsConcat
  <2>2. (<<x>> \o q) \o <<y>> = <<x>> \o (q \o <<y>>)
    BY <1>1, ConcatAssociative
  <2> QED
    BY <2>1, <2>2
<1> HIDE DEF s
<1>4. s # <<>> /\ Len(s) > 0 /\ s[1] = x
  BY <1>1, <1>2
<1>5. Tail(s) = q
  <2>1. /\ Tail(s) \in Seq(T) /\ Len(Tail(s)) = Len(q)
        /\ \A i \in 1 .. Len(q) : Tail(s)[i] = s[i + 1]
    <3>1. /\ Tail(s) \in Seq(T) /\ Len(Tail(s)) = Len(s) - 1
          /\ \A i \in 1 .. Len(Tail(s)) : Tail(s)[i] = s[i + 1]
      BY <1>2, <1>4, HeadTailProperties
    <3> QED
      BY <1>1, <1>2, <3>1
  <2>2. ASSUME NEW i \in 1 .. Len(q) PROVE Tail(s)[i] = q[i]
    <3>1. i + 1 \in 1 .. 1 + Len(q) /\ ~(i + 1 <= 1) /\ (i + 1) - 1 = i
      BY <1>1
    <3> QED
      BY <1>2, <2>1, <3>1
  <2> QED
    BY <2>1, <2>2
<1>6. Head(s) = x
  BY <1>2, <1>4
<1> QED
  BY <1>3, <1>4, <1>5, <1>6 DEF s

LEMMA HeadBefore ==
    ASSUME NEW T, NEW q \in Seq(T), q # <<>> PROVE <<Head(q)>> \o Tail(q) = q
<1> DEFINE h == Head(q)
           u == Tail(q)
           s == <<h>> \o u
<1>1. /\ h \in T /\ h = q[1] /\ u \in Seq(T) /\ Len(u) = Len(q) - 1
      /\ \A i \in 1 .. Len(u) : u[i] = q[i + 1]
      /\ Len(q) \in Nat /\ Len(q) > 0
  BY HeadTailProperties
<1> HIDE DEF h, u
<1>2. <<h>> \in Seq(T) /\ Len(<<h>>) = 1 /\ <<h>>[1] = h
  BY <1>1
<1>3. /\ s \in Seq(T) /\ Len(s) = 1 + Len(u)
      /\ \A i \in 1 .. 1 + Len(u) : s[i] = IF i <= 1 THEN <<h>>[i] ELSE u[i - 1]
  BY <1>1, <1>2, ConcatProperties
<1> HIDE DEF s
<1>4. ASSUME NEW i \in 1 .. Len(q) PROVE s[i] = q[i]
  <2>1. CASE i = 1
    BY <1>1, <1>2, <1>3, <2>1
  <2>2. CASE i # 1
    <3>1. i - 1 \in 1 .. Len(u) /\ i \in 1 .. 1 + Len(u) /\ ~(i <= 1) /\ (i - 1) + 1 = i
      BY <1>1, <2>2
    <3> QED
      BY <1>1, <1>3, <3>1
  <2> QED
    BY <2>1, <2>2
<1>5. Len(s) = Len(q)
  BY <1>1, <1>3
<1> QED
  BY <1>3, <1>4, <1>5 DEF s, h, u

LEMMA InitSeen == PipelineInit => Service!ServiceInit
<1> SUFFICES ASSUME PipelineInit PROVE Service!ServiceInit
  OBVIOUS
<1>1. Unexecuted = <<>> /\ ~ExitExecuted
  BY DEF PipelineInit, Unexecuted, ExitExecuted
<1>2. \A t \in Callers : ResultOf(t) = "idle"
  BY DEF PipelineInit, ResultOf
<1> QED
  BY <1>1, <1>2 DEF Service!ServiceInit

(* A thread that goes on leaves its call where it is, or takes the result. *)
LEMMA MoveSeen ==
    ASSUME PipelineInv, NEW t \in Callers, NEW place, place # "waiting",
           Moves(t, place), UNCHANGED kernelVars
    PROVE  /\ caller[t] # "waiting" => UNCHANGED Seen
           /\ caller[t] = "waiting" /\ answer[t] # "none" => Service!Receive(t)
<1>1. /\ UNCHANGED <<queue, executing, worker, answer>>
      /\ caller' = [caller EXCEPT ![t] = place] /\ t \in DOMAIN caller
      /\ answer[t] \in Answers
  BY DEF kernelVars, Moves, PipelineInv, PipelineTypeOK
<1>2. UNCHANGED <<Unexecuted, ExitExecuted>>
  BY <1>1 DEF Unexecuted, ExitExecuted
<1>3. \A s \in Callers : ResultOf(s)' = IF s = t THEN "idle" ELSE ResultOf(s)
  BY <1>1 DEF ResultOf
<1>4. ASSUME caller[t] # "waiting" PROVE UNCHANGED Seen
  <2>1. \A s \in Callers : ResultOf(s)' = ResultOf(s)
    BY <1>3, <1>4 DEF ResultOf
  <2>2. UNCHANGED Results
    BY <2>1 DEF Results
  <2> QED
    BY <1>2, <2>2 DEF Seen
<1>5. ASSUME caller[t] = "waiting", answer[t] # "none" PROVE Service!Receive(t)
  <2>1. ResultOf(t) \in {"done", "exit"}
    BY <1>1, <1>5 DEF ResultOf, Answers
  <2>2. Results' = [Results EXCEPT ![t] = "idle"]
    BY <1>3 DEF Results
  <2>3. Results[t] \in {"done", "exit"}
    BY <2>1 DEF Results
  <2> QED
    BY <1>2, <2>2, <2>3 DEF Service!Receive, Results
<1> QED
  BY <1>4, <1>5

LEMMA PushSeen ==
    ASSUME PipelineInv, NEW t \in Callers, push(t)
    PROVE  \E exit \in BOOLEAN : Service!Submit(t, exit)
<1> DEFINE exit == caller[t] = "pushingExit"
           r == [by |-> t, exit |-> exit]
<1>1. /\ queue' = Append(queue, r)
      /\ UNCHANGED <<executing, worker>>
      /\ caller' = [caller EXCEPT ![t] = "waiting"] /\ t \in DOMAIN caller
      /\ answer' = [answer EXCEPT ![t] = "none"] /\ t \in DOMAIN answer
      /\ caller[t] # "waiting"
      /\ queue \in Seq(Request) /\ r \in Request /\ exit \in BOOLEAN
  BY DEF push, Moves, PipelineInv, PipelineTypeOK, Request
<1>2. Unexecuted' = Append(Unexecuted, r)
  <2>1. CASE worker = "executing"
    <3> DEFINE x == CHOOSE x \in executing : TRUE
    <3>1. x \in Request
      <4>1. executing # {}
        BY <2>1 DEF PipelineInv, OneExecuted
      <4>2. executing \subseteq Request
        BY DEF PipelineInv, PipelineTypeOK
      <4> QED
        BY <4>1, <4>2
    <3>2. Unexecuted = <<x>> \o queue /\ Unexecuted' = <<x>> \o queue'
      BY <1>1, <2>1 DEF Unexecuted
    <3> HIDE DEF x, r
    <3>3. Append(<<x>> \o queue, r) = <<x>> \o Append(queue, r)
      BY <1>1, <3>1, Before
    <3> QED
      BY <1>1, <3>2, <3>3
  <2>2. CASE worker # "executing"
    BY <1>1, <2>2 DEF Unexecuted
  <2> QED
    BY <2>1, <2>2
<1>3. /\ ResultOf(t) = "idle"
      /\ \A s \in Callers : ResultOf(s)' = IF s = t THEN "submitted" ELSE ResultOf(s)
  BY <1>1 DEF ResultOf
<1>4. Results[t] = "idle" /\ Results' = [Results EXCEPT ![t] = "submitted"]
  BY <1>3 DEF Results
<1>5. UNCHANGED ExitExecuted
  BY <1>1 DEF ExitExecuted
<1>6. Service!Submit(t, exit)
  BY <1>2, <1>4, <1>5 DEF Service!Submit, Results
<1> QED
  BY <1>1, <1>6

(* Taking a request from the queue is not seen.                            *)
LEMMA PopSeen == ASSUME PipelineInv, pop PROVE UNCHANGED Seen
<1>1. /\ queue \in Seq(Request) /\ queue # <<>>
      /\ worker = "popping" /\ worker' = "executing"
      /\ executing' = {Head(queue)} /\ queue' = Tail(queue)
      /\ UNCHANGED <<caller, answer>>
  BY DEF pop, PipelineInv, PipelineTypeOK
<1>2. (CHOOSE r \in executing' : TRUE) = Head(queue)
  BY <1>1
<1>3. Unexecuted' = <<Head(queue)>> \o Tail(queue)
  BY <1>1, <1>2 DEF Unexecuted
<1>4. Unexecuted = queue
  BY <1>1 DEF Unexecuted
<1>5. <<Head(queue)>> \o Tail(queue) = queue
  BY <1>1, HeadBefore
<1>6. UNCHANGED <<Results, ExitExecuted>>
  BY <1>1 DEF Results, ResultOf, ExitExecuted
<1> QED
  BY <1>3, <1>4, <1>5, <1>6 DEF Seen

LEMMA ExecuteSeen == ASSUME PipelineInv, executeRequest PROVE Service!Execute
<1>1. PICK r \in executing :
         /\ answer' = [answer EXCEPT ![r.by] = IF r.exit THEN "exit" ELSE "done"]
         /\ worker' = IF r.exit THEN "closing" ELSE "popping"
  BY DEF executeRequest
<1>2. /\ queue \in Seq(Request) /\ r \in Request
      /\ worker = "executing" /\ executing = {r}
      /\ UNCHANGED <<caller, queue>>
      /\ \A s \in executing : s = r
  BY DEF executeRequest, PipelineInv, PipelineTypeOK, OneExecuted
<1>3. r.by \in Callers /\ r.exit \in BOOLEAN
  BY <1>2 DEF Request
<1>4. Unexecuted = <<r>> \o queue
  BY <1>2 DEF Unexecuted
<1>5. Unexecuted # <<>> /\ Head(Unexecuted) = r /\ Tail(Unexecuted) = queue
  BY <1>2, <1>4, Before
<1>6. Unexecuted' = queue
  BY <1>1, <1>2 DEF Unexecuted
<1>7. ~ExitExecuted /\ ExitExecuted' = r.exit
  BY <1>1, <1>2, <1>3 DEF ExitExecuted
<1>8. Waits(r.by)
  BY <1>2, <1>3 DEF PipelineInv, WaitersServed, Executing
<1>9. answer \in [Callers -> Answers]
  BY DEF PipelineInv, PipelineTypeOK
<1>10. \A s \in Callers : ResultOf(s)' =
           IF s = r.by THEN IF r.exit THEN "exit" ELSE "done" ELSE ResultOf(s)
  BY <1>1, <1>2, <1>3, <1>8, <1>9 DEF ResultOf, Waits
<1>11. Results' = [Results EXCEPT ![r.by] = IF r.exit THEN "exit" ELSE "done"]
  BY <1>3, <1>10 DEF Results
<1> QED
  BY <1>5, <1>6, <1>7, <1>11 DEF Service!Execute, Results

LEMMA WorkerSeen ==
    ASSUME PipelineInv, WorkerWorks PROVE Service!ServiceNext \/ UNCHANGED Seen
<1>1. CASE pop
  BY <1>1, PopSeen
<1>2. CASE executeRequest
  BY <1>2, ExecuteSeen DEF Service!ServiceNext
<1>3. CASE workerShutdown
  BY <1>3 DEF workerShutdown, Seen, Unexecuted, Results, ResultOf, ExitExecuted
<1>4. CASE popShutdown
  <2>1. UNCHANGED <<Unexecuted, Results>> /\ Unexecuted = <<>> /\ ~ExitExecuted /\ ExitExecuted'
    BY <1>4 DEF popShutdown, Unexecuted, Results, ResultOf, ExitExecuted
  <2>2. Service!Close
    BY <2>1 DEF Service!Close, Results
  <2> QED
    BY <2>2 DEF Service!ServiceNext
<1> QED
  BY <1>1, <1>2, <1>3, <1>4 DEF WorkerWorks

(* The console and the server, where they do not push.                     *)
LEMMA ConsoleSeen ==
    ASSUME PipelineInv, ConsoleReads \/ ConsoleEof \/ ConsoleWorks
    PROVE  Service!ServiceNext \/ UNCHANGED Seen
<1>1. "console" \in Callers
  BY DEF Callers
<1>2. CASE push("console")
  BY <1>1, <1>2, PushSeen DEF Service!ServiceNext
<1>3. CASE kernelStop
  <2>1. /\ UNCHANGED <<queue, executing, worker, answer>>
        /\ caller' = [caller EXCEPT !["console"] = "joinWorker"]
        /\ caller["console"] = "joinPipe" /\ "console" \in DOMAIN caller
    BY <1>1, <1>3 DEF kernelStop, Moves, PipelineInv, PipelineTypeOK
  <2>2. \A s \in Callers : ResultOf(s)' = ResultOf(s)
    BY <2>1 DEF ResultOf
  <2> QED
    BY <2>1, <2>2 DEF Seen, Unexecuted, Results, ExitExecuted
<1>4. CASE ~push("console") /\ ~kernelStop
  <2>1. \E place \in ConsolePlaces \ {"waiting"} :
           /\ Moves("console", place) /\ UNCHANGED kernelVars
           /\ caller["console"] = "waiting" => answer["console"] # "none"
    <3> USE DEF ConsolePlaces
    <3>1. \/ ConsoleReads \/ ConsoleEof \/ ConsoleReceives \/ pipeStop
          \/ wakePipe \/ kernelJoined
      BY <1>4 DEF ConsoleWorks
    <3>2. CASE ConsoleReads
      BY <3>2 DEF ConsoleReads, submitCommand
    <3>3. CASE ConsoleEof
      BY <3>3 DEF ConsoleEof
    <3>4. CASE ConsoleReceives
      BY <3>4 DEF ConsoleReceives
    <3>5. CASE pipeStop \/ wakePipe
      BY <3>5 DEF pipeStop, wakePipe
    <3>6. CASE kernelJoined
      BY <3>6 DEF kernelJoined
    <3> QED
      BY <3>1, <3>2, <3>3, <3>4, <3>5, <3>6
  <2> QED
    BY <1>1, <2>1, MoveSeen DEF Service!ServiceNext
<1> QED
  BY <1>2, <1>3, <1>4

LEMMA ServerSeen ==
    ASSUME PipelineInv, ServerWorks PROVE Service!ServiceNext \/ UNCHANGED Seen
<1>1. "server" \in Callers
  BY DEF Callers
<1>2. CASE push("server")
  BY <1>1, <1>2, PushSeen DEF Service!ServiceNext
<1>3. CASE ~push("server")
  <2>1. \E place \in ServerPlaces \ {"waiting"} :
           /\ Moves("server", place) /\ UNCHANGED kernelVars
           /\ caller["server"] = "waiting" => answer["server"] # "none"
    <3> USE DEF ServerPlaces
    <3>1. ServerStarts \/ ServerLoops \/ ServerConnects \/ ServerReconnects
          \/ ServerReads \/ ServerReadsNothing \/ ServerReplies \/ ServerFlushes
      BY <1>3 DEF ServerWorks
    <3>2. CASE ServerStarts \/ ServerLoops
      BY <3>2 DEF ServerStarts, ServerLoops
    <3>3. CASE ServerConnects \/ ServerReconnects
      BY <3>3 DEF ServerConnects, ServerReconnects, NextInstance
    <3>4. CASE ServerReads
      BY <3>4 DEF ServerReads, submitCommand
    <3>5. CASE ServerReadsNothing \/ ServerFlushes
      BY <3>5 DEF ServerReadsNothing, ServerFlushes, NextInstance
    <3>6. CASE ServerReplies
      BY <3>6 DEF ServerReplies
    <3> QED
      BY <3>1, <3>2, <3>3, <3>4, <3>5, <3>6
  <2> QED
    BY <1>1, <2>1, MoveSeen DEF Service!ServiceNext
<1> QED
  BY <1>2, <1>3

LEMMA RestSeen == ASSUME UNCHANGED <<caller, kernelVars>> PROVE UNCHANGED Seen
BY DEF Seen, Unexecuted, Results, ResultOf, ExitExecuted, kernelVars

(* Every step of the pipeline is one of the service, or is not seen.       *)
LEMMA NextSeen ==
    ASSUME PipelineInv, [PipelineNext]_pipelineVars
    PROVE  Service!ServiceNext \/ UNCHANGED Seen
<1>1. CASE ConsoleReads \/ ConsoleEof \/ ConsoleWorks
  BY <1>1, ConsoleSeen
<1>2. CASE WorkerWorks
  BY <1>2, WorkerSeen
<1>3. CASE ServerWorks
  BY <1>3, ServerSeen
<1>4. ASSUME NEW c \in Clients, ClientCalls(c) \/ ClientWorks(c) \/ ClientLeaves(c)
      PROVE  UNCHANGED <<caller, kernelVars>>
  BY <1>4 DEF ClientCalls, ClientWorks, ClientLeaves, ClientFindsPipe, ClientConnects,
              ClientWrites, ClientReads, ClientFails, ClientMoves
<1>5. CASE UNCHANGED pipelineVars
  BY <1>5, RestSeen DEF pipelineVars
<1> QED
  BY <1>1, <1>2, <1>3, <1>4, <1>5, RestSeen DEF PipelineNext

(* The queue, the worker thread and the futures of the kernel execute the  *)
(* calls of the console and the pipe server one at a time in their order   *)
(* and answer each with its own result: they implement the service.        *)
THEOREM PipelineImplements == PipelineSpec => ImplementsRequestService
<1>1. PipelineInit => Service!ServiceInit
  BY InitSeen
<1>2. PipelineInv /\ [PipelineNext]_pipelineVars => [Service!ServiceNext]_Seen
  BY NextSeen
<1> QED
  BY <1>1, <1>2, PipelineInvariant, PTL
     DEF PipelineSpec, ImplementsRequestService, Service!ServiceSpec,
         Service!serviceVars, Seen, Results
=============================================================================
