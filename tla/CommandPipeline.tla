--------------------------- MODULE CommandPipeline --------------------------
(***************************************************************************)
(* How a command reaches the kernel and how the master shuts down: the     *)
(* client processes and the named pipe they call through, the pipe server  *)
(* thread that serves one of them at a time (src/src/ipc), the master's    *)
(* console thread (src/src/app), the BlockingQueue and the kernel's worker *)
(* thread.                                                                 *)
(*                                                                         *)
(* The console and the pipe server are the two callers of                  *)
(* Kernel::submitCommand.  What a command does to the kernel's state is    *)
(* left to Kernel; here a request is known by its caller and by whether it *)
(* is an exit.  Only the console sends one: ConsoleApp::clientLoop keeps a *)
(* client's exit to itself, and the raw spelling it does not recognise     *)
(* (Console!ClientExitsUnseen) is left out.                                *)
(*                                                                         *)
(* Of the operating system's pipe the model has the instance the server    *)
(* holds: it is missing (its creation failed), it listens, or a peer has   *)
(* opened it.  The server creates the next instance just before it closes  *)
(* the last one, so that no second peer is connected while one is served.  *)
(***************************************************************************)
EXTENDS Integers, Sequences, FiniteSets

CONSTANTS Clients,    \* the client processes
          Endings     \* how the console's input may end: "exit", "eof"

ASSUME PipelineAssumption ==
    /\ Clients \cap {"none", "listening", "waker"} = {}
    /\ Endings \subseteq {"exit", "eof"}

VARIABLES caller,             \* where the two calling threads are
          client,             \* where the client processes are
          pipe,               \* the server's pipe instance, or its peer
          written,            \* a whole command lies in the pipe
          queue,              \* requestQueue_.values_
          shutdownRequested,  \* requestQueue_.shutdownRequested_
          executing,          \* the request the worker holds, if any
          worker,             \* where the worker thread is
          answer,             \* the future each caller waits on
          pipeRunning,        \* NamedPipeServer::running_
          stopping            \* Kernel::stopping_

clientVars == <<client, pipe, written>>

kernelVars == <<queue, shutdownRequested, executing, worker, answer, stopping>>

pipelineVars == <<caller, clientVars, kernelVars, pipeRunning>>

Callers == {"console", "server"}

Answers == {"none", "done", "exit"}

Request == [by : Callers, exit : BOOLEAN]

PipelineInit ==
    /\ caller = [t \in Callers |-> IF t = "server" THEN "starting" ELSE "idle"]
    /\ client = [c \in Clients |-> "idle"]
    /\ pipe = "none"
    /\ written = FALSE
    /\ queue = <<>>
    /\ shutdownRequested = FALSE
    /\ executing = {}
    /\ worker = "popping"
    /\ answer = [t \in Callers |-> "none"]
    /\ pipeRunning = TRUE
    /\ stopping = FALSE

Moves(t, place) == caller' = [caller EXCEPT ![t] = place]

-----------------------------------------------------------------------------
(* Kernel::submitCommand.  The check of stopping_ and the push are two     *)
(* critical sections: caller[t] = "pushing..." lies between them.  A       *)
(* caller that finds stopping_ set is turned away; KernelStopsAlone says   *)
(* that no caller is left by then.                                         *)

submitCommand(t, exit) ==
    /\ ~stopping
    /\ Moves(t, IF exit THEN "pushingExit" ELSE "pushing")

(* Mutant of push: the answer to the request before is still there.        *)
pushStale(t) ==
    /\ caller[t] \in {"pushing", "pushingExit"}
    /\ ~shutdownRequested
    /\ queue' = Append(queue, [by |-> t, exit |-> caller[t] = "pushingExit"])
    /\ Moves(t, "waiting")
    /\ UNCHANGED <<clientVars, shutdownRequested, executing, worker, answer,
                   pipeRunning, stopping>>

push(t) ==
    /\ caller[t] \in {"pushing", "pushingExit"}
    /\ ~shutdownRequested
    /\ queue' = Append(queue, [by |-> t, exit |-> caller[t] = "pushingExit"])
    /\ answer' = [answer EXCEPT ![t] = "none"]
    /\ Moves(t, "waiting")
    /\ UNCHANGED <<clientVars, shutdownRequested, executing, worker,
                   pipeRunning, stopping>>

-----------------------------------------------------------------------------
(* Kernel::workerLoop.                                                     *)

(* Mutant of pop: the latest request first.                                *)
popLatest ==
    /\ worker = "popping"
    /\ queue # <<>>
    /\ executing' = {queue[Len(queue)]}
    /\ queue' = SubSeq(queue, 1, Len(queue) - 1)
    /\ worker' = "executing"
    /\ UNCHANGED <<caller, clientVars, shutdownRequested, answer,
                   pipeRunning, stopping>>

pop ==
    /\ worker = "popping"
    /\ queue # <<>>
    /\ executing' = {Head(queue)}
    /\ queue' = Tail(queue)
    /\ worker' = "executing"
    /\ UNCHANGED <<caller, clientVars, shutdownRequested, answer,
                   pipeRunning, stopping>>

(* Mutant of executeRequest: only the console is answered.                 *)
executeForConsole ==
    /\ worker = "executing"
    /\ \E r \in executing :
          /\ answer' = [answer EXCEPT
                !["console"] = IF r.by # "console" THEN @
                               ELSE IF r.exit THEN "exit" ELSE "done"]
          /\ worker' = IF r.exit THEN "closing" ELSE "popping"
    /\ executing' = {}
    /\ UNCHANGED <<caller, clientVars, queue, shutdownRequested, pipeRunning,
                   stopping>>

(* Mutant of executeRequest: what is queued behind an exit is executed.    *)
executeBehindExit ==
    /\ worker = "executing"
    /\ \E r \in executing :
          /\ answer' = [answer EXCEPT ![r.by] = IF r.exit THEN "exit" ELSE "done"]
          /\ worker' = IF r.exit /\ queue = <<>> THEN "closing" ELSE "popping"
    /\ executing' = {}
    /\ UNCHANGED <<caller, clientVars, queue, shutdownRequested, pipeRunning,
                   stopping>>

(* executeRequest and promise->set_value.                                  *)
executeRequest ==
    /\ worker = "executing"
    /\ \E r \in executing :
          /\ answer' = [answer EXCEPT ![r.by] = IF r.exit THEN "exit" ELSE "done"]
          /\ worker' = IF r.exit THEN "closing" ELSE "popping"
    /\ executing' = {}
    /\ UNCHANGED <<caller, clientVars, queue, shutdownRequested, pipeRunning,
                   stopping>>

(* After an exit the worker shuts the queue and leaves, whatever is queued. *)
workerShutdown ==
    /\ worker = "closing"
    /\ shutdownRequested' = TRUE
    /\ worker' = "ended"
    /\ UNCHANGED <<caller, clientVars, queue, executing, answer, pipeRunning,
                   stopping>>

(* Otherwise it leaves when the queue is shut and empty.                   *)
popShutdown ==
    /\ worker = "popping"
    /\ queue = <<>> /\ shutdownRequested
    /\ worker' = "ended"
    /\ UNCHANGED <<caller, clientVars, queue, shutdownRequested, executing,
                   answer, pipeRunning, stopping>>

-----------------------------------------------------------------------------
(* ConsoleApp::masterLoop.                                                 *)

ConsoleReads ==
    /\ caller["console"] = "idle"
    /\ \/ submitCommand("console", FALSE)
       \/ "exit" \in Endings /\ submitCommand("console", TRUE)
    /\ UNCHANGED <<clientVars, kernelVars, pipeRunning>>

ConsoleEof ==
    /\ caller["console"] = "idle"
    /\ "eof" \in Endings
    /\ Moves("console", "stopPipe")
    /\ UNCHANGED <<clientVars, kernelVars, pipeRunning>>

ConsoleReceives ==
    /\ caller["console"] = "waiting"
    /\ answer["console"] # "none"
    /\ Moves("console", IF answer["console"] = "exit" THEN "stopPipe" ELSE "idle")
    /\ UNCHANGED <<clientVars, kernelVars, pipeRunning>>

(* NamedPipeServer::stop: running_ is cleared, ...                         *)
pipeStop ==
    /\ caller["console"] = "stopPipe"
    /\ pipeRunning' = FALSE
    /\ Moves("console", "wakePipe")
    /\ UNCHANGED <<clientVars, kernelVars>>

(* Mutant of wakePipe: the server is not woken.                            *)
wakeNobody ==
    /\ caller["console"] = "wakePipe"
    /\ Moves("console", "joinPipe")
    /\ UNCHANGED <<clientVars, kernelVars, pipeRunning>>

(* ... the server is woken by a connection that is closed again at once, if *)
(* an instance is free to open, ...                                        *)
wakePipe ==
    /\ caller["console"] = "wakePipe"
    /\ pipe' = IF pipe = "listening" THEN "waker" ELSE pipe
    /\ Moves("console", "joinPipe")
    /\ UNCHANGED <<client, written, kernelVars, pipeRunning>>

(* Mutant of kernelStop: the pipe server is not joined.                    *)
kernelStopFirst ==
    /\ caller["console"] = "joinPipe"
    /\ stopping' = TRUE
    /\ shutdownRequested' = TRUE
    /\ Moves("console", "joinWorker")
    /\ UNCHANGED <<clientVars, queue, executing, worker, answer, pipeRunning>>

(* ... its thread is joined, and the kernel is told to stop.               *)
kernelStop ==
    /\ caller["console"] = "joinPipe"
    /\ caller["server"] = "ended"
    /\ stopping' = TRUE
    /\ shutdownRequested' = TRUE
    /\ Moves("console", "joinWorker")
    /\ UNCHANGED <<clientVars, queue, executing, worker, answer, pipeRunning>>

kernelJoined ==
    /\ caller["console"] = "joinWorker"
    /\ worker = "ended"
    /\ Moves("console", "ended")
    /\ UNCHANGED <<clientVars, kernelVars, pipeRunning>>

-----------------------------------------------------------------------------
(* NamedPipeServer::serverLoop: one client after the other.                *)

(* The peer has closed its end, or never had more than that to do.         *)
PeerClosed ==
    \/ pipe = "waker"
    \/ pipe \in Clients /\ client[pipe] \notin {"connected", "calling"}

(* Without a first instance there is no pipe server, the master goes on.   *)
ServerStarts ==
    /\ caller["server"] = "starting"
    /\ \/ pipe' = "listening" /\ Moves("server", "looping")
       \/ pipe' = "none" /\ Moves("server", "ended")
    /\ UNCHANGED <<client, written, kernelVars, pipeRunning>>

ServerLoops ==
    /\ caller["server"] = "looping"
    /\ \/ pipeRunning /\ Moves("server", "connecting") /\ pipe' = pipe
       \/ ~pipeRunning /\ Moves("server", "ended") /\ pipe' = "none"
    /\ UNCHANGED <<client, written, kernelVars, pipeRunning>>

(* The last instance is given up for a new one; its creation may fail, and *)
(* is then tried again on the next turn of the loop.                       *)
NextInstance ==
    /\ pipe' \in {"listening", "none"}
    /\ written' = FALSE
    /\ Moves("server", "looping")
    /\ UNCHANGED <<client, kernelVars, pipeRunning>>

(* ConnectNamedPipe succeeds, also for a peer that has closed meanwhile.   *)
ServerConnects ==
    /\ caller["server"] = "connecting"
    /\ pipe \notin {"none", "listening"}
    /\ \/ pipeRunning /\ Moves("server", "reading") /\ UNCHANGED <<pipe, written>>
       \/ ~pipeRunning /\ Moves("server", "ended") /\ pipe' = "none" /\ written' = FALSE
    /\ UNCHANGED <<client, kernelVars, pipeRunning>>

(* ConnectNamedPipe fails: there is no instance, or its peer has closed.   *)
ServerReconnects ==
    /\ caller["server"] = "connecting"
    /\ pipe = "none" \/ PeerClosed
    /\ NextInstance

ServerReads ==
    /\ caller["server"] = "reading"
    /\ written
    /\ written' = FALSE
    /\ submitCommand("server", FALSE)
    /\ UNCHANGED <<client, pipe, kernelVars, pipeRunning>>

(* The peer has left without a whole command.                              *)
ServerReadsNothing ==
    /\ caller["server"] = "reading"
    /\ ~written /\ PeerClosed
    /\ NextInstance

(* The response of the kernel, or that it could not be submitted (the push *)
(* threw), is written, ...                                                 *)
ServerReplies ==
    /\ \/ caller["server"] = "waiting" /\ answer["server"] # "none"
       \/ caller["server"] = "pushing" /\ shutdownRequested
    /\ Moves("server", "replying")
    /\ UNCHANGED <<clientVars, kernelVars, pipeRunning>>

(* ... and FlushFileBuffers waits until the client has read it or is gone. *)
ServerFlushes ==
    /\ caller["server"] = "replying"
    /\ PeerClosed
    /\ NextInstance

-----------------------------------------------------------------------------
(* NamedPipeClient::sendCommand and the end of a client.                   *)

ClientMoves(c, place) ==
    /\ client' = [client EXCEPT ![c] = place]
    /\ UNCHANGED <<caller, kernelVars, pipeRunning>>

ClientCalls(c) ==
    /\ client[c] = "idle"
    /\ ClientMoves(c, "waiting")
    /\ UNCHANGED <<pipe, written>>

(* WaitNamedPipeA finds an instance free, CreateFileA opens it if it still is. *)
ClientFindsPipe(c) ==
    /\ client[c] = "waiting"
    /\ pipe = "listening"
    /\ ClientMoves(c, "opening")
    /\ UNCHANGED <<pipe, written>>

ClientConnects(c) ==
    /\ client[c] = "opening"
    /\ pipe = "listening"
    /\ ClientMoves(c, "connected")
    /\ pipe' = c /\ UNCHANGED written

ClientWrites(c) ==
    /\ client[c] = "connected"
    /\ pipe = c
    /\ ClientMoves(c, "calling")
    /\ written' = TRUE /\ UNCHANGED pipe

ClientReads(c) ==
    /\ client[c] = "calling"
    /\ pipe = c /\ caller["server"] = "replying"
    /\ ClientMoves(c, "idle")
    /\ UNCHANGED <<pipe, written>>

(* A call that fails ends the client: WaitNamedPipeA timed out (or there is *)
(* no pipe), another client was faster, or the master has let go of the    *)
(* instance it was connected to.  Connected, it waits without a time limit. *)
ClientFails(c) ==
    /\ \/ client[c] = "waiting"
       \/ client[c] = "opening" /\ pipe # "listening"
       \/ client[c] \in {"connected", "calling"} /\ pipe # c
    /\ ClientMoves(c, "gone")
    /\ UNCHANGED <<pipe, written>>

(* It is closed, at any moment.                                            *)
ClientLeaves(c) ==
    /\ client[c] # "gone"
    /\ ClientMoves(c, "gone")
    /\ UNCHANGED <<pipe, written>>

-----------------------------------------------------------------------------
ConsoleWorks ==
    \/ push("console") \/ ConsoleReceives
    \/ pipeStop \/ wakePipe \/ kernelStop \/ kernelJoined

WorkerWorks == pop \/ executeRequest \/ workerShutdown \/ popShutdown

ServerWorks ==
    \/ ServerStarts \/ ServerLoops \/ ServerConnects \/ ServerReconnects
    \/ ServerReads \/ ServerReadsNothing
    \/ push("server") \/ ServerReplies \/ ServerFlushes

ClientWorks(c) ==
    \/ ClientFindsPipe(c) \/ ClientConnects(c) \/ ClientWrites(c)
    \/ ClientReads(c) \/ ClientFails(c)

PipelineNext ==
    \/ ConsoleReads \/ ConsoleEof
    \/ ConsoleWorks \/ WorkerWorks \/ ServerWorks
    \/ \E c \in Clients : ClientCalls(c) \/ ClientWorks(c) \/ ClientLeaves(c)

PipelineSpec == PipelineInit /\ [][PipelineNext]_pipelineVars

(* Every thread of the master keeps running whenever it can, and so does a *)
(* client's sendCommand, which waits for nobody's input.  When a user      *)
(* enters a command or closes a window is up to the user.                  *)
FairPipelineSpec ==
    /\ PipelineSpec
    /\ WF_pipelineVars(ConsoleWorks)
    /\ WF_pipelineVars(WorkerWorks)
    /\ WF_pipelineVars(ServerWorks)
    /\ \A c \in Clients : WF_pipelineVars(ClientWorks(c))

-----------------------------------------------------------------------------
(* What holds in every state.                                              *)

Waits(t) == caller[t] = "waiting" /\ answer[t] = "none"

Pending(t) ==
    (IF \E r \in executing : r.by = t THEN 1 ELSE 0)
        + Cardinality({i \in DOMAIN queue : queue[i].by = t})

(* As long as the worker has not taken an exit, a thread that waits for    *)
(* its future has exactly one request queued or in execution, and one that *)
(* does not wait has none: no answer can go to the wrong caller.           *)
OneRequestPerWaiter ==
    worker \in {"popping", "executing"} =>
        \A t \in Callers : Pending(t) = IF Waits(t) THEN 1 ELSE 0

(* The pipe server is stopped before the kernel: once stopping_ is set     *)
(* nobody is left who could submit a command or wait for one.              *)
KernelStopsAlone ==
    stopping => /\ queue = <<>> /\ executing = {}
                /\ caller["server"] = "ended"

(* The worker has executed an exit: what is queued stays unanswered.       *)
ExitExecuted == worker \in {"closing", "ended"}

(* The calls that are pushed and not executed yet, oldest first, and what  *)
(* each thread has of its call.                                            *)
Unexecuted ==
    IF worker = "executing" THEN <<CHOOSE r \in executing : TRUE>> \o queue ELSE queue

ResultOf(t) ==
    IF caller[t] # "waiting" THEN "idle"
    ELSE IF answer[t] = "none" THEN "submitted" ELSE answer[t]

Service == INSTANCE RequestService WITH
    order <- Unexecuted,
    result <- [t \in Callers |-> ResultOf(t)],
    open <- ~ExitExecuted

(* The queue, the worker and the futures execute the calls of both threads *)
(* one by one in their order and give each its own result, as if every     *)
(* call were one step; what is pushed behind an exit stays unexecuted.     *)
ImplementsRequestService == Service!ServiceSpec

(* Unless the worker has executed an exit first, a client that has written *)
(* its command is answered or learns that the master has gone; clients     *)
(* that connect and vanish before it do not keep the server from it.       *)
ClientAnswered ==
    \A c \in Clients : client[c] = "calling" ~> client[c] # "calling" \/ ExitExecuted

(* The console's call returns, however often clients call meanwhile: no    *)
(* later request overtakes it.                                             *)
ConsoleAnswered == Waits("console") ~> ~Waits("console")

(* A shutdown that begins while the worker is at work (the console's input *)
(* has ended) gets the server thread out of ConnectNamedPipe, ReadFile or  *)
(* its future, and completes.                                              *)
EofShutdownCompletes ==
    caller["console"] = "stopPipe" /\ ~ExitExecuted ~> caller["console"] = "ended"

(* The master that has begun to shut down ends, with all of its threads    *)
(* (BlockingQueue.h: shutdown guarantees that no background thread is left *)
(* behind when the program exits).                                         *)
ShutdownCompletes ==
    caller["console"] = "stopPipe" ~> caller["console"] = "ended"
=============================================================================
