------------------------ MODULE ProcessManagerProofs ------------------------
(***************************************************************************)
(* Every operation of the process table, and every decision of the         *)
(* scheduler for whomever it is made, preserves the table's invariants.    *)
(*                                                                         *)
(* The six invariants of ProcessManager are inductive only together: the   *)
(* queues are right because a state changes with its queue entry, the tree *)
(* is right because a new PID is above all others, and so on.  TableOK is  *)
(* their conjunction as a predicate of a table, its queues and the next    *)
(* PID, so that the lemmas below speak of values and not of states.        *)
(***************************************************************************)
EXTENDS Scheduler, QueueOpsProofs

PMInv ==
    /\ PMTypeOK
    /\ PidsBelowNext
    /\ QueuesMatchStates
    /\ TreeConsistent
    /\ StatesConsistent
    /\ RuntimeConsistent

ReadyAt(P, l) == {p \in DOMAIN P : P[p].state = "READY" /\ P[p].queueLevel = l}

GoodQueues(Q) ==
    /\ Q \in [Levels -> Seq(Nat)]
    /\ \A l \in Levels : IsInjective(Q[l])

QueuesOK(P, Q) ==
    /\ GoodQueues(Q)
    /\ \A l \in Levels : Range(Q[l]) = ReadyAt(P, l)

TreeOK(P) ==
    /\ \A p \in DOMAIN P : \A c \in P[p].children :
          c \in DOMAIN P /\ P[c].ppid = p
    /\ \A c \in DOMAIN P : P[c].ppid # 0 =>
          /\ P[c].ppid \in DOMAIN P /\ P[c].ppid < c
          /\ P[P[c].ppid].owner = P[c].owner
          /\ c \in P[P[c].ppid].children

PcbOK(r) ==
    /\ r \in PCB
    /\ r.state \notin {"NEW", "RUNNING", "TERMINATED"}
    /\ r.swappedOut <=> r.state = "SWAPPED"
    /\ r.executedTime + r.remainingTime = r.totalTime
    /\ r.remainingTime > 0
    /\ r.timeSliceLeft = timeSliceForQueue(r.queueLevel)
    /\ r.queueLevel >= queueLevelForPriority(r.priority)

PcbsOK(P, n) ==
    /\ n \in Nat \ {0}
    /\ DOMAIN P \subseteq Nat \ {0}
    /\ P = [p \in DOMAIN P |-> P[p]]
    /\ \A p \in DOMAIN P : p < n /\ PcbOK(P[p])

TableOK(P, Q, n) == PcbsOK(P, n) /\ TreeOK(P) /\ QueuesOK(P, Q)

(* The invariants say that the table is in order.                          *)
LEMMA InvIsTableOK == PMInv <=> TableOK(pcbTable, readyQueues, nextPid)
<1> DEFINE P == pcbTable
           Q == readyQueues
<1>1. ASSUME PMTypeOK, StatesConsistent
      PROVE  QueuesMatchStates <=> QueuesOK(P, Q)
  <2>1. /\ P \in [DOMAIN P -> PCB]
        /\ \A p \in DOMAIN P : /\ P[p].queueLevel \in Levels
                               /\ P[p].state = "READY" => ~P[p].swappedOut
    BY <1>1 DEF PMTypeOK, StatesConsistent, Pids, PCB
  <2>2. \A l \in Levels : \A p : p \in ReadyAt(P, l) <=>
            Schedulable(P, p) /\ P[p].queueLevel = l
    BY <2>1 DEF ReadyAt, Schedulable
  <2>3. Q \in [Levels -> Seq(Nat)]
    BY <1>1 DEF PMTypeOK
  <2>4. ASSUME QueuesMatchStates PROVE QueuesOK(P, Q)
    <3>1. GoodQueues(Q)
      BY <2>3, <2>4 DEF QueuesMatchStates, GoodQueues
    <3>2. ASSUME NEW l \in Levels PROVE Range(Q[l]) = ReadyAt(P, l)
      <4>1. \A p \in Range(Q[l]) : p \in ReadyAt(P, l)
        BY <2>2, <2>4 DEF QueuesMatchStates
      <4>2. \A p \in ReadyAt(P, l) : p \in Range(Q[l])
        BY <2>4 DEF QueuesMatchStates, ReadyAt, Pids
      <4> QED BY <4>1, <4>2
    <3> QED BY <3>1, <3>2 DEF QueuesOK
  <2>5. ASSUME QueuesOK(P, Q) PROVE QueuesMatchStates
    <3>1. \A l \in Levels : /\ IsInjective(Q[l])
                            /\ \A p \in Range(Q[l]) : p \in ReadyAt(P, l)
      BY <2>5 DEF QueuesOK, GoodQueues
    <3>2. \A p \in DOMAIN P : P[p].state = "READY" => p \in Range(Q[P[p].queueLevel])
      BY <2>1, <2>5 DEF QueuesOK, ReadyAt
    <3> QED BY <3>1, <3>2, <2>2 DEF QueuesMatchStates, Pids
  <2> QED BY <2>4, <2>5
<1>2. TreeConsistent <=> TreeOK(P)
  BY DEF TreeConsistent, TreeOK, Pids
<1>3. ASSUME PMTypeOK, PidsBelowNext, StatesConsistent, RuntimeConsistent
      PROVE  PcbsOK(P, nextPid)
  BY <1>3 DEF PMTypeOK, PidsBelowNext, StatesConsistent, RuntimeConsistent,
              PcbsOK, PcbOK, Pids
<1>4. ASSUME PcbsOK(P, nextPid), GoodQueues(Q)
      PROVE  PMTypeOK /\ PidsBelowNext /\ StatesConsistent /\ RuntimeConsistent
  BY <1>4 DEF PMTypeOK, PidsBelowNext, StatesConsistent, RuntimeConsistent,
              PcbsOK, PcbOK, GoodQueues, Pids
<1> QED BY <1>1, <1>2, <1>3, <1>4 DEF PMInv, TableOK, QueuesOK

(* ... and so they do of the next state.                                   *)
LEMMA InvIsTableOKNext == PMInv' <=> TableOK(pcbTable', readyQueues', nextPid')
<1>1. (PMInv <=> TableOK(pcbTable, readyQueues, nextPid))'
  BY InvIsTableOK, PTL
<1> QED BY <1>1

-----------------------------------------------------------------------------
(* The queue operations.                                                   *)

(* Removing PIDs takes them, and nothing else, out of every queue.         *)
LEMMA RemoveFacts ==
    ASSUME NEW Q, GoodQueues(Q), NEW S
    PROVE  /\ GoodQueues(removeFromReadyQueues(Q, S))
           /\ \A l \in Levels : Range(removeFromReadyQueues(Q, S)[l]) = Range(Q[l]) \ S
<1> DEFINE R == removeFromReadyQueues(Q, S)
<1>1. ASSUME NEW l \in Levels
      PROVE  /\ Q[l] \in Seq(Nat) /\ IsInjective(Q[l])
             /\ R[l] = Erase(Q[l], S)
  BY DEF GoodQueues, removeFromReadyQueues
<1>2. ASSUME NEW l \in Levels
      PROVE  /\ R[l] \in Seq(Nat) /\ IsInjective(R[l])
             /\ Range(R[l]) = Range(Q[l]) \ S
  BY <1>1, EraseRange, EraseInjective
<1>3. R = [l \in Levels |-> R[l]]
  BY DEF removeFromReadyQueues
<1> QED BY <1>2, <1>3 DEF GoodQueues

(* E is Q with pid queued on one level and on no other.                    *)
QueuedOn(E, Q, pid, level) ==
    /\ GoodQueues(E)
    /\ \A l \in Levels : \A x : x \in Range(E[l]) <=>
          IF x = pid THEN l = level ELSE x \in Range(Q[l])

(* A READY process is queued on its level and on no other.                 *)
LEMMA EnqueueFacts ==
    ASSUME NEW P, NEW Q, GoodQueues(Q),
           NEW pid \in DOMAIN P, pid \in Nat,
           P[pid].state = "READY",
           NEW level \in Levels, level = P[pid].queueLevel,
           NEW E, E = enqueueReady(P, Q, pid)
    PROVE  QueuedOn(E, Q, pid, level)
<1> DEFINE R == removeFromReadyQueues(Q, {pid})
<1>1. /\ GoodQueues(R)
      /\ \A l \in Levels : Range(R[l]) = Range(Q[l]) \ {pid}
  BY RemoveFacts
<1>2. E = [R EXCEPT ![level] = Append(R[level], pid)]
  BY DEF enqueueReady
<1> HIDE DEF R
<1>3. R \in [Levels -> Seq(Nat)] /\ \A l \in Levels : IsInjective(R[l])
  BY <1>1 DEF GoodQueues
<1>5. /\ E[level] = Append(R[level], pid)
      /\ \A l \in Levels \ {level} : E[l] = R[l]
      /\ E = [l \in Levels |-> E[l]]
  BY <1>2, <1>3
<1>6. /\ E[level] \in Seq(Nat) /\ IsInjective(E[level])
      /\ Range(E[level]) = Range(R[level]) \cup {pid}
  <2>1. R[level] \in Seq(Nat) /\ IsInjective(R[level]) /\ pid \notin Range(R[level])
    BY <1>1, <1>3
  <2>2. /\ Append(R[level], pid) \in Seq(Nat)
        /\ Range(Append(R[level], pid)) = Range(R[level]) \cup {pid}
        /\ IsInjective(Append(R[level], pid))
    BY <2>1, AppendFacts
  <2> QED BY <2>2, <1>5
<1>7. \A l \in Levels : E[l] \in Seq(Nat) /\ IsInjective(E[l])
  BY <1>3, <1>5, <1>6
<1>8. GoodQueues(E)
  BY <1>5, <1>7 DEF GoodQueues
<1>9. ASSUME NEW l \in Levels, NEW x
      PROVE  x \in Range(E[l]) <=>
                 IF x = pid THEN l = level ELSE x \in Range(Q[l])
  BY <1>1, <1>5, <1>6
<1> QED BY <1>8, <1>9 DEF QueuedOn

-----------------------------------------------------------------------------
(* Changing one PCB.                                                       *)

(* A new record for one process keeps the PCBs and the tree in order when  *)
(* the record is in order and keeps its parent, owner and children.        *)
LEMMA UpdateKeepsTable ==
    ASSUME NEW P, NEW n, PcbsOK(P, n), TreeOK(P),
           NEW pid \in DOMAIN P, NEW r, PcbOK(r),
           r.ppid = P[pid].ppid, r.owner = P[pid].owner,
           r.children = P[pid].children
    PROVE  /\ PcbsOK([P EXCEPT ![pid] = r], n)
           /\ TreeOK([P EXCEPT ![pid] = r])
<1> DEFINE N == [P EXCEPT ![pid] = r]
<1>1. /\ DOMAIN N = DOMAIN P
      /\ N[pid] = r
      /\ \A p \in DOMAIN P \ {pid} : N[p] = P[p]
      /\ N = [p \in DOMAIN N |-> N[p]]
  BY DEF PcbsOK
<1>2. \A p \in DOMAIN P : /\ N[p].ppid = P[p].ppid
                          /\ N[p].owner = P[p].owner
                          /\ N[p].children = P[p].children
  BY <1>1
<1> HIDE DEF N
<1>3. PcbsOK(N, n)
  BY <1>1 DEF PcbsOK
<1>4. TreeOK(N)
  BY <1>1, <1>2 DEF TreeOK
<1> QED BY <1>3, <1>4 DEF N

(* ... and the queues in order when the process is taken off them if it is *)
(* no longer READY, ...                                                    *)
LEMMA UpdateRemoves ==
    ASSUME NEW P, NEW Q, QueuesOK(P, Q),
           NEW pid \in DOMAIN P, NEW r, r.state # "READY"
    PROVE  QueuesOK([P EXCEPT ![pid] = r], removeFromReadyQueues(Q, {pid}))
<1> DEFINE N == [P EXCEPT ![pid] = r]
           R == removeFromReadyQueues(Q, {pid})
<1>1. /\ GoodQueues(R)
      /\ \A l \in Levels : Range(R[l]) = Range(Q[l]) \ {pid}
  BY RemoveFacts DEF QueuesOK
<1>2. \A l \in Levels : ReadyAt(N, l) = ReadyAt(P, l) \ {pid}
  BY DEF ReadyAt
<1> QED BY <1>1, <1>2 DEF QueuesOK

(* ... is not touched if it is READY neither before nor after, ...         *)
LEMMA UpdateKeepsQueues ==
    ASSUME NEW P, NEW Q, QueuesOK(P, Q),
           NEW pid \in DOMAIN P, NEW r,
           P[pid].state # "READY", r.state # "READY"
    PROVE  QueuesOK([P EXCEPT ![pid] = r], Q)
<1>1. \A l \in Levels : ReadyAt([P EXCEPT ![pid] = r], l) = ReadyAt(P, l)
  BY DEF ReadyAt
<1> QED BY <1>1 DEF QueuesOK

(* ... and is queued anew if it is READY.                                  *)
LEMMA UpdateEnqueues ==
    ASSUME NEW P, NEW Q, QueuesOK(P, Q),
           NEW pid \in DOMAIN P, pid \in Nat,
           NEW r, r.state = "READY", r.queueLevel \in Levels
    PROVE  QueuesOK([P EXCEPT ![pid] = r],
                    enqueueReady([P EXCEPT ![pid] = r], Q, pid))
<1> DEFINE N == [P EXCEPT ![pid] = r]
           E == enqueueReady(N, Q, pid)
<1>1. pid \in DOMAIN N /\ N[pid] = r
  OBVIOUS
<1>2. \A l \in Levels : \A x : x \in ReadyAt(N, l) <=>
          IF x = pid THEN l = r.queueLevel ELSE x \in ReadyAt(P, l)
  BY DEF ReadyAt
<1>3. GoodQueues(Q) /\ \A l \in Levels : Range(Q[l]) = ReadyAt(P, l)
  BY DEF QueuesOK
<1> HIDE DEF N
<1>4. QueuedOn(E, Q, pid, r.queueLevel)
  <2>1. /\ pid \in DOMAIN N /\ pid \in Nat /\ GoodQueues(Q)
        /\ N[pid].state = "READY"
        /\ r.queueLevel \in Levels /\ r.queueLevel = N[pid].queueLevel
    BY <1>1, <1>3
  <2>2. E = enqueueReady(N, Q, pid)
    OBVIOUS
  <2> HIDE DEF E
  <2> QED BY <2>1, <2>2, EnqueueFacts
<1> HIDE DEF E
<1>5. \A l \in Levels : Range(E[l]) = ReadyAt(N, l)
  BY <1>2, <1>3, <1>4 DEF QueuedOn
<1>6. QueuesOK(N, E)
  BY <1>4, <1>5 DEF QueuesOK, QueuedOn
<1> QED BY <1>6 DEF N, E

-----------------------------------------------------------------------------
(* Creating and killing.                                                   *)

(* A PCB in order stays so whatever its set of children is.                *)
LEMMA ChildrenUpdate ==
    ASSUME NEW r, PcbOK(r), NEW C \in SUBSET Nat
    PROVE  LET u == [r EXCEPT !.children = C]
           IN  /\ PcbOK(u)
               /\ u.ppid = r.ppid /\ u.owner = r.owner /\ u.state = r.state
               /\ u.queueLevel = r.queueLevel /\ u.children = C
<1> DEFINE u == [r EXCEPT !.children = C]
<1>1. r \in PCB
  BY DEF PcbOK
<1>2. /\ u \in PCB
      /\ u.ppid = r.ppid /\ u.owner = r.owner /\ u.state = r.state
      /\ u.priority = r.priority /\ u.queueLevel = r.queueLevel
      /\ u.totalTime = r.totalTime /\ u.executedTime = r.executedTime
      /\ u.remainingTime = r.remainingTime /\ u.timeSliceLeft = r.timeSliceLeft
      /\ u.swappedOut = r.swappedOut /\ u.children = C
  BY <1>1 DEF PCB
<1> HIDE DEF u
<1>3. PcbOK(u)
  BY <1>2 DEF PcbOK
<1> QED BY <1>2, <1>3 DEF u

(* A new process takes the next PID and is queued.                         *)
LEMMA CreateKeepsTable ==
    ASSUME NEW P, NEW Q, NEW n, TableOK(P, Q, n),
           NEW r, PcbOK(r), r.state = "READY", r.children = {},
           r.ppid # 0 => r.ppid \in DOMAIN P /\ P[r.ppid].owner = r.owner
    PROVE  TableOK(WithProcess(P, n, r),
                   enqueueReady(WithProcess(P, n, r), Q, n), n + 1)
<1> DEFINE N == WithProcess(P, n, r)
           E == enqueueReady(N, Q, n)
<1>1. /\ n \in Nat \ {0} /\ n \notin DOMAIN P
      /\ DOMAIN P \subseteq Nat \ {0}
      /\ \A p \in DOMAIN P : p < n /\ PcbOK(P[p])
  BY DEF TableOK, PcbsOK
<1>2. /\ DOMAIN N = DOMAIN P \cup {n}
      /\ N = [p \in DOMAIN N |-> N[p]]
      /\ N[n] = r
      /\ \A p \in DOMAIN P : p # r.ppid => N[p] = P[p]
  BY <1>1 DEF WithProcess
<1>3. ASSUME r.ppid \in DOMAIN P
      PROVE  N[r.ppid] = [P[r.ppid] EXCEPT !.children = P[r.ppid].children \cup {n}]
  BY <1>1, <1>3 DEF WithProcess
<1>4. r.ppid \in Nat /\ r.ppid # n /\ r.queueLevel \in Levels
  BY <1>1 DEF PcbOK, PCB
<1> HIDE DEF N
<1>5. ASSUME NEW p \in DOMAIN P
      PROVE  /\ PcbOK(N[p])
             /\ N[p].ppid = P[p].ppid /\ N[p].owner = P[p].owner
             /\ N[p].state = P[p].state /\ N[p].queueLevel = P[p].queueLevel
             /\ \A c : c \in N[p].children <=>
                   c \in P[p].children \/ (p = r.ppid /\ c = n)
  <2>1. CASE p # r.ppid
    BY <1>1, <1>2, <2>1
  <2>2. CASE p = r.ppid
    <3>1. PcbOK(P[p]) /\ P[p].children \cup {n} \in SUBSET Nat
      BY <1>1 DEF PcbOK, PCB
    <3>2. N[p] = [P[p] EXCEPT !.children = P[p].children \cup {n}]
      BY <1>3, <2>2
    <3> QED BY <2>2, <3>1, <3>2, ChildrenUpdate
  <2> QED BY <2>1, <2>2
<1>6. PcbsOK(N, n + 1)
  <2>1. ASSUME NEW p \in DOMAIN N PROVE p \in Nat \ {0} /\ p < n + 1 /\ PcbOK(N[p])
    <3>1. CASE p = n
      BY <1>1, <1>2, <3>1
    <3>2. CASE p \in DOMAIN P
      BY <1>1, <1>5, <3>2
    <3> QED BY <1>2, <3>1, <3>2
  <2> QED BY <1>1, <1>2, <2>1 DEF PcbsOK
<1>7. TreeOK(N)
  <2>1. ASSUME NEW p \in DOMAIN N, NEW c \in N[p].children
        PROVE  c \in DOMAIN N /\ N[c].ppid = p
    BY <1>1, <1>2, <1>4, <1>5 DEF TableOK, TreeOK
  <2>2. ASSUME NEW c \in DOMAIN N, N[c].ppid # 0
        PROVE  /\ N[c].ppid \in DOMAIN N /\ N[c].ppid < c
               /\ N[N[c].ppid].owner = N[c].owner
               /\ c \in N[N[c].ppid].children
    <3>1. CASE c = n
      BY <1>1, <1>2, <1>5, <2>2, <3>1
    <3>2. CASE c \in DOMAIN P
      BY <1>2, <1>5, <2>2, <3>2 DEF TableOK, TreeOK
    <3> QED BY <1>2, <3>1, <3>2
  <2> QED BY <2>1, <2>2 DEF TreeOK
<1>8. QueuesOK(N, E)
  <2>1. GoodQueues(Q) /\ \A l \in Levels : Range(Q[l]) = ReadyAt(P, l)
    BY DEF TableOK, QueuesOK
  <2>2. QueuedOn(E, Q, n, r.queueLevel)
    <3>1. /\ n \in DOMAIN N /\ n \in Nat
          /\ N[n].state = "READY"
          /\ r.queueLevel \in Levels /\ r.queueLevel = N[n].queueLevel
      BY <1>1, <1>2, <1>4
    <3>2. E = enqueueReady(N, Q, n)
      OBVIOUS
    <3> HIDE DEF E
    <3> QED BY <2>1, <3>1, <3>2, EnqueueFacts
  <2>3. \A l \in Levels : \A x : x \in ReadyAt(N, l) <=>
            IF x = n THEN l = r.queueLevel ELSE x \in ReadyAt(P, l)
    BY <1>1, <1>2, <1>5 DEF ReadyAt
  <2> HIDE DEF E
  <2> QED BY <2>1, <2>2, <2>3 DEF QueuesOK, QueuedOn
<1> QED BY <1>6, <1>7, <1>8 DEF TableOK, N

(* A subtree holds its root and, with a process, the children of the same  *)
(* owner; all of it is the owner's.                                        *)
LEMMA SubtreeFacts ==
    ASSUME NEW P, NEW owner, NEW pid \in DOMAIN P, P[pid].owner = owner
    PROVE  /\ Subtree(P, owner, pid) \subseteq DOMAIN P
           /\ pid \in Subtree(P, owner, pid)
           /\ \A p \in Subtree(P, owner, pid) :
                 /\ P[p].owner = owner
                 /\ \A c \in P[p].children :
                       c \in DOMAIN P /\ P[c].owner = owner
                           => c \in Subtree(P, owner, pid)
<1> DEFINE own == {p \in DOMAIN P : P[p].owner = owner}
<1>1. own \in SUBSET DOMAIN P /\ pid \in own /\ ClosedUnderChildren(P, owner, own)
  BY DEF ClosedUnderChildren
<1>2. Subtree(P, owner, pid) \subseteq own
  BY <1>1 DEF Subtree
<1>3. ASSUME NEW p \in Subtree(P, owner, pid), NEW c \in P[p].children,
             c \in DOMAIN P, P[c].owner = owner
      PROVE  c \in Subtree(P, owner, pid)
  <2>1. ASSUME NEW S \in SUBSET DOMAIN P, pid \in S, ClosedUnderChildren(P, owner, S)
        PROVE  c \in S
    BY <1>3, <2>1 DEF Subtree, ClosedUnderChildren
  <2> QED BY <1>3, <2>1 DEF Subtree
<1> QED BY <1>2, <1>3 DEF Subtree

(* Without a whole subtree the table is still in order: nobody loses a     *)
(* parent, nobody keeps a child that is gone.                              *)
LEMMA KillKeepsTable ==
    ASSUME NEW P, NEW Q, NEW n, TableOK(P, Q, n),
           NEW owner, NEW pid \in DOMAIN P, P[pid].owner = owner
    PROVE  LET removed == Subtree(P, owner, pid)
           IN  TableOK(WithoutSubtree(P, removed), removeFromReadyQueues(Q, removed), n)
<1> DEFINE removed == Subtree(P, owner, pid)
           N == WithoutSubtree(P, removed)
           R == removeFromReadyQueues(Q, removed)
<1>1. /\ removed \subseteq DOMAIN P
      /\ \A p \in removed :
            /\ P[p].owner = owner
            /\ \A c \in P[p].children :
                  c \in DOMAIN P /\ P[c].owner = owner => c \in removed
  BY SubtreeFacts
<1> HIDE DEF removed
<1>2. /\ DOMAIN N = DOMAIN P \ removed
      /\ N = [p \in DOMAIN N |-> N[p]]
      /\ \A p \in DOMAIN N :
            N[p] = [P[p] EXCEPT !.children = P[p].children \ removed]
  BY DEF WithoutSubtree
<1> HIDE DEF N
<1>3. ASSUME NEW p \in DOMAIN N
      PROVE  /\ PcbOK(N[p])
             /\ N[p].ppid = P[p].ppid /\ N[p].owner = P[p].owner
             /\ N[p].state = P[p].state /\ N[p].queueLevel = P[p].queueLevel
             /\ \A c : c \in N[p].children <=> c \in P[p].children /\ c \notin removed
  <2>1. PcbOK(P[p]) /\ P[p].children \ removed \in SUBSET Nat
    BY <1>2 DEF TableOK, PcbsOK, PcbOK, PCB
  <2>2. N[p] = [P[p] EXCEPT !.children = P[p].children \ removed]
    BY <1>2
  <2> DEFINE C == P[p].children \ removed
  <2>3. PcbOK(P[p]) /\ C \in SUBSET Nat /\ N[p] = [P[p] EXCEPT !.children = C]
    BY <2>1, <2>2
  <2> HIDE DEF C
  <2>4. /\ PcbOK(N[p])
        /\ N[p].ppid = P[p].ppid /\ N[p].owner = P[p].owner
        /\ N[p].state = P[p].state /\ N[p].queueLevel = P[p].queueLevel
        /\ N[p].children = C
    BY <2>3, ChildrenUpdate
  <2> QED BY <2>4 DEF C
<1>4. PcbsOK(N, n)
  BY <1>2, <1>3 DEF TableOK, PcbsOK
<1>5. TreeOK(N)
  <2>1. ASSUME NEW p \in DOMAIN N, NEW c \in N[p].children
        PROVE  c \in DOMAIN N /\ N[c].ppid = p
    BY <1>2, <1>3 DEF TableOK, TreeOK
  <2>2. ASSUME NEW c \in DOMAIN N, N[c].ppid # 0
        PROVE  /\ N[c].ppid \in DOMAIN N /\ N[c].ppid < c
               /\ N[N[c].ppid].owner = N[c].owner
               /\ c \in N[N[c].ppid].children
    <3>1. /\ c \in DOMAIN P /\ c \notin removed
          /\ P[c].ppid \in DOMAIN P /\ P[c].ppid < c
          /\ P[P[c].ppid].owner = P[c].owner
          /\ c \in P[P[c].ppid].children
      BY <1>2, <1>3, <2>2 DEF TableOK, TreeOK
    <3>2. P[c].ppid \notin removed
      BY <1>1, <3>1
    <3> QED BY <1>2, <1>3, <3>1, <3>2
  <2> QED BY <2>1, <2>2 DEF TreeOK
<1>6. QueuesOK(N, R)
  <2>1. GoodQueues(Q) /\ \A l \in Levels : Range(Q[l]) = ReadyAt(P, l)
    BY DEF TableOK, QueuesOK
  <2>2. GoodQueues(R) /\ \A l \in Levels : Range(R[l]) = Range(Q[l]) \ removed
    BY <2>1, RemoveFacts
  <2>3. \A l \in Levels : ReadyAt(N, l) = ReadyAt(P, l) \ removed
    BY <1>2, <1>3 DEF ReadyAt
  <2> QED BY <2>1, <2>2, <2>3 DEF QueuesOK
<1> QED BY <1>4, <1>5, <1>6 DEF TableOK, N, removed

-----------------------------------------------------------------------------
(* The records the operations write.                                       *)

(* The level a priority is given is one of the three.                      *)
LEMMA LevelFacts ==
    ASSUME NEW priority \in 0 .. 15
    PROVE  queueLevelForPriority(priority) \in Levels
BY DEF queueLevelForPriority, Levels

(* A time slice is a positive number.                                      *)
LEMMA SliceFacts ==
    ASSUME NEW level \in Levels
    PROVE  timeSliceForQueue(level) \in Nat \ {0}
BY DEF timeSliceForQueue, Levels

(* A new PCB is in order.                                                  *)
LEMMA NewPCBOK ==
    ASSUME NEW owner \in Users, NEW memKB \in Nat, NEW memStart \in Nat,
           NEW priority, isValidPriority(priority),
           NEW totalTime \in Nat, totalTime > 0, NEW ppid, ppid \in Nat
    PROVE  \E r : /\ r = NewPCB(owner, memKB, memStart, priority, totalTime, ppid)
                  /\ PcbOK(r)
                  /\ r.state = "READY" /\ r.children = {}
                  /\ r.ppid = ppid /\ r.owner = owner
<1> DEFINE r == NewPCB(owner, memKB, memStart, priority, totalTime, ppid)
           level == queueLevelForPriority(priority)
           slice == timeSliceForQueue(level)
<1>1. priority \in 0 .. 15 /\ level \in Levels /\ slice \in Nat
  BY LevelFacts, SliceFacts DEF isValidPriority
<1>2. r = [ppid |-> ppid, owner |-> owner, state |-> "READY",
           priority |-> priority, queueLevel |-> level,
           totalTime |-> totalTime, executedTime |-> 0,
           remainingTime |-> totalTime, timeSliceLeft |-> slice,
           memStart |-> memStart, memSize |-> memKB,
           swappedOut |-> FALSE, children |-> {}]
  BY DEF NewPCB
<1> HIDE DEF r, level, slice
<1>3. /\ r \in PCB
      /\ r.state = "READY" /\ r.children = {} /\ r.ppid = ppid /\ r.owner = owner
      /\ r.executedTime = 0 /\ r.remainingTime = totalTime /\ r.totalTime = totalTime
      /\ r.timeSliceLeft = slice /\ r.queueLevel = level /\ r.priority = priority
      /\ r.swappedOut = FALSE
  BY <1>1, <1>2 DEF PCB, ProcessState
<1>4. PcbOK(r)
  BY <1>1, <1>3 DEF PcbOK, level, slice, Levels
<1> QED BY <1>3, <1>4 DEF r

(* So is one that a command moves to another state, ...                    *)
LEMMA StateUpdate ==
    ASSUME NEW r, PcbOK(r), r.state # "SWAPPED",
           NEW s \in {"READY", "BLOCKED", "SUSPENDED_READY", "SUSPENDED_BLOCKED"}
    PROVE  LET u == [r EXCEPT !.state = s]
           IN  /\ PcbOK(u)
               /\ u.ppid = r.ppid /\ u.owner = r.owner /\ u.children = r.children
               /\ u.state = s
<1> DEFINE u == [r EXCEPT !.state = s]
<1>1. r \in PCB
  BY DEF PcbOK
<1>2. /\ u \in PCB
      /\ u.ppid = r.ppid /\ u.owner = r.owner /\ u.children = r.children
      /\ u.priority = r.priority /\ u.queueLevel = r.queueLevel
      /\ u.totalTime = r.totalTime /\ u.executedTime = r.executedTime
      /\ u.remainingTime = r.remainingTime /\ u.timeSliceLeft = r.timeSliceLeft
      /\ u.swappedOut = r.swappedOut /\ u.state = s
  BY <1>1 DEF PCB, ProcessState
<1> HIDE DEF u
<1>3. PcbOK(u)
  BY <1>2 DEF PcbOK
<1> QED BY <1>2, <1>3 DEF u

(* ... to another priority, ...                                            *)
LEMMA ReniceUpdate ==
    ASSUME NEW r, PcbOK(r), NEW priority \in 0 .. 15
    PROVE  LET level == queueLevelForPriority(priority)
               u == [r EXCEPT !.priority = priority, !.queueLevel = level,
                              !.timeSliceLeft = timeSliceForQueue(level)]
           IN  /\ PcbOK(u)
               /\ u.ppid = r.ppid /\ u.owner = r.owner /\ u.children = r.children
               /\ u.state = r.state
<1> DEFINE level == queueLevelForPriority(priority)
           slice == timeSliceForQueue(level)
           u == [r EXCEPT !.priority = priority, !.queueLevel = level,
                          !.timeSliceLeft = slice]
<1>1. r \in PCB /\ level \in Levels /\ slice \in Nat
  BY LevelFacts, SliceFacts DEF PcbOK
<1> HIDE DEF level, slice
<1>2. /\ u \in PCB
      /\ u.ppid = r.ppid /\ u.owner = r.owner /\ u.children = r.children
      /\ u.priority = priority /\ u.queueLevel = level
      /\ u.totalTime = r.totalTime /\ u.executedTime = r.executedTime
      /\ u.remainingTime = r.remainingTime /\ u.timeSliceLeft = slice
      /\ u.swappedOut = r.swappedOut /\ u.state = r.state
  BY <1>1 DEF PCB
<1> HIDE DEF u
<1>3. PcbOK(u)
  BY <1>1, <1>2 DEF PcbOK, level, slice, Levels
<1> QED BY <1>2, <1>3 DEF u, level, slice

(* ... or out of memory.                                                   *)
LEMMA SwapUpdate ==
    ASSUME NEW r, PcbOK(r)
    PROVE  LET u == [r EXCEPT !.swappedOut = TRUE, !.memStart = 0, !.state = "SWAPPED"]
           IN  /\ PcbOK(u)
               /\ u.ppid = r.ppid /\ u.owner = r.owner /\ u.children = r.children
               /\ u.state = "SWAPPED"
<1> DEFINE u == [r EXCEPT !.swappedOut = TRUE, !.memStart = 0, !.state = "SWAPPED"]
<1>1. r \in PCB
  BY DEF PcbOK
<1>2. /\ u \in PCB
      /\ u.ppid = r.ppid /\ u.owner = r.owner /\ u.children = r.children
      /\ u.priority = r.priority /\ u.queueLevel = r.queueLevel
      /\ u.totalTime = r.totalTime /\ u.executedTime = r.executedTime
      /\ u.remainingTime = r.remainingTime /\ u.timeSliceLeft = r.timeSliceLeft
      /\ u.swappedOut = TRUE /\ u.state = "SWAPPED"
  BY <1>1 DEF PCB, ProcessState
<1> HIDE DEF u
<1>3. PcbOK(u)
  BY <1>2 DEF PcbOK
<1> QED BY <1>2, <1>3 DEF u

(* A compaction's new address changes nothing of that either.              *)
LEMMA StartUpdate ==
    ASSUME NEW r, PcbOK(r), NEW start \in Nat
    PROVE  LET u == [r EXCEPT !.memStart = start]
           IN  /\ PcbOK(u)
               /\ u.ppid = r.ppid /\ u.owner = r.owner /\ u.children = r.children
               /\ u.state = r.state /\ u.queueLevel = r.queueLevel
<1> DEFINE u == [r EXCEPT !.memStart = start]
<1>1. r \in PCB
  BY DEF PcbOK
<1>2. /\ u \in PCB
      /\ u.ppid = r.ppid /\ u.owner = r.owner /\ u.children = r.children
      /\ u.priority = r.priority /\ u.queueLevel = r.queueLevel
      /\ u.totalTime = r.totalTime /\ u.executedTime = r.executedTime
      /\ u.remainingTime = r.remainingTime /\ u.timeSliceLeft = r.timeSliceLeft
      /\ u.swappedOut = r.swappedOut /\ u.state = r.state
  BY <1>1 DEF PCB
<1> HIDE DEF u
<1>3. PcbOK(u)
  BY <1>2 DEF PcbOK
<1> QED BY <1>2, <1>3 DEF u

-----------------------------------------------------------------------------
(* The operations preserve the invariants.                                 *)

(* create_pcb.                                                             *)
LEMMA CreatePreserves ==
    ASSUME PMInv, NEW owner \in Users, NEW memKB \in Nat, NEW memStart \in Nat,
           NEW priority, NEW totalTime \in Nat, NEW ppid,
           createProcess(owner, memKB, memStart, priority, totalTime, ppid)
    PROVE  PMInv'
<1> DEFINE r == NewPCB(owner, memKB, memStart, priority, totalTime, ppid)
<1>1. TableOK(pcbTable, readyQueues, nextPid)
  BY InvIsTableOK
<1>2. /\ ppid # 0 => ppid \in Pids /\ pcbTable[ppid].owner = owner
      /\ priority \in 0 .. 15 /\ totalTime > 0
      /\ pcbTable' = WithProcess(pcbTable, nextPid, r)
      /\ readyQueues' = enqueueReady(pcbTable', readyQueues, nextPid)
      /\ nextPid' = nextPid + 1
  BY DEF createProcess, ParentAllowed, hasOwnedProcess, isValidPriority
<1>3. ppid \in Nat
  BY <1>1, <1>2 DEF TableOK, PcbsOK, Pids
<1>4. /\ PcbOK(r) /\ r.state = "READY" /\ r.children = {}
      /\ r.ppid = ppid /\ r.owner = owner
  <2>1. isValidPriority(priority) /\ totalTime > 0 /\ ppid \in Nat
    BY <1>2, <1>3 DEF isValidPriority
  <2>2. \E x : /\ x = r
               /\ PcbOK(x) /\ x.state = "READY" /\ x.children = {}
               /\ x.ppid = ppid /\ x.owner = owner
    BY <2>1, NewPCBOK
  <2> HIDE DEF r
  <2> QED BY <2>2
<1> HIDE DEF r
<1>5. TableOK(pcbTable', readyQueues', nextPid')
  BY <1>1, <1>2, <1>4, CreateKeepsTable DEF Pids
<1> QED BY <1>5, InvIsTableOKNext

(* kill_pcb.                                                               *)
LEMMA KillPreserves ==
    ASSUME PMInv, NEW owner, NEW pid, killProcess(owner, pid)
    PROVE  PMInv'
<1>1. TableOK(pcbTable, readyQueues, nextPid)
  BY InvIsTableOK
<1>2. pid \in DOMAIN pcbTable /\ pcbTable[pid].owner = owner
  BY DEF killProcess, hasOwnedProcess, Pids
<1>3. LET removed == Subtree(pcbTable, owner, pid)
      IN  /\ pcbTable' = WithoutSubtree(pcbTable, removed)
          /\ readyQueues' = removeFromReadyQueues(readyQueues, removed)
          /\ nextPid' = nextPid
  BY DEF killProcess
<1>4. TableOK(pcbTable', readyQueues', nextPid')
  BY <1>1, <1>2, <1>3, KillKeepsTable
<1> QED BY <1>4, InvIsTableOKNext

(* A change of one PCB that treats the queues as its new state demands.    *)
LEMMA UpdatePreserves ==
    ASSUME PMInv, NEW pid \in Pids, NEW r, PcbOK(r),
           r.ppid = pcbTable[pid].ppid, r.owner = pcbTable[pid].owner,
           r.children = pcbTable[pid].children,
           NEW Q, QueuesOK(pcbTable, Q),
           pcbTable' = [pcbTable EXCEPT ![pid] = r],
           \/ /\ r.state = "READY"
              /\ readyQueues' = enqueueReady(pcbTable', Q, pid)
           \/ /\ r.state # "READY"
              /\ readyQueues' = removeFromReadyQueues(Q, {pid})
           \/ /\ r.state # "READY" /\ pcbTable[pid].state # "READY"
              /\ readyQueues' = Q,
           nextPid' = nextPid
    PROVE  PMInv'
<1>1. TableOK(pcbTable, readyQueues, nextPid)
  BY InvIsTableOK
<1>2. PcbsOK(pcbTable, nextPid) /\ TreeOK(pcbTable) /\ pid \in DOMAIN pcbTable
  BY <1>1 DEF TableOK, Pids
<1>3. PcbsOK(pcbTable', nextPid') /\ TreeOK(pcbTable')
  BY <1>2, UpdateKeepsTable
<1>4. pid \in Nat /\ r.queueLevel \in Levels
  BY <1>2 DEF PcbsOK, PcbOK, PCB
<1>5. QueuesOK(pcbTable', readyQueues')
  <2>1. CASE r.state = "READY" /\ readyQueues' = enqueueReady(pcbTable', Q, pid)
    BY <1>2, <1>4, <2>1, UpdateEnqueues
  <2>2. CASE r.state # "READY" /\ readyQueues' = removeFromReadyQueues(Q, {pid})
    BY <1>2, <2>2, UpdateRemoves
  <2>3. CASE r.state # "READY" /\ pcbTable[pid].state # "READY" /\ readyQueues' = Q
    BY <1>2, <2>3, UpdateKeepsQueues
  <2> QED BY <2>1, <2>2, <2>3
<1> QED BY <1>3, <1>5, InvIsTableOKNext DEF TableOK

(* block_pcb, wakeup_pcb, suspend and resume: one process goes from one    *)
(* state to another, its queue entry with it.                              *)
LEMMA StateChangePreserves ==
    ASSUME PMInv, NEW owner, NEW pid,
           \/ blockProcess(owner, pid) \/ wakeupProcess(owner, pid)
           \/ suspendProcess(owner, pid) \/ resumeProcess(owner, pid)
    PROVE  PMInv'
<1>1. TableOK(pcbTable, readyQueues, nextPid)
  BY InvIsTableOK
<1>2. pid \in Pids /\ pid \in DOMAIN pcbTable
  BY DEF blockProcess, wakeupProcess, suspendProcess, resumeProcess,
         hasOwnedProcess, Pids
<1>3. PcbOK(pcbTable[pid]) /\ QueuesOK(pcbTable, readyQueues)
  BY <1>1, <1>2 DEF TableOK, PcbsOK
<1>4. PICK s \in {"READY", "BLOCKED", "SUSPENDED_READY", "SUSPENDED_BLOCKED"} :
         /\ pcbTable[pid].state # "SWAPPED"
         /\ pcbTable' = [pcbTable EXCEPT ![pid].state = s]
         /\ nextPid' = nextPid
         /\ \/ s = "READY" /\ readyQueues' = enqueueReady(pcbTable', readyQueues, pid)
            \/ s # "READY" /\ readyQueues' = removeFromReadyQueues(readyQueues, {pid})
            \/ /\ s # "READY" /\ pcbTable[pid].state # "READY"
               /\ readyQueues' = readyQueues
  BY DEF blockProcess, wakeupProcess, suspendProcess, resumeProcess
<1> DEFINE r == [pcbTable[pid] EXCEPT !.state = s]
<1>5. pcbTable' = [pcbTable EXCEPT ![pid] = r]
  BY <1>4
<1>6. /\ PcbOK(r) /\ r.state = s
      /\ r.ppid = pcbTable[pid].ppid /\ r.owner = pcbTable[pid].owner
      /\ r.children = pcbTable[pid].children
  BY <1>3, <1>4, StateUpdate
<1> HIDE DEF r
<1> QED BY <1>2, <1>3, <1>4, <1>5, <1>6, UpdatePreserves

(* renice.                                                                 *)
LEMMA RenicePreserves ==
    ASSUME PMInv, NEW owner, NEW pid, NEW newPriority,
           reniceProcess(owner, pid, newPriority)
    PROVE  PMInv'
<1>1. TableOK(pcbTable, readyQueues, nextPid)
  BY InvIsTableOK
<1>2. /\ pid \in Pids /\ pid \in DOMAIN pcbTable /\ newPriority \in 0 .. 15
      /\ readyQueues' = enqueueReady(pcbTable', readyQueues, pid)
      /\ nextPid' = nextPid
  BY DEF reniceProcess, hasOwnedProcess, isValidPriority, Pids
<1>3. PcbOK(pcbTable[pid]) /\ QueuesOK(pcbTable, readyQueues)
  BY <1>1, <1>2 DEF TableOK, PcbsOK
<1> DEFINE level == queueLevelForPriority(newPriority)
           r == [pcbTable[pid] EXCEPT !.priority = newPriority, !.queueLevel = level,
                                      !.timeSliceLeft = timeSliceForQueue(level)]
<1>4. pcbTable' = [pcbTable EXCEPT ![pid] = r]
  BY DEF reniceProcess
<1>5. /\ PcbOK(r) /\ r.state = pcbTable[pid].state
      /\ r.ppid = pcbTable[pid].ppid /\ r.owner = pcbTable[pid].owner
      /\ r.children = pcbTable[pid].children
  BY <1>2, <1>3, ReniceUpdate
<1> HIDE DEF r
<1>6. pcbTable'[pid] = r
  BY <1>2, <1>4
<1>7. r.state # "READY" => readyQueues' = readyQueues
  BY <1>2, <1>6 DEF enqueueReady
<1> QED BY <1>2, <1>3, <1>4, <1>5, <1>7, UpdatePreserves

(* swap_out.                                                               *)
LEMMA SwapOutPreserves ==
    ASSUME PMInv, NEW owner, NEW pid, markSwappedOut(owner, pid)
    PROVE  PMInv'
<1>1. TableOK(pcbTable, readyQueues, nextPid)
  BY InvIsTableOK
<1>2. /\ pid \in Pids /\ pid \in DOMAIN pcbTable
      /\ readyQueues' = removeFromReadyQueues(readyQueues, {pid})
      /\ nextPid' = nextPid
  BY DEF markSwappedOut, hasOwnedProcess, Pids
<1>3. PcbOK(pcbTable[pid]) /\ QueuesOK(pcbTable, readyQueues)
  BY <1>1, <1>2 DEF TableOK, PcbsOK
<1> DEFINE r == [pcbTable[pid] EXCEPT !.swappedOut = TRUE, !.memStart = 0,
                                      !.state = "SWAPPED"]
<1>4. pcbTable' = [pcbTable EXCEPT ![pid] = r]
  BY DEF markSwappedOut
<1>5. /\ PcbOK(r) /\ r.state = "SWAPPED"
      /\ r.ppid = pcbTable[pid].ppid /\ r.owner = pcbTable[pid].owner
      /\ r.children = pcbTable[pid].children
  BY <1>3, SwapUpdate
<1> HIDE DEF r
<1> QED BY <1>2, <1>3, <1>4, <1>5, UpdatePreserves

(* The clean-up of the ready queues finds nothing to drop: the queues it   *)
(* leaves are as good as those it found.                                   *)
LEMMA CleanupFacts ==
    ASSUME NEW P, NEW Q, NEW n, TableOK(P, Q, n)
    PROVE  QueuesOK(P, removeFromReadyQueues(Q, InvalidEntries(P, Q)))
<1> DEFINE S == InvalidEntries(P, Q)
           R == removeFromReadyQueues(Q, S)
<1>1. GoodQueues(Q) /\ \A l \in Levels : Range(Q[l]) = ReadyAt(P, l)
  BY DEF TableOK, QueuesOK
<1>2. \A l \in Levels : \A p \in ReadyAt(P, l) : Schedulable(P, p)
  BY DEF ReadyAt, Schedulable, TableOK, PcbsOK, PcbOK, PCB
<1>3. \A p \in S : ~Schedulable(P, p)
  BY DEF InvalidEntries
<1> HIDE DEF S
<1>4. GoodQueues(R) /\ \A l \in Levels : Range(R[l]) = Range(Q[l]) \ S
  BY <1>1, RemoveFacts
<1> HIDE DEF R
<1>5. ASSUME NEW l \in Levels PROVE Range(R[l]) = ReadyAt(P, l)
  <2>1. \A p \in ReadyAt(P, l) : p \notin S
    BY <1>2, <1>3
  <2> QED BY <1>1, <1>4, <2>1
<1> QED BY <1>4, <1>5 DEF QueuesOK, R, S

(* restart_sched.                                                          *)
LEMMA CleanupPreserves ==
    ASSUME PMInv, cleanupInvalidReadyQueueEntries
    PROVE  PMInv'
<1>1. TableOK(pcbTable, readyQueues, nextPid)
  BY InvIsTableOK
<1>2. /\ pcbTable' = pcbTable /\ nextPid' = nextPid
      /\ readyQueues' = removeFromReadyQueues(readyQueues,
                            InvalidEntries(pcbTable, readyQueues))
  BY DEF cleanupInvalidReadyQueueEntries
<1>3. QueuesOK(pcbTable', readyQueues')
  BY <1>1, <1>2, CleanupFacts
<1>4. TableOK(pcbTable', readyQueues', nextPid')
  BY <1>1, <1>2, <1>3 DEF TableOK
<1> QED BY <1>4, InvIsTableOKNext

(* compact.                                                                *)
LEMMA MemoryStartsPreserve ==
    ASSUME PMInv, NEW newStart, \A p \in DOMAIN newStart : newStart[p] \in Nat,
           updateMemoryStarts(newStart)
    PROVE  PMInv'
<1> DEFINE P == pcbTable
           N == [p \in DOMAIN P |->
                    IF p \in DOMAIN newStart
                    THEN [P[p] EXCEPT !.memStart = newStart[p]] ELSE P[p]]
<1>1. PcbsOK(P, nextPid) /\ TreeOK(P) /\ QueuesOK(P, readyQueues)
  BY InvIsTableOK DEF TableOK
<1>2. pcbTable' = N /\ readyQueues' = readyQueues /\ nextPid' = nextPid
  BY DEF updateMemoryStarts, Pids
<1>3. DOMAIN N = DOMAIN P /\ N = [p \in DOMAIN N |-> N[p]]
  OBVIOUS
<1>4. ASSUME NEW p \in DOMAIN P
      PROVE  /\ PcbOK(N[p])
             /\ N[p].ppid = P[p].ppid /\ N[p].owner = P[p].owner
             /\ N[p].children = P[p].children
             /\ N[p].state = P[p].state /\ N[p].queueLevel = P[p].queueLevel
  <2>1. PcbOK(P[p])
    BY <1>1 DEF PcbsOK
  <2>2. CASE p \in DOMAIN newStart
    <3>1. newStart[p] \in Nat /\ N[p] = [P[p] EXCEPT !.memStart = newStart[p]]
      BY <2>2
    <3> HIDE DEF N
    <3> QED BY <2>1, <3>1, StartUpdate
  <2>3. CASE p \notin DOMAIN newStart
    BY <2>1, <2>3
  <2> QED BY <2>2, <2>3
<1> HIDE DEF N
<1>5. PcbsOK(N, nextPid)
  BY <1>1, <1>3, <1>4 DEF PcbsOK
<1>6. TreeOK(N)
  BY <1>1, <1>3, <1>4 DEF TreeOK
<1>7. QueuesOK(N, readyQueues)
  <2>1. \A l \in Levels : ReadyAt(N, l) = ReadyAt(P, l)
    BY <1>3, <1>4 DEF ReadyAt
  <2> QED BY <1>1, <2>1 DEF QueuesOK
<1>8. TableOK(pcbTable', readyQueues', nextPid')
  BY <1>2, <1>5, <1>6, <1>7 DEF TableOK
<1> QED BY <1>8, InvIsTableOKNext

(* The empty table is in order.                                            *)
LEMMA InitEstablishes == PMInit => PMInv
<1> SUFFICES ASSUME PMInit PROVE TableOK(pcbTable, readyQueues, nextPid)
  BY InvIsTableOK
<1>1. /\ pcbTable = [p \in {} |-> p] /\ DOMAIN pcbTable = {}
      /\ readyQueues = [l \in Levels |-> <<>>] /\ nextPid = 1
  BY DEF PMInit
<1>2. PcbsOK(pcbTable, nextPid) /\ TreeOK(pcbTable)
  BY <1>1 DEF PcbsOK, TreeOK
<1>3. QueuesOK(pcbTable, readyQueues)
  <2>1. \A l \in Levels : readyQueues[l] = <<>> /\ ReadyAt(pcbTable, l) = {}
    BY <1>1 DEF ReadyAt
  <2>2. /\ <<>> \in Seq(Nat) /\ IsInjective(<<>>) /\ Range(<<>>) = {}
    BY DEF IsInjective, Range
  <2> QED BY <1>1, <2>1, <2>2 DEF QueuesOK, GoodQueues
<1> QED BY <1>2, <1>3 DEF TableOK

-----------------------------------------------------------------------------
(* What a time slice does to the PCB that gets it.                         *)

(* The selected process runs: the two times it counts stay balanced.       *)
LEMMA AfterRunFacts ==
    ASSUME NEW r, PcbOK(r)
    PROVE  LET u == AfterRun(r)
               used == TicksRun(r, quantumForQueue(r.queueLevel))
           IN  /\ u \in PCB
               /\ u.ppid = r.ppid /\ u.owner = r.owner /\ u.children = r.children
               /\ u.priority = r.priority /\ u.queueLevel = r.queueLevel
               /\ u.totalTime = r.totalTime /\ u.swappedOut = r.swappedOut
               /\ u.memStart = r.memStart /\ u.memSize = r.memSize
               /\ u.executedTime = r.executedTime + used
               /\ u.remainingTime = r.remainingTime - used
<1> DEFINE m == markRunning(r)
           quantum == quantumForQueue(r.queueLevel)
           used == TicksRun(r, quantum)
           u == AfterRun(r)
<1>1. /\ r \in PCB /\ r.remainingTime > 0
      /\ r.timeSliceLeft \in Nat \ {0} /\ quantum \in Nat \ {0}
  BY SliceFacts DEF PcbOK, PCB, quantumForQueue, Levels
<1>2. m = [r EXCEPT !.state = "RUNNING"]
  <2> DEFINE v == [r EXCEPT !.state = "RUNNING"]
  <2>1. v \in PCB /\ v.timeSliceLeft = r.timeSliceLeft
    BY <1>1 DEF PCB, ProcessState
  <2>2. v.timeSliceLeft # 0
    BY <1>1, <2>1
  <2>3. m = [v EXCEPT !.timeSliceLeft = v.timeSliceLeft]
    BY <2>2 DEF markRunning, RefilledSlice
  <2> HIDE DEF v
  <2>4. m = v
    BY <2>1, <2>3 DEF PCB
  <2> QED BY <2>4 DEF v
<1> HIDE DEF m, quantum
<1>3. /\ m \in PCB
      /\ m.ppid = r.ppid /\ m.owner = r.owner /\ m.children = r.children
      /\ m.priority = r.priority /\ m.queueLevel = r.queueLevel
      /\ m.totalTime = r.totalTime /\ m.swappedOut = r.swappedOut
      /\ m.memStart = r.memStart /\ m.memSize = r.memSize
      /\ m.executedTime = r.executedTime /\ m.remainingTime = r.remainingTime
  BY <1>1, <1>2 DEF PCB, ProcessState
<1>4. /\ TicksRun(m, quantum) = used
      /\ used \in Nat /\ used <= r.remainingTime
  BY <1>1, <1>3 DEF TicksRun, PCB
<1> HIDE DEF used
<1> DEFINE slice == IF m.timeSliceLeft > used THEN m.timeSliceLeft - used ELSE 0
<1>5. u = [m EXCEPT !.executedTime = m.executedTime + used,
                    !.remainingTime = m.remainingTime - used,
                    !.timeSliceLeft = slice]
  BY <1>4 DEF AfterRun, tickProcess, m, quantum
<1>6. /\ m.executedTime + used \in Nat
      /\ m.remainingTime - used \in Nat
      /\ slice \in Nat
  BY <1>1, <1>3, <1>4 DEF PCB
<1> HIDE DEF slice, u
<1>7. /\ u \in PCB
      /\ u.ppid = m.ppid /\ u.owner = m.owner /\ u.children = m.children
      /\ u.priority = m.priority /\ u.queueLevel = m.queueLevel
      /\ u.totalTime = m.totalTime /\ u.swappedOut = m.swappedOut
      /\ u.memStart = m.memStart /\ u.memSize = m.memSize
      /\ u.executedTime = m.executedTime + used
      /\ u.remainingTime = m.remainingTime - used
  BY <1>3, <1>5, <1>6 DEF PCB
<1> QED BY <1>3, <1>7 DEF u, used, quantum

(* A process that has not finished has had its whole quantum and goes back *)
(* in order, one level down.                                               *)
LEMMA RequeuedFacts ==
    ASSUME NEW r, PcbOK(r), r.state = "READY", AfterRun(r).remainingTime > 0
    PROVE  LET u == Requeued(r)
           IN  /\ PcbOK(u) /\ u.state = "READY"
               /\ u.ppid = r.ppid /\ u.owner = r.owner /\ u.children = r.children
               /\ u.swappedOut = r.swappedOut
               /\ u.memStart = r.memStart /\ u.memSize = r.memSize
               /\ u.executedTime = r.executedTime + quantumForQueue(r.queueLevel)
<1> DEFINE ran == AfterRun(r)
           quantum == quantumForQueue(r.queueLevel)
           used == TicksRun(r, quantum)
           low == IF ran.queueLevel < 2 THEN ran.queueLevel + 1 ELSE ran.queueLevel
           slice == timeSliceForQueue(low)
           d == demoteProcess(ran)
           u == Requeued(r)
<1>1. /\ r \in PCB /\ quantum \in Nat \ {0}
      /\ r.queueLevel \in Levels /\ r.executedTime \in Nat
      /\ r.remainingTime \in Nat
      /\ r.queueLevel >= queueLevelForPriority(r.priority)
      /\ queueLevelForPriority(r.priority) \in Levels
      /\ r.executedTime + r.remainingTime = r.totalTime
  BY LevelFacts DEF PcbOK, PCB, quantumForQueue, Levels
<1>2. /\ ran \in PCB
      /\ ran.ppid = r.ppid /\ ran.owner = r.owner /\ ran.children = r.children
      /\ ran.priority = r.priority /\ ran.queueLevel = r.queueLevel
      /\ ran.totalTime = r.totalTime /\ ran.swappedOut = r.swappedOut
      /\ ran.memStart = r.memStart /\ ran.memSize = r.memSize
      /\ ran.executedTime = r.executedTime + used
      /\ ran.remainingTime = r.remainingTime - used
  BY AfterRunFacts
<1> HIDE DEF ran, quantum
<1>3. used = quantum
  BY <1>1, <1>2 DEF TicksRun, ran
<1> HIDE DEF used
<1>4. /\ low \in Levels /\ slice \in Nat \ {0}
      /\ low >= queueLevelForPriority(r.priority)
  <2>1. low \in Levels /\ low >= r.queueLevel
    BY <1>1, <1>2 DEF Levels
  <2> HIDE DEF low
  <2> QED BY <1>1, <2>1, SliceFacts DEF Levels
<1>5. d = [ran EXCEPT !.queueLevel = low, !.timeSliceLeft = slice]
  BY DEF demoteProcess
<1> HIDE DEF low, slice, d
<1>6. /\ d \in PCB
      /\ d.ppid = ran.ppid /\ d.owner = ran.owner /\ d.children = ran.children
      /\ d.priority = ran.priority /\ d.queueLevel = low
      /\ d.totalTime = ran.totalTime /\ d.swappedOut = ran.swappedOut
      /\ d.memStart = ran.memStart /\ d.memSize = ran.memSize
      /\ d.executedTime = ran.executedTime /\ d.remainingTime = ran.remainingTime
      /\ d.timeSliceLeft = slice
  BY <1>2, <1>4, <1>5 DEF PCB
<1>7. ran.executedTime - r.executedTime >= quantum
  BY <1>1, <1>2, <1>3
<1>8. u = markReady(d)
  BY <1>7 DEF Requeued, ran, quantum, d
<1> HIDE DEF u
<1> DEFINE v == [d EXCEPT !.state = "READY"]
<1>9. /\ v \in PCB /\ v.state = "READY"
      /\ v.ppid = d.ppid /\ v.owner = d.owner /\ v.children = d.children
      /\ v.priority = d.priority /\ v.queueLevel = d.queueLevel
      /\ v.totalTime = d.totalTime /\ v.swappedOut = d.swappedOut
      /\ v.memStart = d.memStart /\ v.memSize = d.memSize
      /\ v.executedTime = d.executedTime /\ v.remainingTime = d.remainingTime
      /\ v.timeSliceLeft = d.timeSliceLeft
  BY <1>6 DEF PCB, ProcessState
<1>10. u = [v EXCEPT !.timeSliceLeft = v.timeSliceLeft]
  <2>1. v.timeSliceLeft # 0
    BY <1>4, <1>6, <1>9
  <2> QED BY <1>8, <2>1 DEF markReady, RefilledSlice
<1> HIDE DEF v
<1>11. u = v
  BY <1>9, <1>10 DEF PCB
<1>12. PcbOK(u)
  <2>1. r.swappedOut = FALSE
    BY DEF PcbOK, PCB
  <2>2. ran.remainingTime > 0
    BY DEF ran
  <2>3. ran.executedTime + ran.remainingTime = ran.totalTime
    BY <1>1, <1>2, <1>3
  <2> QED BY <1>2, <1>4, <1>6, <1>9, <1>11, <2>1, <2>2, <2>3 DEF PcbOK, slice
<1> QED BY <1>2, <1>3, <1>6, <1>9, <1>11, <1>12 DEF u, quantum

-----------------------------------------------------------------------------
(* One scheduling decision preserves the invariants.                       *)

(* The cleaned queues hold what the queues hold: READY processes.          *)
LEMMA CleanedQueuesFacts ==
    ASSUME PMInv
    PROVE  /\ QueuesOK(pcbTable, CleanedQueues)
           /\ \A l \in Levels : \A i \in DOMAIN CleanedQueues[l] :
                 /\ CleanedQueues[l][i] \in Pids
                 /\ pcbTable[CleanedQueues[l][i]].state = "READY"
<1>1. QueuesOK(pcbTable, CleanedQueues)
  BY InvIsTableOK, CleanupFacts DEF CleanedQueues
<1>2. ASSUME NEW l \in Levels, NEW i \in DOMAIN CleanedQueues[l]
      PROVE  CleanedQueues[l][i] \in ReadyAt(pcbTable, l)
  <2>1. CleanedQueues[l][i] \in Range(CleanedQueues[l])
    BY DEF Range
  <2> QED BY <1>1, <2>1 DEF QueuesOK
<1> QED BY <1>1, <1>2 DEF ReadyAt, Pids

(* The selected process completes.                                         *)
LEMMA StepFinishPreserves ==
    ASSUME PMInv, NEW owner, NEW pid \in Pids, pcbTable[pid].owner = owner,
           StepFinish(owner, pid)
    PROVE  PMInv'
<1>1. TableOK(pcbTable, CleanedQueues, nextPid)
  BY InvIsTableOK, CleanedQueuesFacts DEF TableOK
<1>2. LET removed == Subtree(pcbTable, owner, pid)
      IN  /\ pcbTable' = WithoutSubtree(pcbTable, removed)
          /\ readyQueues' = removeFromReadyQueues(CleanedQueues, removed)
          /\ nextPid' = nextPid
  BY DEF StepFinish
<1>3. TableOK(pcbTable', readyQueues', nextPid')
  BY <1>1, <1>2, KillKeepsTable DEF Pids
<1> QED BY <1>3, InvIsTableOKNext

(* The selected process goes on.                                           *)
LEMMA StepRequeuePreserves ==
    ASSUME PMInv, NEW owner, NEW pid \in Pids, pcbTable[pid].state = "READY",
           StepRequeue(owner, pid)
    PROVE  PMInv'
<1> DEFINE r == Requeued(pcbTable[pid])
<1>1. PcbOK(pcbTable[pid])
  BY InvIsTableOK DEF TableOK, PcbsOK, Pids
<1>2. /\ AfterRun(pcbTable[pid]).remainingTime > 0
      /\ pcbTable' = [pcbTable EXCEPT ![pid] = r]
      /\ readyQueues' = enqueueReady(pcbTable', CleanedQueues, pid)
      /\ nextPid' = nextPid
  BY DEF StepRequeue
<1>3. /\ PcbOK(r) /\ r.state = "READY"
      /\ r.ppid = pcbTable[pid].ppid /\ r.owner = pcbTable[pid].owner
      /\ r.children = pcbTable[pid].children
  BY <1>1, <1>2, RequeuedFacts
<1>4. QueuesOK(pcbTable, CleanedQueues)
  BY CleanedQueuesFacts
<1> HIDE DEF r
<1> QED BY <1>2, <1>3, <1>4, UpdatePreserves

(* Scheduler::step.                                                        *)
LEMMA StepPreserves ==
    ASSUME PMInv, NEW owner, step(owner)
    PROVE  PMInv'
<1>1. CASE StepIdle(owner)
  <2>1. cleanupInvalidReadyQueueEntries
    BY <1>1 DEF StepIdle, CleanedQueues, cleanupInvalidReadyQueueEntries
  <2> QED BY <2>1, CleanupPreserves
<1>2. ASSUME NEW l \in Levels, NEW i \in DOMAIN CleanedQueues[l],
             Selects(owner, l, i),
             \/ StepFinish(owner, CleanedQueues[l][i])
             \/ StepRequeue(owner, CleanedQueues[l][i])
      PROVE  PMInv'
  <2> DEFINE pid == CleanedQueues[l][i]
  <2>1. /\ pid \in Pids /\ pcbTable[pid].state = "READY"
        /\ pcbTable[pid].owner = owner
    BY <1>2, CleanedQueuesFacts DEF Selects
  <2> HIDE DEF pid
  <2>2. StepFinish(owner, pid) \/ StepRequeue(owner, pid)
    BY <1>2 DEF pid
  <2> QED BY <2>1, <2>2, StepFinishPreserves, StepRequeuePreserves
<1> QED BY <1>1, <1>2 DEF step

-----------------------------------------------------------------------------
(* What the operations leave of the PCBs: owners, memory and the time      *)
(* used.                                                                   *)

KeepsMemory(r, u) ==
    /\ u.owner = r.owner /\ u.swappedOut = r.swappedOut
    /\ u.memStart = r.memStart /\ u.memSize = r.memSize

(* One PCB of owner is replaced.                                           *)
Replaces(owner, pid, r) ==
    /\ pid \in Pids /\ pcbTable[pid].owner = owner
    /\ pcbTable' = [pcbTable EXCEPT ![pid] = r]

LEMMA CommandEffect ==
    ASSUME PMInv, NEW owner, NEW pid,
           \/ blockProcess(owner, pid) \/ wakeupProcess(owner, pid)
           \/ suspendProcess(owner, pid) \/ resumeProcess(owner, pid)
           \/ \E newPriority : reniceProcess(owner, pid, newPriority)
    PROVE  \E r : /\ Replaces(owner, pid, r)
                  /\ KeepsMemory(pcbTable[pid], r)
                  /\ r.executedTime = pcbTable[pid].executedTime
<1>1. pid \in Pids /\ pcbTable[pid].owner = owner
  BY DEF blockProcess, wakeupProcess, suspendProcess, resumeProcess, reniceProcess,
         hasOwnedProcess
<1>2. pcbTable[pid] \in PCB
  BY <1>1 DEF PMInv, PMTypeOK
<1>3. CASE \/ blockProcess(owner, pid) \/ wakeupProcess(owner, pid)
           \/ suspendProcess(owner, pid) \/ resumeProcess(owner, pid)
  <2>1. PICK s : pcbTable' = [pcbTable EXCEPT ![pid] = [pcbTable[pid] EXCEPT !.state = s]]
    BY <1>3 DEF blockProcess, wakeupProcess, suspendProcess, resumeProcess
  <2> DEFINE r == [pcbTable[pid] EXCEPT !.state = s]
  <2>2. /\ KeepsMemory(pcbTable[pid], r)
        /\ r.executedTime = pcbTable[pid].executedTime
    BY <1>2 DEF PCB, KeepsMemory
  <2> HIDE DEF r
  <2>3. Replaces(owner, pid, r)
    BY <1>1, <2>1 DEF Replaces, r
  <2> QED
    BY <2>2, <2>3
<1>4. ASSUME NEW newPriority, reniceProcess(owner, pid, newPriority)
      PROVE  \E r : /\ Replaces(owner, pid, r)
                    /\ KeepsMemory(pcbTable[pid], r)
                    /\ r.executedTime = pcbTable[pid].executedTime
  <2> DEFINE level == queueLevelForPriority(newPriority)
             r == [pcbTable[pid] EXCEPT !.priority = newPriority, !.queueLevel = level,
                                        !.timeSliceLeft = timeSliceForQueue(level)]
  <2>1. pcbTable' = [pcbTable EXCEPT ![pid] = r]
    BY <1>1, <1>4 DEF reniceProcess, Pids
  <2>2. /\ KeepsMemory(pcbTable[pid], r)
        /\ r.executedTime = pcbTable[pid].executedTime
    BY <1>2 DEF PCB, KeepsMemory
  <2> HIDE DEF r
  <2>3. Replaces(owner, pid, r)
    BY <1>1, <2>1 DEF Replaces
  <2> QED
    BY <2>2, <2>3
<1> QED
  BY <1>3, <1>4

LEMMA SwapOutEffect ==
    ASSUME PMInv, NEW owner, NEW pid, markSwappedOut(owner, pid)
    PROVE  \E r : /\ Replaces(owner, pid, r)
                  /\ r.owner = owner /\ r.swappedOut = TRUE
                  /\ r.executedTime = pcbTable[pid].executedTime
<1>1. pid \in Pids /\ pcbTable[pid].owner = owner
  BY DEF markSwappedOut, hasOwnedProcess
<1>2. pcbTable[pid] \in PCB
  BY <1>1 DEF PMInv, PMTypeOK
<1> DEFINE r == [pcbTable[pid] EXCEPT !.swappedOut = TRUE, !.memStart = 0,
                                      !.state = "SWAPPED"]
<1>3. pcbTable' = [pcbTable EXCEPT ![pid] = r]
  BY <1>1 DEF markSwappedOut, Pids
<1>4. r.owner = pcbTable[pid].owner /\ r.swappedOut = TRUE
      /\ r.executedTime = pcbTable[pid].executedTime
  BY <1>2 DEF PCB
<1> HIDE DEF r
<1> QED
  BY <1>1, <1>3, <1>4 DEF Replaces

(* Only processes of owner are removed, and the others keep all but their  *)
(* children that are gone, which are the owner's.                          *)
Removes(owner, removed) ==
    /\ removed \subseteq Pids /\ \A p \in removed : pcbTable[p].owner = owner
    /\ Pids' = Pids \ removed
    /\ \A p \in Pids' : /\ KeepsMemory(pcbTable[p], pcbTable'[p])
                        /\ pcbTable'[p].executedTime = pcbTable[p].executedTime
                        /\ pcbTable[p].owner # owner => pcbTable'[p] = pcbTable[p]

LEMMA RemovalEffect ==
    ASSUME PMInv, NEW owner, NEW pid \in Pids, pcbTable[pid].owner = owner,
           NEW removed, removed = Subtree(pcbTable, owner, pid),
           pcbTable' = WithoutSubtree(pcbTable, removed)
    PROVE  Removes(owner, removed)
<1>1. removed \subseteq Pids /\ \A p \in removed : pcbTable[p].owner = owner
  BY SubtreeFacts DEF Pids
<1>2. \A p \in Pids : pcbTable[p] \in PCB
  BY DEF PMInv, PMTypeOK
<1>3. Pids' = Pids \ removed
  BY DEF WithoutSubtree, Pids
<1>4. ASSUME NEW p \in Pids'
      PROVE  /\ KeepsMemory(pcbTable[p], pcbTable'[p])
             /\ pcbTable'[p].executedTime = pcbTable[p].executedTime
             /\ pcbTable[p].owner # owner => pcbTable'[p] = pcbTable[p]
  <2>1. p \in Pids /\ p \notin removed
    BY <1>3
  <2>2. pcbTable'[p] = [pcbTable[p] EXCEPT !.children = pcbTable[p].children \ removed]
    BY <2>1 DEF WithoutSubtree, Pids
  <2>3. ASSUME pcbTable[p].owner # owner PROVE pcbTable'[p] = pcbTable[p]
    <3>1. \A c \in pcbTable[p].children : c \in Pids /\ pcbTable[c].ppid = p
      BY <2>1 DEF PMInv, TreeConsistent
    <3>2. p # 0
      BY <2>1 DEF PMInv, PMTypeOK
    <3>3. \A c \in pcbTable[p].children : pcbTable[c].owner = pcbTable[p].owner
      BY <3>1, <3>2 DEF PMInv, TreeConsistent
    <3>4. pcbTable[p].children \ removed = pcbTable[p].children
      BY <1>1, <2>3, <3>3
    <3>5. [pcbTable[p] EXCEPT !.children = pcbTable[p].children] = pcbTable[p]
      BY <1>2, <2>1 DEF PCB
    <3> QED
      BY <2>2, <3>4, <3>5
  <2> QED
    BY <1>2, <2>1, <2>2, <2>3 DEF PCB, KeepsMemory
<1> QED
  BY <1>1, <1>3, <1>4 DEF Removes

LEMMA KillEffect ==
    ASSUME PMInv, NEW owner, NEW pid, killProcess(owner, pid)
    PROVE  \E removed : Removes(owner, removed)
<1>1. pid \in Pids /\ pcbTable[pid].owner = owner
  BY DEF killProcess, hasOwnedProcess
<1> QED
  BY <1>1, RemovalEffect DEF killProcess

(* One decision runs one process of owner for its quantum, which then      *)
(* completes or goes on.                                                   *)
LEMMA StepEffect ==
    ASSUME PMInv, NEW owner, step(owner)
    PROVE  \/ pcbTable' = pcbTable
           \/ \E removed : Removes(owner, removed)
           \/ \E pid, r : /\ Replaces(owner, pid, r)
                          /\ KeepsMemory(pcbTable[pid], r)
                          /\ r.executedTime = pcbTable[pid].executedTime
                                 + quantumForQueue(pcbTable[pid].queueLevel)
<1>1. CASE StepIdle(owner)
  BY <1>1 DEF StepIdle
<1>2. ASSUME NEW l \in Levels, NEW i \in DOMAIN CleanedQueues[l], Selects(owner, l, i),
             \/ StepFinish(owner, CleanedQueues[l][i])
             \/ StepRequeue(owner, CleanedQueues[l][i])
      PROVE  \/ \E removed : Removes(owner, removed)
             \/ \E pid, r : /\ Replaces(owner, pid, r)
                            /\ KeepsMemory(pcbTable[pid], r)
                            /\ r.executedTime = pcbTable[pid].executedTime
                                   + quantumForQueue(pcbTable[pid].queueLevel)
  <2> DEFINE pid == CleanedQueues[l][i]
  <2>1. pid \in Pids /\ pcbTable[pid].state = "READY" /\ pcbTable[pid].owner = owner
    BY <1>2, CleanedQueuesFacts DEF Selects
  <2>2. StepFinish(owner, pid) \/ StepRequeue(owner, pid)
    BY <1>2
  <2> HIDE DEF pid
  <2>3. CASE StepFinish(owner, pid)
    <3>1. pcbTable' = WithoutSubtree(pcbTable, Subtree(pcbTable, owner, pid))
      BY <2>3 DEF StepFinish
    <3> QED
      BY <2>1, <3>1, RemovalEffect
  <2>4. CASE StepRequeue(owner, pid)
    <3> DEFINE r == Requeued(pcbTable[pid])
    <3>1. PcbOK(pcbTable[pid])
      BY <2>1, InvIsTableOK DEF TableOK, PcbsOK, Pids
    <3>2. /\ pcbTable' = [pcbTable EXCEPT ![pid] = r]
          /\ AfterRun(pcbTable[pid]).remainingTime > 0
      BY <2>4 DEF StepRequeue
    <3>3. /\ KeepsMemory(pcbTable[pid], r)
          /\ r.executedTime = pcbTable[pid].executedTime
                 + quantumForQueue(pcbTable[pid].queueLevel)
      BY <2>1, <3>1, <3>2, RequeuedFacts DEF KeepsMemory
    <3> HIDE DEF r
    <3>4. Replaces(owner, pid, r)
      BY <2>1, <3>2 DEF Replaces
    <3> QED
      BY <3>3, <3>4
  <2> QED
    BY <2>2, <2>3, <2>4
<1> QED
  BY <1>1, <1>2 DEF step

(* A new PCB under a new PID; its parent only learns of it.                *)
LEMMA CreateEffect ==
    ASSUME PMInv, NEW owner, NEW memKB, NEW start, NEW priority, NEW totalTime, NEW ppid,
           createProcess(owner, memKB, start, priority, totalTime, ppid)
    PROVE  /\ nextPid \notin Pids /\ Pids' = Pids \cup {nextPid}
           /\ \A p \in Pids : /\ KeepsMemory(pcbTable[p], pcbTable'[p])
                              /\ pcbTable'[p].executedTime = pcbTable[p].executedTime
                              /\ pcbTable[p].owner # owner => pcbTable'[p] = pcbTable[p]
           /\ LET r == pcbTable'[nextPid]
              IN  /\ r.owner = owner /\ r.swappedOut = FALSE
                  /\ r.memStart = start /\ r.memSize = memKB
<1> DEFINE r == NewPCB(owner, memKB, start, priority, totalTime, ppid)
<1>1. /\ r.owner = owner /\ r.swappedOut = FALSE
      /\ r.memStart = start /\ r.memSize = memKB
  BY DEF NewPCB
<1>2. pcbTable' = WithProcess(pcbTable, nextPid, r)
  BY DEF createProcess
<1>3a. r.ppid = ppid
  BY DEF NewPCB
<1> HIDE DEF r
<1>3. \A p \in Pids : pcbTable[p] \in PCB
  BY DEF PMInv, PMTypeOK
<1>4. nextPid \notin Pids
  BY DEF PMInv, PMTypeOK, PidsBelowNext
<1>5. /\ DOMAIN pcbTable' = Pids \cup {nextPid}
      /\ \A p \in DOMAIN pcbTable' :
            pcbTable'[p] = IF p = nextPid THEN r
                           ELSE IF p = r.ppid
                           THEN [pcbTable[p] EXCEPT !.children = @ \cup {nextPid}]
                           ELSE pcbTable[p]
  BY <1>2 DEF WithProcess, Pids
<1>6. ASSUME NEW p \in Pids
      PROVE  /\ KeepsMemory(pcbTable[p], pcbTable'[p])
             /\ pcbTable'[p].executedTime = pcbTable[p].executedTime
             /\ pcbTable[p].owner # owner => pcbTable'[p] = pcbTable[p]
  <2>1. KeepsMemory(pcbTable[p], pcbTable[p])
    BY DEF KeepsMemory
  <2>2. LET u == [pcbTable[p] EXCEPT !.children = @ \cup {nextPid}]
        IN  KeepsMemory(pcbTable[p], u) /\ u.executedTime = pcbTable[p].executedTime
    BY <1>3 DEF PCB, KeepsMemory
  <2>3. \/ pcbTable'[p] = pcbTable[p]
        \/ pcbTable'[p] = [pcbTable[p] EXCEPT !.children = @ \cup {nextPid}]
    BY <1>4, <1>5
  <2>4. ASSUME pcbTable[p].owner # owner PROVE pcbTable'[p] = pcbTable[p]
    <3>1. p # 0 /\ p # ppid
      BY <2>4 DEF createProcess, ParentAllowed, hasOwnedProcess, PMInv, PMTypeOK
    <3> QED
      BY <1>4, <1>5, <1>3a, <3>1
  <2> QED
    BY <2>1, <2>2, <2>3, <2>4
<1> QED
  BY <1>1, <1>4, <1>5, <1>6 DEF Pids

(* A compaction changes addresses only.                                    *)
LEMMA MemoryStartEffect ==
    ASSUME PMInv, NEW newStart, updateMemoryStarts(newStart)
    PROVE  /\ Pids' = Pids
           /\ \A p \in Pids :
                 LET r == pcbTable[p]
                     u == pcbTable'[p]
                 IN  /\ u.owner = r.owner /\ u.swappedOut = r.swappedOut
                     /\ u.memSize = r.memSize /\ u.executedTime = r.executedTime
                     /\ u.memStart = IF p \in DOMAIN newStart THEN newStart[p]
                                                              ELSE r.memStart
                     /\ [u EXCEPT !.memStart = 0] = [r EXCEPT !.memStart = 0]
<1>1. \A p \in Pids : pcbTable[p] \in PCB
  BY DEF PMInv, PMTypeOK
<1>2. /\ Pids' = Pids
      /\ \A p \in Pids :
            pcbTable'[p] = IF p \in DOMAIN newStart
                           THEN [pcbTable[p] EXCEPT !.memStart = newStart[p]]
                           ELSE pcbTable[p]
  BY DEF updateMemoryStarts, Pids
<1>3. \A p \in Pids : LET u == [pcbTable[p] EXCEPT !.memStart = newStart[p]]
                      IN  /\ u.owner = pcbTable[p].owner
                          /\ u.swappedOut = pcbTable[p].swappedOut
                          /\ u.memSize = pcbTable[p].memSize
                          /\ u.executedTime = pcbTable[p].executedTime
                          /\ u.memStart = newStart[p]
                          /\ [u EXCEPT !.memStart = 0] = [pcbTable[p] EXCEPT !.memStart = 0]
  BY <1>1 DEF PCB
<1> QED
  BY <1>2, <1>3

-----------------------------------------------------------------------------
(* What is done for one user.                                              *)

(* Only processes of owner go, nobody's memory moves, and the PCBs of the  *)
(* others stay as they are.                                                *)
ServesOnly(owner) ==
    /\ Pids' \subseteq Pids
    /\ \A p \in Pids \ Pids' : pcbTable[p].owner = owner
    /\ \A p \in Pids' : /\ KeepsMemory(pcbTable[p], pcbTable'[p])
                        /\ pcbTable[p].owner # owner => pcbTable'[p] = pcbTable[p]

LEMMA ReplacementServes ==
    ASSUME NEW owner, NEW pid, NEW r, Replaces(owner, pid, r),
           KeepsMemory(pcbTable[pid], r)
    PROVE  ServesOnly(owner) /\ Pids' = Pids
BY DEF Replaces, ServesOnly, KeepsMemory, Pids

LEMMA RemovalServes ==
    ASSUME NEW owner, NEW removed, Removes(owner, removed) PROVE ServesOnly(owner)
BY DEF Removes, ServesOnly

LEMMA CommandServes ==
    ASSUME PMInv, NEW owner, NEW pid,
           \/ blockProcess(owner, pid) \/ wakeupProcess(owner, pid)
           \/ suspendProcess(owner, pid) \/ resumeProcess(owner, pid)
           \/ \E newPriority : reniceProcess(owner, pid, newPriority)
    PROVE  ServesOnly(owner) /\ Pids' = Pids
BY CommandEffect, ReplacementServes

LEMMA StepServes ==
    ASSUME PMInv, NEW owner, step(owner) PROVE ServesOnly(owner)
<1>1. CASE pcbTable' = pcbTable
  BY <1>1 DEF ServesOnly, KeepsMemory, Pids
<1> QED
  BY <1>1, StepEffect, ReplacementServes, RemovalServes

-----------------------------------------------------------------------------
(* What the calls of one user do to the queues, and what the others see.   *)

(* Entries of S leave the queue, and one of S may be pushed at its back.   *)
Touches(q, r, S) ==
    \E T \in SUBSET S : r = Erase(q, T) \/ \E x \in S : r = Append(Erase(q, T), x)

TouchesOnly(Q, R, S) == \A l \in Levels : Touches(Q[l], R[l], S)

(* The entries of q that are in own, in their order.                       *)
InLine(q, own) == Erase(q, Range(q) \ own)

Apart(S, own) == \A x \in S : x \notin own

(* The other entries keep their order.                                     *)
LEMMA OthersInLine ==
    ASSUME NEW q \in Seq(Nat), NEW r, NEW S \in SUBSET Nat, Touches(q, r, S),
           NEW own, Apart(S, own)
    PROVE  InLine(r, own) = InLine(q, own)
<1>1. PICK T \in SUBSET S : r = Erase(q, T) \/ \E x \in S : r = Append(Erase(q, T), x)
  BY DEF Touches
<1> DEFINE e == Erase(q, T)
<1>2. e \in Seq(Nat) /\ Range(e) = Range(q) \ T
  BY EraseRange
<1>3. Erase(e, Range(e) \ own) = Erase(q, Range(q) \ own)
  <2>1. Erase(e, Range(e) \ own) = Erase(q, T \cup (Range(e) \ own))
    BY EraseErase
  <2>2. \A x \in Range(q) : x \in T \cup (Range(e) \ own) <=> x \in Range(q) \ own
    BY <1>2 DEF Apart
  <2>3. Erase(q, T \cup (Range(e) \ own)) = Erase(q, Range(q) \ own)
    BY <2>2, EraseSame
  <2> QED
    BY <2>1, <2>3
<1> HIDE DEF e
<1>4. ASSUME NEW x \in S, r = Append(e, x)
      PROVE  Erase(r, Range(r) \ own) = Erase(q, Range(q) \ own)
  <2>1. Range(r) = Range(e) \cup {x}
    BY <1>2, <1>4, AppendFacts
  <2>2. x \in Range(r) \ own /\ x \in Nat
    BY <2>1 DEF Apart
  <2>3. Erase(r, Range(r) \ own) = Erase(e, Range(r) \ own)
    BY <1>2, <1>4, <2>2, AppendErased
  <2>4. \A y \in Range(e) : y \in Range(r) \ own <=> y \in Range(e) \ own
    BY <2>1
  <2>5. Erase(e, Range(r) \ own) = Erase(e, Range(e) \ own)
    BY <2>4, EraseSame
  <2> QED
    BY <1>3, <2>3, <2>5
<1>5. Erase(r, Range(r) \ own) = Erase(q, Range(q) \ own)
  BY <1>1, <1>3, <1>4 DEF e
<1> QED
  BY <1>5 DEF InLine

LEMMA OthersInLines ==
    ASSUME NEW Q \in [Levels -> Seq(Nat)], NEW R, NEW S \in SUBSET Nat,
           TouchesOnly(Q, R, S), NEW own, Apart(S, own)
    PROVE  \A l \in Levels : InLine(R[l], own) = InLine(Q[l], own)
<1> TAKE l \in Levels
<1>1. Q[l] \in Seq(Nat) /\ Touches(Q[l], R[l], S)
  BY DEF TouchesOnly
<1> QED
  BY <1>1, OthersInLine

LEMMA RemoveTouches ==
    ASSUME NEW Q, NEW S, NEW T \in SUBSET S
    PROVE  TouchesOnly(Q, removeFromReadyQueues(Q, T), S)
BY DEF TouchesOnly, Touches, removeFromReadyQueues

LEMMA StayingTouches ==
    ASSUME NEW Q, GoodQueues(Q), NEW S PROVE TouchesOnly(Q, Q, S)
<1>1. ASSUME NEW l \in Levels PROVE Q[l] = Erase(Q[l], {})
  <2>1. Q[l] \in Seq(Nat) /\ \A x \in Range(Q[l]) : x \notin {}
    BY DEF GoodQueues
  <2> QED
    BY <2>1, EraseNothing
<1> QED
  BY <1>1 DEF TouchesOnly, Touches

LEMMA EnqueueTouches ==
    ASSUME NEW P, NEW Q, GoodQueues(Q), NEW S, NEW pid \in S
    PROVE  TouchesOnly(Q, enqueueReady(P, Q, pid), S)
<1>1. CASE pid \in DOMAIN P /\ P[pid].state = "READY"
  <2> DEFINE R == removeFromReadyQueues(Q, {pid})
  <2>1. R = [l \in Levels |-> Erase(Q[l], {pid})]
    BY DEF removeFromReadyQueues
  <2> HIDE DEF R
  <2>2. enqueueReady(P, Q, pid) = [R EXCEPT ![P[pid].queueLevel] = Append(@, pid)]
    BY <1>1 DEF enqueueReady, R
  <2>3. ASSUME NEW l \in Levels
        PROVE  \/ enqueueReady(P, Q, pid)[l] = Erase(Q[l], {pid})
               \/ enqueueReady(P, Q, pid)[l] = Append(Erase(Q[l], {pid}), pid)
    BY <2>1, <2>2
  <2>4. {pid} \in SUBSET S
    OBVIOUS
  <2> QED
    BY <2>3, <2>4 DEF TouchesOnly, Touches
<1>2. CASE ~(pid \in DOMAIN P /\ P[pid].state = "READY")
  <2>1. enqueueReady(P, Q, pid) = Q
    BY <1>2 DEF enqueueReady
  <2> QED
    BY <2>1, StayingTouches
<1> QED
  BY <1>1, <1>2

(* Between two calls the queues have no invalid entries.                   *)
LEMMA CleanedSame == ASSUME PMInv PROVE CleanedQueues = readyQueues
<1>1. readyQueues \in [Levels -> Seq(Nat)]
  BY DEF PMInv, PMTypeOK
<1>2. ASSUME NEW l \in Levels
      PROVE  Erase(readyQueues[l], InvalidEntries(pcbTable, readyQueues)) = readyQueues[l]
  <2>1. \A pid \in Range(readyQueues[l]) : Schedulable(pcbTable, pid)
    BY DEF PMInv, QueuesMatchStates
  <2>2. \A pid \in Range(readyQueues[l]) :
           pid \notin InvalidEntries(pcbTable, readyQueues)
    BY <2>1 DEF InvalidEntries
  <2> QED
    BY <1>1, <2>2, EraseNothing
<1>3. CleanedQueues = [l \in Levels |-> readyQueues[l]]
  BY <1>2 DEF CleanedQueues, removeFromReadyQueues
<1> QED
  BY <1>1, <1>3

(* The PIDs a call of owner may put into a queue or take out of it.        *)
Mine(owner) == {p \in Pids : pcbTable[p].owner = owner} \cup {nextPid}

(* The PCBs of the others are the same ones, unchanged, and only entries   *)
(* of owner move in the queues.                                            *)
LeavesOthers(owner) ==
    /\ \A p \in Pids : pcbTable[p].owner # owner =>
          p \in Pids' /\ pcbTable'[p] = pcbTable[p]
    /\ \A p \in Pids' : pcbTable'[p].owner # owner =>
          p \in Pids /\ pcbTable[p].owner = pcbTable'[p].owner
    /\ TouchesOnly(readyQueues, readyQueues', Mine(owner))

LEMMA OthersView ==
    ASSUME PMInv, NEW owner, LeavesOthers(owner), NEW user, user # owner
    PROVE  ViewOf(user)' = ViewOf(user)
<1> DEFINE own == {p \in Pids : pcbTable[p].owner = user}
           ownNext == {p \in Pids' : pcbTable'[p].owner = user}
<1>1. ownNext = own /\ \A p \in own : pcbTable'[p] = pcbTable[p]
  BY DEF LeavesOthers
<1>2. [p \in ownNext |-> [pcbTable'[p] EXCEPT !.memStart = 0]]
          = [p \in own |-> [pcbTable[p] EXCEPT !.memStart = 0]]
  BY <1>1
<1>3. Apart(Mine(owner), own)
  BY DEF Mine, Apart, PMInv, PidsBelowNext, PMTypeOK
<1>4. Mine(owner) \in SUBSET Nat
  BY DEF Mine, PMInv, PMTypeOK
<1> HIDE DEF own, ownNext
<1>5. /\ readyQueues \in [Levels -> Seq(Nat)]
      /\ TouchesOnly(readyQueues, readyQueues', Mine(owner))
  BY DEF PMInv, PMTypeOK, LeavesOthers
<1>6. \A l \in Levels : InLine(readyQueues'[l], own) = InLine(readyQueues[l], own)
  BY <1>3, <1>4, <1>5, OthersInLines
<1>7. \A l \in Levels : InLine(readyQueues'[l], ownNext) = InLine(readyQueues[l], own)
  BY <1>1, <1>6
<1>8. [l \in Levels |-> Erase(readyQueues'[l], Range(readyQueues'[l]) \ ownNext)]
          = [l \in Levels |-> Erase(readyQueues[l], Range(readyQueues[l]) \ own)]
  BY <1>7 DEF InLine
<1> QED
  BY <1>2, <1>8 DEF ViewOf, own, ownNext

LEMMA CommandLeavesOthers ==
    ASSUME PMInv, NEW owner, NEW pid,
           \/ killProcess(owner, pid)
           \/ blockProcess(owner, pid) \/ wakeupProcess(owner, pid)
           \/ suspendProcess(owner, pid) \/ resumeProcess(owner, pid)
           \/ markSwappedOut(owner, pid)
           \/ \E newPriority : reniceProcess(owner, pid, newPriority)
    PROVE  LeavesOthers(owner)
<1>1. pid \in Pids /\ pcbTable[pid].owner = owner
  BY DEF killProcess, blockProcess, wakeupProcess, suspendProcess, resumeProcess,
         markSwappedOut, reniceProcess, hasOwnedProcess
<1>2. pid \in Mine(owner) /\ {pid} \in SUBSET Mine(owner)
  BY <1>1 DEF Mine
<1>3. GoodQueues(readyQueues)
  BY InvIsTableOK DEF TableOK, QueuesOK
<1>4. ASSUME NEW r, Replaces(owner, pid, r), r.owner = owner,
             TouchesOnly(readyQueues, readyQueues', Mine(owner))
      PROVE  LeavesOthers(owner)
  BY <1>4 DEF LeavesOthers, Replaces, Pids
<1>5. CASE killProcess(owner, pid)
  <2> DEFINE removed == Subtree(pcbTable, owner, pid)
  <2>1. /\ pcbTable' = WithoutSubtree(pcbTable, removed)
        /\ readyQueues' = removeFromReadyQueues(readyQueues, removed)
    BY <1>5 DEF killProcess
  <2> HIDE DEF removed
  <2>2. Removes(owner, removed)
    BY <1>1, <2>1, RemovalEffect DEF removed
  <2>3. removed \in SUBSET Mine(owner)
    BY <2>2 DEF Removes, Mine
  <2>4. TouchesOnly(readyQueues, readyQueues', Mine(owner))
    BY <2>1, <2>3, RemoveTouches
  <2> QED
    BY <2>2, <2>4 DEF Removes, LeavesOthers, KeepsMemory
<1>6. CASE \/ blockProcess(owner, pid) \/ wakeupProcess(owner, pid)
           \/ suspendProcess(owner, pid) \/ resumeProcess(owner, pid)
           \/ \E newPriority : reniceProcess(owner, pid, newPriority)
  <2>1. PICK r : Replaces(owner, pid, r) /\ KeepsMemory(pcbTable[pid], r)
    BY <1>6, CommandEffect
  <2>2. \/ readyQueues' = readyQueues
        \/ readyQueues' = removeFromReadyQueues(readyQueues, {pid})
        \/ readyQueues' = enqueueReady(pcbTable', readyQueues, pid)
    BY <1>6 DEF blockProcess, wakeupProcess, suspendProcess, resumeProcess, reniceProcess
  <2>3. TouchesOnly(readyQueues, readyQueues', Mine(owner))
    BY <1>2, <1>3, <2>2, StayingTouches, RemoveTouches, EnqueueTouches
  <2> QED
    BY <1>1, <1>4, <2>1, <2>3 DEF KeepsMemory
<1>7. CASE markSwappedOut(owner, pid)
  <2>1. PICK r : Replaces(owner, pid, r) /\ r.owner = owner
    BY <1>7, SwapOutEffect
  <2>2. readyQueues' = removeFromReadyQueues(readyQueues, {pid})
    BY <1>7 DEF markSwappedOut
  <2>3. TouchesOnly(readyQueues, readyQueues', Mine(owner))
    BY <1>2, <2>2, RemoveTouches
  <2> QED
    BY <1>4, <2>1, <2>3
<1> QED
  BY <1>5, <1>6, <1>7

LEMMA CreateLeavesOthers ==
    ASSUME PMInv, NEW owner, NEW memKB, NEW start, NEW priority, NEW totalTime, NEW ppid,
           createProcess(owner, memKB, start, priority, totalTime, ppid)
    PROVE  LeavesOthers(owner)
<1>1. /\ Pids' = Pids \cup {nextPid} /\ nextPid \notin Pids
      /\ \A p \in Pids : /\ KeepsMemory(pcbTable[p], pcbTable'[p])
                         /\ pcbTable[p].owner # owner => pcbTable'[p] = pcbTable[p]
      /\ pcbTable'[nextPid].owner = owner
  BY CreateEffect
<1>2. GoodQueues(readyQueues) /\ nextPid \in Mine(owner)
  BY InvIsTableOK DEF TableOK, QueuesOK, Mine
<1>3. readyQueues' = enqueueReady(pcbTable', readyQueues, nextPid)
  BY DEF createProcess
<1>4. TouchesOnly(readyQueues, readyQueues', Mine(owner))
  BY <1>2, <1>3, EnqueueTouches
<1> QED
  BY <1>1, <1>4 DEF LeavesOthers, KeepsMemory

LEMMA StepLeavesOthers ==
    ASSUME PMInv, NEW owner, step(owner) PROVE LeavesOthers(owner)
<1>1. GoodQueues(readyQueues) /\ CleanedQueues = readyQueues
  BY InvIsTableOK, CleanedSame DEF TableOK, QueuesOK
<1>2. CASE StepIdle(owner)
  <2>1. pcbTable' = pcbTable /\ readyQueues' = readyQueues
    BY <1>1, <1>2 DEF StepIdle
  <2>2. TouchesOnly(readyQueues, readyQueues', Mine(owner))
    BY <1>1, <2>1, StayingTouches
  <2> QED
    BY <2>1, <2>2 DEF LeavesOthers, Pids
<1>3. ASSUME NEW l \in Levels, NEW i \in DOMAIN CleanedQueues[l], Selects(owner, l, i),
             \/ StepFinish(owner, CleanedQueues[l][i])
             \/ StepRequeue(owner, CleanedQueues[l][i])
      PROVE  LeavesOthers(owner)
  <2> DEFINE pid == CleanedQueues[l][i]
  <2>1. pid \in Pids /\ pcbTable[pid].state = "READY" /\ pcbTable[pid].owner = owner
    BY <1>3, CleanedQueuesFacts DEF Selects
  <2>2. StepFinish(owner, pid) \/ StepRequeue(owner, pid)
    BY <1>3
  <2> HIDE DEF pid
  <2>3. pid \in Mine(owner)
    BY <2>1 DEF Mine
  <2>4. CASE StepFinish(owner, pid)
    <3> DEFINE removed == Subtree(pcbTable, owner, pid)
    <3>1. /\ pcbTable' = WithoutSubtree(pcbTable, removed)
          /\ readyQueues' = removeFromReadyQueues(readyQueues, removed)
      BY <1>1, <2>4 DEF StepFinish
    <3> HIDE DEF removed
    <3>2. Removes(owner, removed)
      BY <2>1, <3>1, RemovalEffect DEF removed
    <3>3. removed \in SUBSET Mine(owner)
      BY <3>2 DEF Removes, Mine
    <3>4. TouchesOnly(readyQueues, readyQueues', Mine(owner))
      BY <3>1, <3>3, RemoveTouches
    <3> QED
      BY <3>2, <3>4 DEF Removes, LeavesOthers, KeepsMemory
  <2>5. CASE StepRequeue(owner, pid)
    <3> DEFINE r == Requeued(pcbTable[pid])
    <3>1. PcbOK(pcbTable[pid])
      BY <2>1, InvIsTableOK DEF TableOK, PcbsOK, Pids
    <3>2. /\ pcbTable' = [pcbTable EXCEPT ![pid] = r]
          /\ AfterRun(pcbTable[pid]).remainingTime > 0
          /\ readyQueues' = enqueueReady(pcbTable', readyQueues, pid)
      BY <1>1, <2>5 DEF StepRequeue
    <3>3. r.owner = owner
      BY <2>1, <3>1, <3>2, RequeuedFacts
    <3> HIDE DEF r
    <3>4. TouchesOnly(readyQueues, readyQueues', Mine(owner))
      BY <1>1, <2>3, <3>2, EnqueueTouches
    <3> QED
      BY <2>1, <3>2, <3>3, <3>4 DEF LeavesOthers, Pids
  <2> QED
    BY <2>2, <2>4, <2>5
<1> QED
  BY <1>2, <1>3 DEF step

(* A compaction shows nobody anything but new addresses.                   *)
LEMMA MemoryStartView ==
    ASSUME PMInv, NEW newStart, updateMemoryStarts(newStart), NEW user
    PROVE  ViewOf(user)' = ViewOf(user)
<1> DEFINE own == {p \in Pids : pcbTable[p].owner = user}
           ownNext == {p \in Pids' : pcbTable'[p].owner = user}
<1>1. /\ Pids' = Pids
      /\ \A p \in Pids : /\ pcbTable'[p].owner = pcbTable[p].owner
                         /\ [pcbTable'[p] EXCEPT !.memStart = 0]
                                = [pcbTable[p] EXCEPT !.memStart = 0]
  BY MemoryStartEffect
<1>2. ownNext = own /\ readyQueues' = readyQueues
  BY <1>1 DEF updateMemoryStarts
<1>3. [p \in ownNext |-> [pcbTable'[p] EXCEPT !.memStart = 0]]
          = [p \in own |-> [pcbTable[p] EXCEPT !.memStart = 0]]
  BY <1>1, <1>2
<1> QED
  BY <1>2, <1>3 DEF ViewOf
=============================================================================
