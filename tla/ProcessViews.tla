---------------------------- MODULE ProcessViews ----------------------------
(***************************************************************************)
(* The trees a user is shown of the process table: that of ptree           *)
(* (ProcessManager::processTree) and of the overview                       *)
(* (OverviewRenderer::renderProcessTree), which walk the same way.  A line *)
(* of a tree is a PID, the depth it is indented to, and whether it is a    *)
(* "(cycle detected)".                                                     *)
(***************************************************************************)
EXTENDS ProcessManager

OwnPids(user) == {p \in Pids : pcbTable[p].owner = user}

(* The processes of S as nodes still to be shown, sorted by PID.           *)
Nodes(S, depth) ==
    [k \in 1 .. Cardinality(S) |->
        [pid |-> CHOOSE p \in S : Rank(S, p) = k, depth |-> depth, cycle |-> FALSE]]

(* One call of appendTreeNode in a walk: the calls still to be made are a  *)
(* stack of nodes, and the PIDs of the lines written so far are the set of *)
(* visited ones.                                                           *)
appendTreeNode(own, walk) ==
    IF walk.pending = <<>> THEN walk
    ELSE LET node == Head(walk.pending)
             rest == Tail(walk.pending)
         IN  IF \E i \in DOMAIN walk.lines : walk.lines[i].pid = node.pid
             THEN [pending |-> rest,
                   lines |-> Append(walk.lines, [node EXCEPT !.cycle = TRUE])]
             ELSE [pending |-> Nodes(pcbTable[node.pid].children \cap own,
                                     node.depth + 1) \o rest,
                   lines |-> Append(walk.lines, node)]

(* A root has no parent, or none that its user may see.  A process is      *)
(* expanded at most once, so a walk ends within the given number of calls. *)
processTree(user) ==
    LET own == OwnPids(user)
        roots == {p \in own : pcbTable[p].ppid = 0 \/ pcbTable[p].ppid \notin own}
        calls == Cardinality(own) * (Cardinality(own) + 1)
        walk[n \in 0 .. calls] ==
            IF n = 0 THEN [pending |-> Nodes(roots, 0), lines |-> <<>>]
            ELSE appendTreeNode(own, walk[n - 1])
    IN  walk[calls].lines

-----------------------------------------------------------------------------
(* Line i of a tree and the lines beneath it.                              *)
Beneath(lines, i) ==
    {j \in i .. Len(lines) :
        \A k \in i + 1 .. j : lines[k].depth > lines[i].depth}

(* The tree shows each of the user's processes on exactly one line, under  *)
(* its parent, and no cycle.                                               *)
TreeShowsEachOnce ==
    \A user \in Users :
        LET lines == processTree(user)
            own == OwnPids(user)
        IN  /\ Len(lines) = Cardinality(own)
            /\ {lines[i].pid : i \in DOMAIN lines} = own
            /\ \A j \in DOMAIN lines :
                  IF pcbTable[lines[j].pid].ppid = 0 THEN lines[j].depth = 0
                  ELSE \E i \in 1 .. j - 1 :
                          /\ lines[i].pid = pcbTable[lines[j].pid].ppid
                          /\ lines[j].depth = lines[i].depth + 1
                          /\ j \in Beneath(lines, i)

(* kill_pcb takes exactly the process and what the tree shows beneath it:  *)
(* two walks over the children, one that collects and one that prints.     *)
KillsWhatIsShown ==
    \A user \in Users :
        LET lines == processTree(user)
        IN  \A i \in DOMAIN lines :
                {lines[j].pid : j \in Beneath(lines, i)}
                    = Subtree(pcbTable, user, lines[i].pid)
=============================================================================
