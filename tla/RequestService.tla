--------------------------- MODULE RequestService ---------------------------
(***************************************************************************)
(* What Kernel::submitCommand promises to the threads that call it,        *)
(* without saying that there are a queue, a worker thread and futures: the *)
(* calls are executed one at a time in the order in which they were made,  *)
(* each at most once, and a caller gets the result of its own call before  *)
(* it makes another.  An exit is the last call that is executed.           *)
(***************************************************************************)
EXTENDS Sequences

CONSTANT Callers

VARIABLES order,   \* the calls that are not executed yet, oldest first
          result,  \* what each caller has of its call: "idle" if it has none
          open     \* calls are still executed

serviceVars == <<order, result, open>>

ServiceInit ==
    /\ order = <<>>
    /\ result = [t \in Callers |-> "idle"]
    /\ open = TRUE

(* A call may still be made when none is executed any more.                *)
Submit(t, exit) ==
    /\ result[t] = "idle"
    /\ order' = Append(order, [by |-> t, exit |-> exit])
    /\ result' = [result EXCEPT ![t] = "submitted"]
    /\ UNCHANGED open

Execute ==
    /\ open /\ order # <<>>
    /\ LET r == Head(order)
       IN  /\ result' = [result EXCEPT ![r.by] = IF r.exit THEN "exit" ELSE "done"]
           /\ open' = ~r.exit
    /\ order' = Tail(order)

Receive(t) ==
    /\ result[t] \in {"done", "exit"}
    /\ result' = [result EXCEPT ![t] = "idle"]
    /\ UNCHANGED <<order, open>>

(* The service ends without an exit only when nobody waits for it.         *)
Close ==
    /\ open /\ order = <<>>
    /\ open' = FALSE
    /\ UNCHANGED <<order, result>>

ServiceNext ==
    \/ \E t \in Callers : Receive(t) \/ \E exit \in BOOLEAN : Submit(t, exit)
    \/ Execute
    \/ Close

ServiceSpec == ServiceInit /\ [][ServiceNext]_serviceVars
=============================================================================
