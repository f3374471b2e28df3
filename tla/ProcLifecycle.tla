--------------------------- MODULE ProcLifecycle ----------------------------
(***************************************************************************)
(* What the process operations promise (spec section 4.3), without wait   *)
(* queues, threads or list order.  A process is created by a living one,  *)
(* which becomes its parent, with an id no process in the list has; it    *)
(* keeps that id until it is reaped.  A living process other than idle    *)
(* exits and becomes a zombie (DEAD), and its children are adopted by     *)
(* init; init itself exits only once it has no children.  A zombie is     *)
(* reaped, and leaves the list, only by its parent, which is alive.  A     *)
(* zombie never runs again.                                                *)
(***************************************************************************)
EXTENDS Integers

CONSTANTS Procs, Idle, Init, NULL, Ids

VARIABLES lstate, parent, lpid

vars == <<lstate, parent, lpid>>

NoId == -1

Listed == {p \in Procs : lstate[p] # "none"}
ChildrenOf(p) == {c \in Listed : parent[c] = p}

Init0 ==
    /\ lstate = [p \in Procs |-> IF p \in {Idle, Init} THEN "alive" ELSE "none"]
    /\ parent = [p \in Procs |-> IF p = Init THEN Idle ELSE NULL]
    /\ lpid = [p \in Procs |-> CASE p = Idle -> 0 [] p = Init -> 1 [] OTHER -> NoId]

Create(p, c) ==
    /\ lstate[p] = "alive" /\ lstate[c] = "none"
    /\ \E i \in Ids \ {lpid[q] : q \in Listed} :
          lpid' = [lpid EXCEPT ![c] = i]
    /\ lstate' = [lstate EXCEPT ![c] = "alive"]
    /\ parent' = [parent EXCEPT ![c] = p]

Exit(p) ==
    /\ lstate[p] = "alive" /\ p # Idle
    /\ p = Init => ChildrenOf(p) = {}
    /\ lstate' = [lstate EXCEPT ![p] = "zombie"]
    /\ parent' = [q \in Procs |-> IF q \in ChildrenOf(p) THEN Init ELSE parent[q]]
    /\ UNCHANGED lpid

Reap(p, c) ==
    /\ lstate[p] = "alive" /\ lstate[c] = "zombie" /\ parent[c] = p
    /\ lstate' = [lstate EXCEPT ![c] = "none"]
    /\ parent' = [parent EXCEPT ![c] = NULL]
    /\ lpid' = [lpid EXCEPT ![c] = NoId]

Next ==
    \E p \in Procs :
        \/ \E c \in Procs : Create(p, c) \/ Reap(p, c)
        \/ Exit(p)

Spec == Init0 /\ [][Next]_vars
=============================================================================
