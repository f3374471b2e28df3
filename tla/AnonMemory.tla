---------------------------- MODULE AnonMemory ------------------------------
(***************************************************************************)
(* What anonymous mappings promise their processes (spec sections 4.6 and *)
(* 4.10).  A private page: each process sees its own copy; a fresh mapping *)
(* reads as zeros, a store changes only the storing process's copy, and    *)
(* fork gives the child a copy of the parent's page as it is at the fork.  *)
(* A shared page: every process that inherited the mapping sees the same  *)
(* bytes, and a store by one is seen by all; the bytes go when the last    *)
(* process mapping it exits.  A process that exits keeps no pages.         *)
(***************************************************************************)
EXTENDS Naturals

CONSTANTS Procs, InitProc, Pages, SharedPages, Vals

VARIABLES pstate, mem, shm

PrivatePages == Pages \ SharedPages

Zeros == [pg \in Pages |-> 0]

(* What process p loads from page pg.                                      *)
View(p, pg) == IF pg \in SharedPages THEN shm[pg] ELSE mem[p][pg]

Init ==
    /\ pstate = [p \in Procs |-> IF p = InitProc THEN "running" ELSE "unused"]
    /\ mem = [p \in Procs |-> Zeros]
    /\ shm = Zeros

Store(p, pg, v) ==
    /\ pstate[p] = "running"
    /\ IF pg \in SharedPages
       THEN shm' = [shm EXCEPT ![pg] = v] /\ UNCHANGED mem
       ELSE mem' = [mem EXCEPT ![p][pg] = v] /\ UNCHANGED shm
    /\ UNCHANGED pstate

Fork(p, c) ==
    /\ pstate[p] = "running" /\ pstate[c] = "unused"
    /\ pstate' = [pstate EXCEPT ![c] = "running"]
    /\ mem' = [mem EXCEPT ![c] = mem[p]]
    /\ UNCHANGED shm

Exit(p) ==
    /\ pstate[p] = "running"
    /\ pstate' = [pstate EXCEPT ![p] = "dead"]
    /\ mem' = [mem EXCEPT ![p] = Zeros]
    /\ shm' = IF \E q \in Procs \ {p} : pstate[q] = "running" THEN shm ELSE Zeros

Next ==
    \E p \in Procs :
        \/ \E pg \in Pages, v \in Vals : Store(p, pg, v)
        \/ \E c \in Procs : Fork(p, c)
        \/ Exit(p)

Spec == Init /\ [][Next]_<<pstate, mem, shm>>
=============================================================================
