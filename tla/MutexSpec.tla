------------------------------ MODULE MutexSpec ------------------------------
(***************************************************************************)
(* What a kernel mutex promises (proc/kmutex.h): at most one owner; a      *)
(* thread that finds the mutex owned joins a line of waiters; unlocking    *)
(* passes ownership straight to the waiter that has waited longest, so a  *)
(* free mutex is never taken past a waiter; a waiter may leave the line    *)
(* (a cancelled cancellable sleep).                                        *)
(***************************************************************************)
EXTENDS Sequences, SequencesExt

CONSTANTS Threads, NULL

VARIABLES owner, waiters

Init == owner = NULL /\ waiters = <<>>

Waiting(t) == \E i \in 1..Len(waiters) : waiters[i] = t

Acquire(t) ==
    /\ owner = NULL /\ waiters = <<>>
    /\ owner' = t /\ UNCHANGED waiters

Wait(t) ==
    /\ owner \notin {NULL, t} /\ ~Waiting(t)
    /\ waiters' = Append(waiters, t) /\ UNCHANGED owner

Release ==
    /\ owner # NULL
    /\ owner' = IF waiters = <<>> THEN NULL ELSE Head(waiters)
    /\ waiters' = IF waiters = <<>> THEN <<>> ELSE Tail(waiters)

Leave(t) ==
    /\ Waiting(t)
    /\ waiters' = Remove(waiters, t) /\ UNCHANGED owner

Next == Release \/ \E t \in Threads : Acquire(t) \/ Wait(t) \/ Leave(t)

Spec == Init /\ [][Next]_<<owner, waiters>>
=============================================================================
