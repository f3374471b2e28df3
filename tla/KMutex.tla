------------------------------- MODULE KMutex -------------------------------
(***************************************************************************)
(* Kernel mutexes (proc/kmutex.c) over the scheduler of Sched, with the    *)
(* threads that use them.  Each thread runs a loop of the kind the kernel  *)
(* tests run: take the mutex (kmutex_lock or kmutex_lock_cancellable),     *)
(* possibly yield the CPU while holding it, release it; between            *)
(* iterations it may cancel another thread (kthread_cancel, as proc_kill   *)
(* does) or exit (kthread_exit).  pc records where a thread resumes:       *)
(*   "ncs"          between iterations                                     *)
(*   "cs", "csYielded"  holding the mutex (before / after its one yield)   *)
(*   "lockcResume"  inside kmutex_lock_cancellable, after its sleep        *)
(*   "done"         exited                                                 *)
(* A thread sleeping in kmutex_lock has pc "cs": nothing runs after the    *)
(* switch in sched_sleep_on, and kmutex_unlock hands it the mutex.         *)
(***************************************************************************)
EXTENDS Sched

CONSTANTS
    MtxQ,       \* km_waitq of the mutex
    MaxIter,    \* lock attempts per thread
    MaxCancel   \* kthread_cancel calls per thread

ASSUME MtxQ \in WaitQueues /\ MaxIter \in Nat /\ MaxCancel \in Nat

VARIABLES
    holder,     \* km_holder
    pc,         \* resume point of each thread
    iter,       \* lock attempts made
    ncancel     \* cancels issued

vars == <<schedVars, holder, pc, iter, ncancel>>

Pcs == {"ncs", "cs", "csYielded", "lockcResume", "done"}

TypeOK ==
    /\ state \in [Threads -> States]
    /\ wchan \in [Threads -> Queues \cup {NULL}]
    /\ queue \in [Queues -> Seq(Threads)]
    /\ \A q \in Queues : Len(queue[q]) <= Cardinality(Threads)
    /\ cancelled \in [Threads -> BOOLEAN]
    /\ curthr \in Threads \cup {NULL}
    /\ holder \in Threads \cup {NULL}
    /\ pc \in [Threads -> Pcs]
    /\ iter \in [Threads -> 0..MaxIter]
    /\ ncancel \in [Threads -> 0..MaxCancel]

(* kthread_create leaves every thread RUN and uncancelled; each is made   *)
(* runnable in turn and the first one switched to.                        *)
Init ==
    /\ \E first \in Threads : \E order \in SetToSeqs(Threads \ {first}) :
          /\ curthr = first
          /\ queue = [q \in Queues |-> IF q = RunQ THEN order ELSE <<>>]
          /\ wchan = [t \in Threads |-> IF t = first THEN NULL ELSE RunQ]
    /\ state = [t \in Threads |-> "RUN"]
    /\ cancelled = [t \in Threads |-> FALSE]
    /\ holder = NULL
    /\ pc = [t \in Threads |-> "ncs"]
    /\ iter = [t \in Threads |-> 0]
    /\ ncancel = [t \in Threads |-> 0]

Running(t) == curthr = t

(* kmutex_unlock's scheduler effect: wake the longest waiter, if any.     *)
UnlockSched(s) == IF s.q[MtxQ] = <<>> THEN s ELSE WakeupOn(s, MtxQ)

(* Faulty variant: kmutex_unlock wakes a waiter but leaves km_holder NULL, *)
(* so the woken thread would have to race for the mutex.                  *)
UnlockHolderNoHandoff(s) == NULL

(* kmutex_unlock's new km_holder: the thread sched_wakeup_on returned.    *)
UnlockHolder(s) == IF s.q[MtxQ] = <<>> THEN NULL ELSE QTail(s, MtxQ)

(* kmutex_lock: take a free mutex, or sleep until kmutex_unlock hands it  *)
(* over.                                                                    *)
kmutex_lock(t) ==
    /\ Running(t) /\ pc[t] = "ncs" /\ iter[t] < MaxIter
    /\ iter' = [iter EXCEPT ![t] = @ + 1]
    /\ pc' = [pc EXCEPT ![t] = "cs"]
    /\ IF holder = NULL
       THEN holder' = t /\ UNCHANGED schedVars
       ELSE CommitSwitch(SleepOn(S, MtxQ, t)) /\ UNCHANGED holder
    /\ UNCHANGED ncancel

(* kmutex_lock_cancellable up to its sleep: -EINTR at once when already   *)
(* cancelled, take a free mutex, or sleep cancellably on km_waitq.        *)
kmutex_lock_cancellable(t) ==
    /\ Running(t) /\ pc[t] = "ncs" /\ iter[t] < MaxIter
    /\ iter' = [iter EXCEPT ![t] = @ + 1]
    /\ \/ /\ cancelled[t]
          /\ UNCHANGED <<schedVars, holder, pc>>
       \/ /\ ~cancelled[t] /\ holder = NULL
          /\ holder' = t /\ pc' = [pc EXCEPT ![t] = "cs"]
          /\ UNCHANGED schedVars
       \/ /\ ~cancelled[t] /\ holder # NULL
          /\ pc' = [pc EXCEPT ![t] = "lockcResume"]
          /\ CommitSwitch(CancellableSleepOn(S, MtxQ, t))
          /\ UNCHANGED holder
    /\ UNCHANGED ncancel

(* Faulty variant: the -EINTR path does not release a handed-over mutex.  *)
lock_cancellable_resume_keep(t) ==
    /\ Running(t) /\ pc[t] = "lockcResume"
    /\ pc' = [pc EXCEPT ![t] = IF cancelled[t] THEN "ncs" ELSE "cs"]
    /\ UNCHANGED <<schedVars, holder, iter, ncancel>>

(* The rest of kmutex_lock_cancellable once the thread runs again: if     *)
(* cancelled, release a mutex that kmutex_unlock handed over meanwhile    *)
(* and return -EINTR; otherwise return 0 holding the mutex.               *)
lock_cancellable_resume(t) ==
    /\ Running(t) /\ pc[t] = "lockcResume"
    /\ IF cancelled[t]
       THEN IF holder = t
            THEN /\ holder' = UnlockHolder(S)
                 /\ Commit(UnlockSched(S))
                 /\ pc' = [pc EXCEPT ![t] = "ncs"]
            ELSE /\ pc' = [pc EXCEPT ![t] = "ncs"]
                 /\ UNCHANGED <<schedVars, holder>>
       ELSE pc' = [pc EXCEPT ![t] = "cs"] /\ UNCHANGED <<schedVars, holder>>
    /\ UNCHANGED <<iter, ncancel>>

(* Faulty variant: kmutex_unlock clears km_holder and wakes nobody.        *)
kmutex_unlock_nowake(t) ==
    /\ Running(t) /\ pc[t] \in {"cs", "csYielded"}
    /\ holder' = NULL
    /\ pc' = [pc EXCEPT ![t] = "ncs"]
    /\ UNCHANGED <<schedVars, iter, ncancel>>

(* kmutex_unlock: clear km_holder, then hand the mutex to the thread      *)
(* sched_wakeup_on takes from km_waitq.  It does not block.               *)
kmutex_unlock(t) ==
    /\ Running(t) /\ pc[t] \in {"cs", "csYielded"}
    /\ holder' = UnlockHolder(S)
    /\ Commit(UnlockSched(S))
    /\ pc' = [pc EXCEPT ![t] = "ncs"]
    /\ UNCHANGED <<iter, ncancel>>

(* SYS_thr_yield: sched_make_runnable(curthr); sched_switch().  A thread   *)
(* yields at most once per critical section.                              *)
yield(t) ==
    /\ Running(t) /\ pc[t] = "cs"
    /\ CommitSwitch(MakeRunnable(S, t))
    /\ pc' = [pc EXCEPT ![t] = "csYielded"]
    /\ UNCHANGED <<holder, iter, ncancel>>

(* kthread_cancel of another thread: set kt_cancelled and kt_retval, then *)
(* sched_cancel.  The caller keeps the CPU.                               *)
kthread_cancel(t, u) ==
    /\ Running(t) /\ pc[t] = "ncs" /\ ncancel[t] < MaxCancel /\ u # t
    /\ Commit(SchedCancel([S EXCEPT !.c[u] = TRUE], u))
    /\ ncancel' = [ncancel EXCEPT ![t] = @ + 1]
    /\ UNCHANGED <<holder, pc, iter>>

(* kthread_exit: state EXITED, then proc_thread_exited, whose             *)
(* proc_cleanup is the business of module Proc, and its sched_switch.     *)
kthread_exit(t) ==
    /\ Running(t) /\ pc[t] = "ncs"
    /\ CommitSwitch([S EXCEPT !.st[t] = "EXITED"])
    /\ pc' = [pc EXCEPT ![t] = "done"]
    /\ UNCHANGED <<holder, iter, ncancel>>

(* A state without a successor is one where curthr is NULL: sched_switch  *)
(* found the run queue empty and the CPU waits in intr_wait for ever.     *)
Next ==
    \E t \in Threads :
        \/ kmutex_lock(t)
        \/ kmutex_lock_cancellable(t)
        \/ lock_cancellable_resume(t)
        \/ kmutex_unlock(t)
        \/ yield(t)
        \/ kthread_exit(t)
        \/ \E u \in Threads : kthread_cancel(t, u)

(* One CPU runs curthr until it switches; weak fairness of Next says only *)
(* that the CPU does not stop while a thread is runnable.                  *)
Spec == Init /\ [][Next]_vars /\ WF_vars(Next)

(***************************************************************************)
(* Invariant: km_holder and the threads agree.  A thread inside its        *)
(* critical section holds the mutex (mutual exclusion), and the holder is  *)
(* either in its critical section or was handed the mutex by kmutex_unlock *)
(* while sleeping in kmutex_lock_cancellable, in which case it is on the   *)
(* run queue or running, never still asleep on km_waitq.                   *)
(***************************************************************************)
MutexOwnership ==
    /\ \A t \in Threads : pc[t] \in {"cs", "csYielded"} /\ wchan[t] # MtxQ
                           => holder = t
    /\ holder # NULL =>
          /\ pc[holder] \in {"cs", "csYielded", "lockcResume"}
          /\ wchan[holder] \in {RunQ, NULL}

(***************************************************************************)
(* Invariant: no lost hand-over.  Whenever the mutex is free nobody sleeps *)
(* on km_waitq: kmutex_unlock and the -EINTR path of                       *)
(* kmutex_lock_cancellable must wake a waiter whenever there is one.       *)
(***************************************************************************)
NoWaiterOnFreeMutex == holder = NULL => queue[MtxQ] = <<>>

(***************************************************************************)
(* Liveness: every thread eventually exits.  A waiter that kmutex_unlock   *)
(* or sched_cancel never puts back on the run queue stays asleep for ever. *)
(***************************************************************************)
AllThreadsFinish == <>(\A t \in Threads : pc[t] = "done")

(***************************************************************************)
(* The mutex implements MutexSpec: km_holder is the owner, and km_waitq    *)
(* read from its tail is the line of waiters, served first come first     *)
(* served.                                                                 *)
(***************************************************************************)
AbsMutex == INSTANCE MutexSpec WITH owner <- holder,
                                    waiters <- Reverse(queue[MtxQ])

MutexRefinement == AbsMutex!Spec

(***************************************************************************)
(* Spec section 4.1 and 8: a thread on the run queue or on the CPU is in   *)
(* state RUN (kthread_clone asserts KT_RUN of the thread it copies).       *)
(***************************************************************************)
RunnableIsRun == \A t \in OnQueue(RunQ) \cup ({curthr} \ {NULL}) : state[t] = "RUN"
=============================================================================
