------------------------------- MODULE Sched -------------------------------
(***************************************************************************)
(* The Weenix scheduler: thread queues, the run queue, sleeping, waking,   *)
(* cancelling and the context switch (proc/sched.c, proc/sched_helper.c).  *)
(*                                                                         *)
(* There is one CPU and scheduling is cooperative: only curthr executes,   *)
(* and it keeps the CPU until it calls sched_switch.  A step of a module   *)
(* that extends this one therefore runs curthr from one sched_switch to    *)
(* the next.  The operators below transform a scheduler record            *)
(*     [q |-> queue, w |-> wchan, st |-> state, c |-> cancelled]           *)
(* so that one step can chain the calls a handler makes, in their order;  *)
(* Commit and CommitSwitch write the result to the variables.              *)
(*                                                                         *)
(* The interrupt priority level is not modelled: no interrupt source is,   *)
(* so raising and restoring the IPL changes nothing that is observable.    *)
(***************************************************************************)
EXTENDS Naturals, Sequences, FiniteSets, SequencesExt

CONSTANTS
    Threads,     \* the kernel threads (model values)
    WaitQueues,  \* the ktqueue_t's other than the run queue
    RunQ,        \* kt_runq
    NULL

ASSUME RunQ \notin WaitQueues /\ NULL \notin Threads \cup WaitQueues \cup {RunQ}

Queues == WaitQueues \cup {RunQ}

States == {"RUN", "SLEEP", "SLEEP_CANCELLABLE", "EXITED"}

VARIABLES
    state,      \* kt_state of each thread
    wchan,      \* kt_wchan: the queue a thread is linked on, or NULL
    queue,      \* tq_list of each queue; element 1 is the list head
    cancelled,  \* kt_cancelled
    curthr      \* curthr; NULL once the CPU only waits for interrupts

schedVars == <<state, wchan, queue, cancelled, curthr>>

S == [q |-> queue, w |-> wchan, st |-> state, c |-> cancelled]

(* ktqueue_enqueue: list_insert_head, then kt_wchan = q.                  *)
Enqueue(s, q, t) == [s EXCEPT !.q[q] = <<t>> \o @, !.w[t] = q]

(* Faulty variants, each a plausible slip in the code it replaces; the    *)
(* properties checked must reject them.                                    *)
(* The element ktqueue_dequeue takes: the list tail (l_prev of the head), *)
(* so that a queue is first in, first out.                                *)
QTail(s, q) == Last(s.q[q])

(* ktqueue_dequeue that forgets list_remove.                              *)
DequeueKeepLinked(s, q) == [s EXCEPT !.w[QTail(s, q)] = NULL]

(* ktqueue_dequeue: unlink the tail and clear its kt_wchan.               *)
Dequeue(s, q) == [s EXCEPT !.q[q] = Remove(@, QTail(s, q)), !.w[QTail(s, q)] = NULL]

(* ktqueue_remove: unlink thr wherever it is and clear its kt_wchan.      *)
QRemove(s, q, t) == [s EXCEPT !.q[q] = Remove(@, t), !.w[t] = NULL]

(* sched_make_runnable: enqueue on the run queue.                          *)
MakeRunnable(s, t) == Enqueue(s, RunQ, t)

(* sched_sleep_on: state SLEEP, enqueue on q (the switch is the caller's). *)
SleepOn(s, q, t) == Enqueue([s EXCEPT !.st[t] = "SLEEP"], q, t)

(* sched_cancellable_sleep_on, when the thread is not yet cancelled.      *)
CancellableSleepOn(s, q, t) ==
    Enqueue([s EXCEPT !.st[t] = "SLEEP_CANCELLABLE"], q, t)

(* sched_wakeup_on that forgets kt_state = KT_RUN.                        *)
WakeupOnKeepState(s, q) == MakeRunnable(Dequeue(s, q), QTail(s, q))

(* sched_wakeup_on: dequeue the tail, state RUN, make it runnable.        *)
WakeupOn(s, q) ==
    LET t == QTail(s, q)
    IN  MakeRunnable([Dequeue(s, q) EXCEPT !.st[t] = "RUN"], t)

(* sched_broadcast_on: sched_wakeup_on until the queue is empty.          *)
RECURSIVE BroadcastOn(_, _)
BroadcastOn(s, q) == IF s.q[q] = <<>> THEN s ELSE BroadcastOn(WakeupOn(s, q), q)

(* sched_cancel that unlinks the sleeper but never makes it runnable.     *)
SchedCancelNoRunnable(s, t) ==
    LET s1 == [s EXCEPT !.c[t] = TRUE]
    IN  IF s1.st[t] = "SLEEP_CANCELLABLE" THEN QRemove(s1, s1.w[t], t) ELSE s1

(* sched_cancel: set kt_cancelled; a thread in a cancellable sleep is     *)
(* removed from the queue it is on and made runnable.  Its kt_state is    *)
(* left as it was.                                                          *)
SchedCancel(s, t) ==
    LET s1 == [s EXCEPT !.c[t] = TRUE]
    IN  IF s1.st[t] = "SLEEP_CANCELLABLE"
        THEN MakeRunnable(QRemove(s1, s1.w[t], t), t)
        ELSE s1

(* Write a scheduler record back; curthr keeps the CPU.                   *)
Commit(s) ==
    /\ queue' = s.q
    /\ wchan' = s.w
    /\ state' = s.st
    /\ cancelled' = s.c
    /\ UNCHANGED curthr

(* sched_switch after the caller's changes s: the run-queue tail becomes  *)
(* curthr; on an empty run queue the CPU loops in intr_wait.              *)
CommitSwitch(s) ==
    IF s.q[RunQ] = <<>>
    THEN /\ queue' = s.q /\ wchan' = s.w /\ state' = s.st /\ cancelled' = s.c
         /\ curthr' = NULL
    ELSE LET d == Dequeue(s, RunQ)
         IN  /\ queue' = d.q /\ wchan' = d.w /\ state' = d.st /\ cancelled' = d.c
             /\ curthr' = QTail(s, RunQ)

(* The threads linked on queue q.                                          *)
OnQueue(q) == {queue[q][i] : i \in 1..Len(queue[q])}

(***************************************************************************)
(* Invariant: kt_wchan and list membership agree.  A thread is on a queue  *)
(* exactly when its kt_wchan names that queue, at most once; the running   *)
(* thread is on none (kthread_exit and sched_make_runnable assert this);  *)
(* a thread sleeping on a wait queue is in a sleep state; a thread on the *)
(* run queue or on the CPU is RUN, or SLEEP_CANCELLABLE after sched_cancel *)
(* pulled it out of its sleep.                                             *)
(***************************************************************************)
ThreadQueueConsistent ==
    /\ \A q \in Queues : IsInjective(queue[q])
    /\ \A t \in Threads, q \in Queues : (t \in OnQueue(q)) <=> (wchan[t] = q)
    /\ curthr # NULL => wchan[curthr] = NULL
    /\ \A q \in WaitQueues : \A t \in OnQueue(q) :
           state[t] \in {"SLEEP", "SLEEP_CANCELLABLE"}
    /\ \A t \in OnQueue(RunQ) \cup ({curthr} \ {NULL}) :
           state[t] = "RUN" \/ (state[t] = "SLEEP_CANCELLABLE" /\ cancelled[t])
=============================================================================
