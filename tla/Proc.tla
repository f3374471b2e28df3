-------------------------------- MODULE Proc --------------------------------
(***************************************************************************)
(* Processes of the kernel (proc/proc.c, proc/fork.c, main/kmain.c) over   *)
(* the scheduler of Sched.  A process has one thread, so a process and its *)
(* thread share an identity: a slot of the proc slab.  The idle process    *)
(* (slot Idle, pid 0) has created init (slot Init, pid 1) and sleeps in    *)
(* do_waitpid(-1) until init has exited (idleproc_run).  Init runs the     *)
(* kshell commands my_*_test: create a child process, then                 *)
(*     while (!list_empty(&curproc->p_children)) do_waitpid(-1, 0, NULL); *)
(* and exits when the shell ends.  Every other process forks, waits for a *)
(* child (any, or a given pid) or exits.  Orphans are reparented to init.  *)
(*   pc: "run"      executing its program                                  *)
(*       "drain"    init, in the do_waitpid loop of my_*_test              *)
(*       "waiting"  asleep in do_waitpid(warg) on its own p_wait           *)
(*       "done"     exited;  "halted": idle after reaping init             *)
(***************************************************************************)
EXTENDS Sched

CONSTANTS
    Idle, Init,     \* the slots of the idle and init processes
    PROC_MAX_COUNT, \* pids are 0 .. PROC_MAX_COUNT - 1
    MaxForks,       \* do_fork calls in a behaviour
    NFILES,         \* fds are 0 .. NFILES - 1
    Files,          \* the file_t objects fget can hand out
    MaxOpens        \* successful do_open calls in a behaviour

Slots == Threads
PWait(s) == <<"p_wait", s>>

ASSUME /\ {Idle, Init} \subseteq Slots /\ Idle # Init
       /\ WaitQueues = {PWait(s) : s \in Slots}
       /\ PROC_MAX_COUNT \in Nat \ {0} /\ MaxForks \in Nat
       /\ NFILES \in Nat \ {0} /\ MaxOpens \in Nat

VARIABLES
    proc_list,  \* _proc_list, in list order (list_insert_tail)
    pid,        \* p_pid
    pproc,      \* p_pproc
    children,   \* p_children, in list order
    pstate,     \* p_state; "FREE" for a slot the slab holds no process in
    next_pid,   \* next_pid of _proc_getid
    pc,         \* resume point of the process's thread
    warg,       \* the pid argument of the do_waitpid a process sleeps in
    nforked,    \* do_fork calls so far
    p_files,    \* p_files: fd -> file_t or NULL
    f_refcount, \* f_refcount of each file_t; 0 when it is free
    root_ref,   \* vn_refcount of vfs_root_vn, every p_cwd in this model
    nopened     \* do_open calls so far

fileVars == <<p_files, f_refcount, root_ref, nopened>>
vars == <<schedVars, proc_list, pid, pproc, children, pstate, next_pid, pc, warg, nforked,
          fileVars>>

(* The slots of the processes on _proc_list.                             *)
live == Range(proc_list)

FDs == 0 .. NFILES - 1
NoFiles == [fd \in FDs |-> NULL]

Pids == -1 .. PROC_MAX_COUNT - 1

TypeOK ==
    /\ state \in [Slots -> States]
    /\ wchan \in [Slots -> Queues \cup {NULL}]
    /\ queue \in [Queues -> Seq(Slots)]
    /\ cancelled \in [Slots -> BOOLEAN]
    /\ curthr \in Slots \cup {NULL}
    /\ proc_list \in Seq(Slots) /\ IsInjective(proc_list)
    /\ pid \in [Slots -> Pids]
    /\ pproc \in [Slots -> Slots \cup {NULL}]
    /\ children \in [Slots -> Seq(Slots)]
    /\ pstate \in [Slots -> {"RUNNING", "DEAD", "FREE"}]
    /\ next_pid \in 0 .. PROC_MAX_COUNT - 1
    /\ pc \in [Slots -> {"run", "drain", "waiting", "done", "halted"}]
    /\ warg \in [Slots -> Pids]
    /\ nforked \in 0 .. MaxForks
    /\ p_files \in [Slots -> [FDs -> Files \cup {NULL}]]
    /\ f_refcount \in [Files -> Nat]
    /\ root_ref \in Nat
    /\ nopened \in 0 .. MaxOpens

(* bootstrap and idleproc_run: idle (pid 0) created init (pid 1), made it *)
(* runnable and went to sleep in do_waitpid(-1); init runs.               *)
Init0 ==
    /\ curthr = Init
    /\ queue = [q \in Queues |-> IF q = PWait(Idle) THEN <<Idle>> ELSE <<>>]
    /\ wchan = [s \in Slots |-> IF s = Idle THEN PWait(Idle) ELSE NULL]
    /\ state = [s \in Slots |-> CASE s = Idle -> "SLEEP"
                                  [] s = Init -> "RUN"
                                  [] OTHER    -> "EXITED"]
    /\ cancelled = [s \in Slots |-> FALSE]
    /\ proc_list = <<Idle, Init>>
    /\ pid = [s \in Slots |-> CASE s = Idle -> 0 [] s = Init -> 1 [] OTHER -> -1]
    /\ pproc = [s \in Slots |-> IF s = Init THEN Idle ELSE NULL]
    /\ children = [s \in Slots |-> IF s = Idle THEN <<Init>> ELSE <<>>]
    /\ pstate = [s \in Slots |-> IF s \in {Idle, Init} THEN "RUNNING" ELSE "FREE"]
    /\ next_pid = 2 % PROC_MAX_COUNT
    /\ pc = [s \in Slots |-> CASE s = Idle -> "waiting"
                               [] s = Init -> "run"
                               [] OTHER    -> "done"]
    /\ warg = [s \in Slots |-> -1]
    /\ nforked = 0
    /\ p_files = [s \in Slots |-> NoFiles]
    /\ f_refcount = [f \in Files |-> 0]
    \* vfs_init's reference to the root, and the p_cwd idleproc_run gives
    \* idle and init (they were created before vfs_root_vn existed).
    /\ root_ref = 3
    /\ nopened = 0

Running(s) == curthr = s

(* _proc_getid's scan: list_iterate over _proc_list from index k with     *)
(* candidate pid; on a process with that pid, pid = (pid + 1) %            *)
(* PROC_MAX_COUNT and -1 once that is next_pid again, else goto failed,    *)
(* which starts the iteration over; a pass with no match returns pid.     *)
(* Faulty variant: after a match the iteration goes on from the next      *)
(* process instead of starting over.                                       *)
RECURSIVE ScanNoRestart(_, _)
ScanNoRestart(cand, k) ==
    IF k > Len(proc_list) THEN cand
    ELSE IF pid[proc_list[k]] = cand
         THEN IF (cand + 1) % PROC_MAX_COUNT = next_pid THEN -1
              ELSE ScanNoRestart((cand + 1) % PROC_MAX_COUNT, k + 1)
         ELSE ScanNoRestart(cand, k + 1)

RECURSIVE Scan(_, _)
Scan(cand, k) ==
    IF k > Len(proc_list) THEN cand
    ELSE IF pid[proc_list[k]] = cand
         THEN IF (cand + 1) % PROC_MAX_COUNT = next_pid THEN -1
              ELSE Scan((cand + 1) % PROC_MAX_COUNT, 1)
         ELSE Scan(cand, k + 1)

(* _proc_getid: pid = next_pid, the scan, then next_pid = (pid + 1) %     *)
(* PROC_MAX_COUNT when it returns a pid.                                   *)
NewPid == Scan(next_pid, 1)
(* Faulty variant: next_pid = pid + 1 without the modulo.                 *)
NextPidNoWrap == IF NewPid = -1 THEN next_pid ELSE NewPid + 1

NextPid == IF NewPid = -1 THEN next_pid ELSE (NewPid + 1) % PROC_MAX_COUNT

(* syscall_handler's entry check: a cancelled thread that traps into the *)
(* kernel goes to kthread_exit instead of the call (see do_exit).  Idle   *)
(* and init are kernel threads that call do_waitpid and do_fork directly. *)
SyscallEntry(s) == s \in {Idle, Init} \/ ~cancelled[s]

(* kthread_clone of curthr s into the thread of slot c: kt_state,        *)
(* kt_cancelled and kt_wchan are copied (curthr is RUN and on no queue).  *)
KthreadClone(r, s, c) == [r EXCEPT !.st[c] = r.st[s], !.c[c] = r.c[s], !.w[c] = r.w[s]]

(* The fds of s that refer to file_t f.                                  *)
FdsOf(s, f) == {fd \in FDs : p_files[s][fd] = f}

(* Faulty variant: the fd table is copied without fref.                   *)
ForkFilesNoRef(s) == f_refcount

(* do_fork's copy of the fd table: the child's p_files[a] is the parent's, *)
(* and fref takes one more reference for each non-NULL one.               *)
ForkFiles(s) == [f \in Files |-> f_refcount[f] + Cardinality(FdsOf(s, f))]

(* do_fork, the process part: proc_create takes a free slab slot c, a pid *)
(* from _proc_getid, makes c a child of curproc and puts it on _proc_list;*)
(* kthread_clone copies kt_state and kt_cancelled; the clone is made      *)
(* runnable and the caller goes on.  Init's my_*_test creates its child   *)
(* with proc_create, kthread_create and sched_make_runnable, which comes   *)
(* to the same here: the creator runs, so its thread is RUN, uncancelled.  *)
do_fork(s) ==
    /\ Running(s) /\ pc[s] = "run" /\ nforked < MaxForks /\ SyscallEntry(s)
    /\ \E c \in Slots \ live :
          /\ proc_list' = Append(proc_list, c)
          /\ pid' = [pid EXCEPT ![c] = NewPid]
          /\ next_pid' = NextPid
          /\ pproc' = [pproc EXCEPT ![c] = s]
          /\ children' = [children EXCEPT ![s] = Append(@, c), ![c] = <<>>]
          /\ pstate' = [pstate EXCEPT ![c] = "RUNNING"]
          /\ pc' = [pc EXCEPT ![c] = "run"]
          /\ Commit(MakeRunnable(KthreadClone(S, s, c), c))
          /\ p_files' = [p_files EXCEPT ![c] = p_files[s]]
    /\ f_refcount' = ForkFiles(s)
    \* proc_create vrefs vfs_root_vn as the child's p_cwd; do_fork vputs it
    \* and vrefs the parent's p_cwd, which is vfs_root_vn too.
    /\ root_ref' = root_ref + 1
    /\ nforked' = nforked + 1
    /\ UNCHANGED <<warg, nopened>>

(* Where a process goes when do_waitpid has reaped a child and rest are   *)
(* its children left: idle halts; init's loop goes on while it has any.   *)
AfterReap(s, rest) ==
    CASE s = Idle -> "halted"
      [] s = Init -> IF rest = <<>> THEN "run" ELSE "drain"
      [] OTHER    -> "run"

(* idleproc_run, once do_waitpid has returned init: vput of idle's p_cwd *)
(* before vfs_shutdown.                                                   *)
IdleShutdownRef(s) == IF s = Idle THEN root_ref - 1 ELSE root_ref

(* The index in p_children of the first child do_waitpid(arg) looks at.  *)
WaitMatch(s, arg) == SelectInSeq(children[s], LAMBDA c : arg = -1 \/ pid[c] = arg)

(* Faulty variant: the scan reaps the first matching child whatever its  *)
(* state.                                                                  *)
ReapableAny(c) == TRUE

(* do_waitpid's test on the child its scan stopped at: p_state DEAD.      *)
Reapable(c) == pstate[c] = "DEAD"

(* One pass of do_waitpid's scan from label findpid: -ECHILD when no      *)
(* child matches; the first matching child is reaped if it is DEAD        *)
(* (kthread_destroy, unlinked from p_children and _proc_list, freed);     *)
(* otherwise the caller sleeps on its own p_wait and scans again later.   *)
Waitpid(s, arg) ==
    LET i == WaitMatch(s, arg)
        c == children[s][i]
    IN  \/ /\ i = 0
           /\ pc' = [pc EXCEPT ![s] = "run"]
           /\ UNCHANGED <<schedVars, proc_list, pid, pproc, children, pstate, warg, fileVars>>
        \/ /\ i # 0 /\ Reapable(c)
           /\ children' = [children EXCEPT ![s] = RemoveAt(@, i)]
           /\ proc_list' = SelectSeq(proc_list, LAMBDA x : x # c)
           /\ pproc' = [pproc EXCEPT ![c] = NULL]
           /\ pstate' = [pstate EXCEPT ![c] = "FREE"]
           /\ pid' = [pid EXCEPT ![c] = -1]
           /\ pc' = [pc EXCEPT ![s] = AfterReap(s, RemoveAt(children[s], i))]
           /\ root_ref' = IdleShutdownRef(s)
           /\ UNCHANGED <<schedVars, warg, p_files, f_refcount, nopened>>
        \/ /\ i # 0 /\ ~Reapable(c)
           /\ CommitSwitch(SleepOn(S, PWait(s), s))
           /\ pc' = [pc EXCEPT ![s] = "waiting"]
           /\ warg' = [warg EXCEPT ![s] = arg]
           /\ UNCHANGED <<proc_list, pid, pproc, children, pstate, fileVars>>

(* do_waitpid(-1) or do_waitpid(pid of a child), called by a process;     *)
(* init calls do_waitpid(-1) while draining.                              *)
do_waitpid(s, arg) ==
    /\ Running(s)
    /\ \/ pc[s] = "run" /\ s # Init /\ SyscallEntry(s)
       \/ pc[s] = "drain" /\ arg = -1
    /\ Waitpid(s, arg)
    /\ UNCHANGED <<next_pid, nforked>>

(* A process woken on its p_wait resumes do_waitpid: goto findpid.        *)
waitpid_resume(s) ==
    /\ Running(s) /\ pc[s] = "waiting"
    /\ Waitpid(s, warg[s])
    /\ UNCHANGED <<next_pid, nforked>>

(* my_*_test, having created its child, enters its do_waitpid loop.      *)
init_drain(s) ==
    /\ Running(s) /\ s = Init /\ pc[s] = "run" /\ children[s] # <<>>
    /\ pc' = [pc EXCEPT ![s] = "drain"]
    /\ UNCHANGED <<schedVars, proc_list, pid, pproc, children, pstate, next_pid, warg, nforked,
                   fileVars>>

(* Faulty variants of proc_cleanup: wake nobody; wake the dying process's *)
(* own p_wait instead of its parent's.                                     *)
CleanupSchedNoWake(r, cur) == r
CleanupSchedOwnQueue(r, cur) == BroadcastOn(r, PWait(cur))

(* proc_cleanup's scheduler part: wake everybody on the parent's p_wait.  *)
CleanupSched(r, cur) == BroadcastOn(r, PWait(pproc[cur]))

(* Faulty variant: the fd table is cleared without fput.                  *)
CleanupFilesNoPut(s) == f_refcount

(* proc_cleanup's loop over p_files: fput every non-NULL entry (the       *)
(* file_t is freed when its count reaches 0) and set the entry NULL.      *)
CleanupFiles(s) == [f \in Files |-> f_refcount[f] - Cardinality(FdsOf(s, f))]

(* Faulty variant: children are moved to init but keep their p_pproc.     *)
ReparentKeep(s) == pproc

(* proc_cleanup's reparenting: every child of s gets p_pproc = init.      *)
Reparent(s) == [c \in Slots |-> IF c \in Range(children[s]) THEN Init ELSE pproc[c]]

(* kthread_exit of curthr s, after the scheduler record r: kt_state     *)
(* EXITED, and proc_thread_exited runs proc_cleanup: p_state DEAD; every *)
(* child is appended to init's p_children and gets p_pproc = init (the    *)
(* dying process's own list is never read again); broadcast on the       *)
(* parent's p_wait; then sched_switch.  The process stays on _proc_list   *)
(* until its parent reaps it.                                             *)
ExitWith(s, r) ==
    /\ pproc' = Reparent(s)
    /\ children' = [children EXCEPT ![Init] = @ \o children[s], ![s] = <<>>]
    /\ pstate' = [pstate EXCEPT ![s] = "DEAD"]
    /\ CommitSwitch(CleanupSched([r EXCEPT !.c[s] = TRUE, !.st[s] = "EXITED"], s))
    /\ pc' = [pc EXCEPT ![s] = "done"]
    /\ root_ref' = root_ref - 1
    /\ f_refcount' = CleanupFiles(s)
    /\ p_files' = [p_files EXCEPT ![s] = NoFiles]
    /\ UNCHANGED <<proc_list, pid, next_pid, warg, nforked, nopened>>

(* do_exit (kthread_cancel(curthr) sets kt_cancelled, then kthread_exit); *)
(* also init's return from initproc_run once the shell has ended with no  *)
(* child left, and syscall_handler's kthread_exit(kt_retval) when a       *)
(* process it enters for is already cancelled: the same cleanup.          *)
do_exit(s) ==
    /\ Running(s)
    /\ pc[s] = "run"
    /\ s = Init => children[s] = <<>>
    /\ ExitWith(s, S)

PID_IDLE == 0

(* Faulty variant: direct children of idle are not spared.                *)
VictimsKillInit(s) == {p \in live : pid[p] # PID_IDLE /\ p # s}

(* The processes proc_kill_all cancels on behalf of curproc s: every one  *)
(* on _proc_list but idle, the direct children of idle, and s itself.     *)
Victims(s) == {p \in live : pid[p] # PID_IDLE /\ pid[pproc[p]] # PID_IDLE /\ p # s}

(* proc_kill of each victim: kthread_cancel of its one thread, which is   *)
(* not curthr, so sched_cancel.  The order of _proc_list does not matter: *)
(* sched_cancel only touches the thread it is given.                      *)
RECURSIVE CancelAll(_, _)
CancelAll(r, V) ==
    IF V = {} THEN r
    ELSE LET t == CHOOSE t \in V : TRUE IN CancelAll(SchedCancel(r, t), V \ {t})

(* sys_halt from a process s: proc_kill_all cancels the victims, then     *)
(* proc_kill(curproc) is do_exit, as s is not a direct child of idle      *)
(* (only init is, and init runs no syscalls).                             *)
sys_halt(s) ==
    /\ Running(s) /\ pc[s] = "run" /\ SyscallEntry(s)
    /\ s \notin {Idle, Init}
    /\ ExitWith(s, CancelAll(S, Victims(s)))

(* get_empty_fd: the lowest fd whose p_files entry is NULL.              *)
EmptyFds(s) == {fd \in FDs : p_files[s][fd] = NULL}
get_empty_fd(s) == Min(EmptyFds(s))

(* A successful do_open by s: get_empty_fd, then fget(-1) allocates a     *)
(* file_t with f_refcount 1, stored at that fd.  The returns before       *)
(* get_empty_fd change nothing; the later failures fput the file_t and    *)
(* clear the fd, leaving the state as it was: neither is a step.          *)
do_open(s) ==
    /\ Running(s) /\ pc[s] = "run" /\ SyscallEntry(s) /\ nopened < MaxOpens
    /\ EmptyFds(s) # {}
    /\ \E f \in Files :
          /\ f_refcount[f] = 0
          /\ p_files' = [p_files EXCEPT ![s][get_empty_fd(s)] = f]
          /\ f_refcount' = [f_refcount EXCEPT ![f] = 1]
    /\ nopened' = nopened + 1
    /\ UNCHANGED <<schedVars, proc_list, pid, pproc, children, pstate, next_pid, pc, warg,
                   nforked, root_ref>>

(* do_close(fd): -EBADF for a NULL entry; else fput and clear the entry.  *)
do_close(s, fd) ==
    /\ Running(s) /\ pc[s] = "run" /\ SyscallEntry(s)
    /\ p_files[s][fd] # NULL
    /\ f_refcount' = [f_refcount EXCEPT ![p_files[s][fd]] = @ - 1]
    /\ p_files' = [p_files EXCEPT ![s][fd] = NULL]
    /\ UNCHANGED <<schedVars, proc_list, pid, pproc, children, pstate, next_pid, pc, warg,
                   nforked, root_ref, nopened>>

(* Once idle has reaped init it halts the machine: no step follows.       *)
Next ==
    \E s \in Slots :
        \/ do_fork(s)
        \/ \E arg \in {-1} \cup {pid[c] : c \in Range(children[s])} : do_waitpid(s, arg)
        \/ waitpid_resume(s)
        \/ init_drain(s)
        \/ do_exit(s)
        \/ sys_halt(s)
        \/ do_open(s)
        \/ \E fd \in FDs : do_close(s, fd)

(* One CPU; it keeps running curthr (see KMutex).                          *)
Spec == Init0 /\ [][Next]_vars /\ WF_vars(Next)

(***************************************************************************)
(* Invariant: the process tree is intact after any interleaving of forks,  *)
(* exits with reparenting and reaps.  Every process but idle has a parent  *)
(* on _proc_list that lists it exactly once among its children, and every  *)
(* listed child names that parent in p_pproc and is on _proc_list.         *)
(***************************************************************************)
ProcTree ==
    /\ \A s \in live \ {Idle} :
          /\ pproc[s] \in live
          /\ Cardinality({i \in 1..Len(children[pproc[s]]) : children[pproc[s]][i] = s}) = 1
    /\ \A s \in live : \A c \in Range(children[s]) : c \in live /\ pproc[c] = s

(***************************************************************************)
(* Invariant: the processes on _proc_list have distinct pids, none -1:     *)
(* _proc_getid skips the pids in use as next_pid wraps round.              *)
(***************************************************************************)
PidsUnique ==
    \A a, b \in live : a # b => pid[a] # pid[b] /\ pid[a] # -1

(***************************************************************************)
(* Invariant: no process sleeps in do_waitpid without a child it waits    *)
(* for that is still alive (spec 4.3: "otherwise sleep ... and restart    *)
(* the scan on wake"): among the children that match its pid argument,   *)
(* one has not died, so its exit will broadcast on the parent's p_wait.   *)
(* A parent left asleep once every matching child is DEAD, by a missed    *)
(* or misdirected wake-up, hangs for ever.                                 *)
(***************************************************************************)
WaitSleepJustified ==
    \A s \in Slots :
        wchan[s] = PWait(s) =>
            \E c \in Range(children[s]) :
                (warg[s] = -1 \/ pid[c] = warg[s]) /\ pstate[c] # "DEAD"

(***************************************************************************)
(* Invariant: sys_halt cancels whole subtrees and never idle or init.  A   *)
(* process that has been cancelled but not yet died is a user process, and *)
(* every child it has is cancelled as well: proc_kill_all spares only the  *)
(* direct children of idle, a cancelled process cannot fork past           *)
(* syscall_handler, and kthread_clone copies kt_cancelled.                 *)
(***************************************************************************)
HaltKillsSubtrees ==
    \A s \in live :
        pstate[s] = "RUNNING" /\ cancelled[s] =>
            /\ s \notin {Idle, Init}
            /\ \A c \in Range(children[s]) : cancelled[c]

(***************************************************************************)
(* Invariant: the references the processes hold through fork and exit are *)
(* counted right.  Each file_t's f_refcount is the number of fd slots, in  *)
(* all process tables, that point to it (do_fork frefs what it copies,    *)
(* do_close and proc_cleanup fput what they clear), and vfs_root_vn's      *)
(* count is vfs_init's reference plus one p_cwd for every process that    *)
(* has not died (proc_create or do_fork took it, proc_cleanup put it; idle *)
(* puts its own at shutdown).                                              *)
(***************************************************************************)
RefsCounted ==
    /\ \A f \in Files :
          f_refcount[f] = Cardinality({sf \in Slots \X FDs : p_files[sf[1]][sf[2]] = f})
    /\ root_ref = 1 + Cardinality({s \in live : pstate[s] = "RUNNING" /\ pc[s] # "halted"})

(***************************************************************************)
(* Liveness: every process is eventually reaped and idle, having reaped    *)
(* init, halts.                                                            *)
(***************************************************************************)
AllReaped == <>(pc[Idle] = "halted" /\ live = {Idle})

(***************************************************************************)
(* Refinement: the process operations implement ProcLifecycle, the        *)
(* lifecycle of spec section 4.3.  A slot off _proc_list is "none", a DEAD *)
(* one a zombie, any other on the list alive; the parent is p_pproc and   *)
(* the id p_pid.  Every step is a create with a fresh pid, an exit that   *)
(* hands the children to init, a reap of a zombie by its own living       *)
(* parent, or leaves all three alone (scheduling, sleeps, cancellation,   *)
(* files).                                                                 *)
(***************************************************************************)
LifeState == [s \in Slots |-> CASE s \notin live      -> "none"
                                [] pstate[s] = "DEAD" -> "zombie"
                                [] OTHER              -> "alive"]

PL == INSTANCE ProcLifecycle
        WITH Procs <- Slots, Ids <- 0 .. PROC_MAX_COUNT - 1,
             lstate <- LifeState, parent <- pproc, lpid <- pid

ProcRefinement == PL!Spec

(***************************************************************************)
(* The comment on do_waitpid (proc/proc.c): with pid -1 it disposes of one *)
(* of the exited children, and blocks only if all children are still      *)
(* running.  So a process asleep in do_waitpid(-1) has no dead child.      *)
(***************************************************************************)
WaitAnyBlocksOnlyIfAllRunning ==
    \A s \in Slots :
        wchan[s] = PWait(s) /\ warg[s] = -1 =>
            \A c \in Range(children[s]) : pstate[c] # "DEAD"
=============================================================================
