# TLA+ models of the CSCI402 kernel and warm-up programs

This directory holds TLA+ models of the C code under `src/Homework`, together
with the TLC configurations that check them. It covers the Weenix teaching
kernel (`Kernel/`), the token-bucket emulator (`Warmup2/`) and the transaction
sorter (`Warmup1/`). `PROJECT.json` records, in machine-readable form:

- every component and whether it is modelled;
- every run and the properties it checks;
- one mutant per checked property;
- the source lines that each definition translates;
- the findings;
- the hazards of the code.

## The system

**Kernel.** The kernel runs on one CPU with cooperative scheduling. Only
`curthr` executes. It keeps the CPU until it calls `sched_switch`, either
directly or through `sched_sleep_on`, `sched_cancellable_sleep_on`,
`kthread_exit`, or a contended `kmutex_lock`. The parts are:

| Part | Source | State | Operations |
|---|---|---|---|
| Scheduler | `proc/sched.c`, `proc/sched_helper.c` | run queue, wait queues (`ktqueue_t`), `kt_state`, `kt_wchan`, `kt_cancelled`, `curthr` | enqueue/dequeue/remove, sleep, cancellable sleep, wakeup, broadcast, cancel, make_runnable, switch |
| Mutex | `proc/kmutex.c` | `km_holder`, `km_waitq` | lock, lock_cancellable, unlock |
| Threads | `proc/kthread.c` | thread record | create, cancel, exit, clone |
| Processes | `proc/proc.c`, `proc/fork.c` | process list, parent/children, `p_state`, `p_status`, `p_wait`, pid counter | proc_create, proc_cleanup, do_exit, do_waitpid, proc_kill(_all), do_fork (with the fd table and `p_cwd`) |
| Memory objects | `vm/anon.c`, `vm/shadow.c` | refcount, resident pages, shadow chain | ref, put, lookuppage, fillpage |
| Address-space map | `vm/vmmap.c`, `vm/mmap.c`, `vm/brk.c`, `vm/pagefault.c` | sorted list of areas | insert, find_range, lookup, remove, map, clone; mmap, munmap, brk, page fault |
| VFS | `fs/namev.c`, `fs/open.c`, `fs/vfs_syscall.c` | fd table, file refcounts and offsets, vnode refcounts | lookup, dir_namev, open_namev, open, read, write, close, dup, dup2, mknod, mkdir, rmdir, unlink, link, rename, chdir, getdent, lseek, stat |
| Syscalls and boot | `api/syscall.c`, `main/kmain.c` | none of their own | dispatch; the idle and init processes |

The parts interact as follows:

- The mutex and process waits sleep on the scheduler's queues.
- Process exit cancels threads, reparents children, releases files and the address space, and wakes the parent.
- fork clones the address space with shadow objects and shares the fd table.

**Warmup2.** Five POSIX threads share one mutex and one condition variable:

- a packet generator, which appends to Q1;
- a token depositor, which fills a bucket of depth B and moves the head of Q1 to Q2 when it has enough tokens;
- two servers, which take packets from Q2;
- a SIGINT handler thread, which empties Q1 and Q2 and stops the arrivals.

**Warmup1.** A sequential program. It reads transactions into a list,
bubble-sorts them by timestamp and rejects duplicate timestamps, then prints
a table with each amount and the running balance, formatted by
`transferFormat` as `(d,ddd,ddd.dd)` or `?,???,???.??` when out of range.
The list is the `My402List` of `Warmup2/my402list.c`, a circular doubly
linked list with an anchor element. `BubbleForward` swaps two neighbours by
freeing both elements and inserting new ones, and `main` frees the list with
`My402ListUnlinkAll` at the end.

### What is hard

- **Cancellation races with the hand-over of a mutex.** `kmutex_unlock` can give the mutex to a cancellable sleeper, and that sleeper can be cancelled before it runs.
- **Wait queues are FIFO only by convention.** Insertion is at the head and removal takes `l_prev`.
- **`sched_cancel` leaves the thread's state unchanged.**
- **Waits against exits.** A parent sleeping in `do_waitpid` races with its children's exits, and orphans are reparented to init.
- **Memory refcounts.** Reference counts of shadow chains must balance across fork and exit.
- **Address-space splitting.** The four cases of `vmmap_remove` and the error paths of `vmmap_map` and `do_brk`.
- **Warmup2 threads.**
  - Loop conditions are read without the lock.
  - A server spins when it has no work.
  - A signal arrives while a packet is in service.
  - The bucket bound is B.

## Modules

| Module | Models | Notes |
|---|---|---|
| `Sched` | the scheduler (`sched.c`, `sched_helper.c`) | variables `state`, `wchan`, `queue`, `cancelled`, `curthr`; one operator per function, over a record so one step can chain the calls a handler makes |
| `KMutex` | `kmutex.c`, `kthread_cancel`, `kthread_exit`, `SYS_thr_yield` over `Sched` | one action per function; `pc` is where a thread resumes after `sched_switch` |
| `MutexSpec` | the promise of a mutex: one owner, first-come-first-served hand-over, waiters may leave | abstract specification refined by `KMutex` |
| `MCKMutex` | model values for three threads, the run queue and one mutex queue | |
| `Proc` | `proc.c` (`_proc_getid`, `proc_create`, `proc_cleanup`, `do_waitpid`, `do_exit`, `proc_kill`, `proc_kill_all`), the cancellation check of `syscall_handler`, the fork/exit harness of `kmain.c`, `do_fork`'s fd-table copy, `do_open`/`do_close` as seen by the fd table, over `Sched` | one slab slot per process and its single thread; `pc` is where the thread resumes; `p_files`, `f_refcount`, and `root_ref` (the count of `vfs_root_vn`, every process's `p_cwd` here) |
| `MCProc` | idle, init and three more slots, five pids | |
| `TokenBucket` | `packetFunc`, `tokenFunc`, `serverFunc`, `signalFunc` of `warmup2.c`, over `My402List` | one step per critical section, per unlocked loop-test read, per cond_wait wake-up and per service completion |
| `MCTokenBucket` | three packets, B = 2, servers S1 and S2 | |
| `VmMap` | `vmmap.c` (insert, find_range, lookup, map, remove, is_range_empty), `do_mmap`, `do_munmap`, `do_brk` | variables `vmm_list` (area ids in list order), `vma` (area records on page numbers), `alloc`, `refcount`, `objs`, `p_brk`, `fault`; one action per system call |
| `AddrSpace` | what an address space promises, page by page | abstract specification refined by `VmMap` |
| `MCVmMap` | eight page numbers, user pages 2..6, the loader's text, data and stack areas | |
| `Vfs` | `namev.c`, `open.c`, `vfs_syscall.c` over ramfs, for one process | variables for the vnodes (`mode`, `entry`, `vn_len`, `vn_refcount`), the `file_t` slab (`f_refcount`, `f_mode`, `f_vnode`, `f_pos`), `p_files`, `p_cwd`, `fault`; one action per system call |
| `MCVfs` | three vnodes, names `a` and `b`, two fd slots, six paths | |
| `Warmup1Sort` | `main`'s read loop, `BubbleSortForwardList`/`BubbleForward`, `printTable`'s balance and `transferFormat` of `warmup1.c` | variables `list` (myList), `input` (the list as read, a history variable), `lineNum`, `pc`, `i`, `j`, `swapped`, `table` (the Amount and Balance columns printed); one step per loop iteration of the sort, one for `printTable`, one for the closing `My402ListUnlinkAll`; `TransferFormat` is the digit loop as a `RECURSIVE` operator over the 14-byte buffer. Each list operation runs on `FromSeq(list)`, the linked form `main`'s appends build, and `list'` is what the result reads from the anchor; `elem` is the position of the sort's `elem` pointer and `allocated` the number of elements malloc'ed and not freed |
| `My402List` | `my402list.c` | operators, no variables: a list is a record of `num_members`, the `next` and `prev` pointer functions over the anchor (0) and the elements (positive integers), `obj`, and the elements in use. Each function is its run of pointer stores; `Malloc` returns the least free element, `My402ListUnlink` frees one, and `UnlinkLoop` is `My402ListUnlinkAll`'s loop as a `RECURSIVE` operator |
| `MCWarmup1Sort` | up to four lines, timestamps 1..4, amounts 5,000,000.00, ±0.01 and -1,000,000.00 | |
| `MemObj` | `anon.c` and `shadow.c` (create, put, lookuppage, fillpage), `handle_pagefault`, the loop of `do_fork` over the cloned areas (shared and private branch), `vmmap_destroy` at exit | variables `pstate`, `area` (the `vma_obj` of each process's private area), `sarea` (that of its shared area), `mo` (the objects: kind, refcount, resident pages, their contents, shadowed and bottom links), `pt` (page-table entries); actions `UserStore`, `handle_pagefault`, `do_fork`, `proc_cleanup` |
| `ProcLifecycle` | the process lifecycle of spec section 4.3: create with a fresh pid, exit to zombie with the children adopted by init, reap by the parent | abstract specification refined by `Proc` |
| `AnonMemory` | what anonymous mappings promise: each process has its own private pages, which fork copies, and all processes see the same shared pages | abstract specification refined by `MemObj` |
| `MCMemObj` | three process slots, a private page 0 and a shared page 1, the value 1, seven objects | |

Correspondence: a step of `KMutex` is the code `curthr` runs from one
`sched_switch` to the next, because nothing else runs in between. Every call
inside that stretch is part of the step, in the code's order:

- `kmutex_lock` on a held mutex is `sched_sleep_on` followed by `sched_switch`.
- `kmutex_unlock` is `sched_wakeup_on` followed by `sched_make_runnable`.

The code after a thread's switch is a separate action that only that thread,
once it is `curthr`, can take. One example is `lock_cancellable_resume`, the
rest of `kmutex_lock_cancellable` after its sleep.

The thread programs (loop: lock, maybe yield once, unlock; between iterations
maybe cancel another thread or exit) are the harness the kernel tests
use. Each thread has at most `MaxIter` lock attempts and `MaxCancel` cancels.

## Runs

| Run | cfg | Expect | What it shows |
|---|---|---|---|
| `kmutex` | `MCKMutex.cfg` | pass | see below |
| `proc` | `MCProc.cfg` | pass | see below |
| `proc_waitany` | `MCProc_waitany.cfg` | violation | see below |
| `tokenbucket` | `MCTokenBucket.cfg` | pass | see below |
| `vmmap` | `MCVmMap.cfg` | pass | see below |
| `vmmap_mmap_wrap` | `MCVmMap_mmapwrap.cfg` | violation | an mmap range that wraps past 2^32 trips `vmmap_map`'s KASSERT |
| `vmmap_mmap_fail` | `MCVmMap_mmapfail.cfg` | violation | a failed vnode mmap leaves a freed area on `vmm_list` |
| `vfs` | `MCVfs.cfg` | pass | see below |
| `warmup1_sort` | `MCWarmup1Sort.cfg` | pass | see below |
| `vfs_long_first_component` | `MCVfs_longname.cfg` | violation | a too-long first component makes `dir_namev` vput NULL |
| `vfs_append_dir` | `MCVfs_appenddir.cfg` | violation | write on a directory made with `mkdir` and opened `O_RDONLY\|O_APPEND` calls a NULL write op |
| `memobj` | `MCMemObj.cfg` | pass | see below |

**`kmutex` (pass).** Three threads, MaxIter 2, MaxCancel 1: about 31,000 states. It checks:

- `ThreadQueueConsistent`: `kt_wchan` agrees with queue membership, and states agree with queues.
- `MutexOwnership`: exclusion, and a holder is never asleep on the mutex queue.
- `NoWaiterOnFreeMutex`: no hand-over is lost.
- `AllThreadsFinish`: every thread exits.
- `MutexRefinement`: the mutex implements `MutexSpec`, that is, the FIFO hand-over.

`KMutex` also states `RunnableIsRun`, the spec's "RUN ⇔ on the run queue".
It does not hold: `sched_cancel` leaves a cancelled cancellable sleeper on the
run queue in state `SLEEP_CANCELLABLE`. No run checks it; the hazard at
`sched.c:148` records it.

**`proc` (pass).** Idle, init and three more slots, `PROC_MAX_COUNT` 5 and
at most 6 forks, so pids wrap around and a freed slot and pid are reused;
one fd, one `file_t` and one successful `do_open`, so a file opened before a
fork is shared by parent and child and closed or dropped by each in any
order: about 290,000 states in a minute and a half (two fds, two files and
two opens give 3.9 million states and take 20 minutes, without new cases for
the properties). A process's step runs from one `sched_switch` to the
next, as in `KMutex`: `do_fork` makes the child runnable and continues;
`do_exit` is `proc_cleanup` (reparent the children to init, wake the parent's
`p_wait`) then `sched_switch`; `do_waitpid` reaps a dead child, returns
`-ECHILD`, or sleeps on its own `p_wait` and rescans when woken
(`waitpid_resume`). Any process other than idle and init (which are kernel
threads and make no system calls) may call `sys_halt`: `proc_kill_all`
cancels every process but idle and idle's direct children, then the caller
exits. A cancelled process that is runnable dies at its next system call,
through `syscall_handler`'s check. One asleep in `do_waitpid` sleeps
non-cancellably and dies after a child's exit wakes it. `do_fork` copies the
fd table with `fref` and swaps the child's `p_cwd` reference (taken by
`proc_create`) for one on the parent's; `proc_cleanup` vputs the cwd and
fputs every fd; idle vputs its cwd when it halts. `do_open` is its
successful path (the failures undo what they did); `do_close` fputs. It
checks:

- `ProcTree`: every process but idle has a live parent that lists it exactly once among its children, and every listed child names that parent and is live. Reparenting to init keeps this through exits.
- `PidsUnique`: `_proc_getid` never hands out a pid in use, across the wrap of `next_pid`. `Scan` is the function's loop over `_proc_list` in list order (the variable `proc_list`, appended by `proc_create`'s `list_insert_tail`): on a match it moves to the next pid and, through `goto failed`, starts the walk again from the head. The mutant `ScanNoRestart` continues the walk instead of restarting it, and hands out a pid held by a process earlier in the list. The `-1` return is not reached: the model's slab has `PROC_MAX_COUNT` slots, so a pid is always free when a slot is.
- `WaitSleepJustified`: a process asleep in `do_waitpid` has a child that matches its argument (any child for -1) and is not `PROC_DEAD`, as the spec of `waitpid` requires for blocking. It takes a child's exit and a lost or misdirected `sched_broadcast_on` to break it: the mutant `CleanupSchedOwnQueue` broadcasts on the dying process's own `p_wait`.
- `HaltKillsSubtrees`: a cancelled process that has not died yet is neither idle nor init, and all of its children are cancelled too. `proc_kill_all` must spare exactly idle's direct children (the mutant `VictimsKillInit` cancels init). A cancelled process must not fork past `syscall_handler`.
- `RefsCounted`: each `file_t`'s `f_refcount` is the number of fd slots in all tables that point to it, and `vfs_root_vn`'s count is one for `vfs_init` plus one per process not yet dead. The mutant `ForkFilesNoRef` copies the fd table without `fref`.
- `AllReaped`: every process is reaped and idle halts, with or without a halt on the way.
- `ProcRefinement`: `Proc` implements `ProcLifecycle`, the lifecycle of spec section 4.3 with no queues, threads or list order. A process off `_proc_list` is "none", a `DEAD` one is a zombie, any other is alive; the parent is `p_pproc` and the id `p_pid`. Every step must be a create by a living process with a pid no listed process has, an exit (not by idle, and by init only when it has no children) that hands the children to init, a reap of a zombie by its own living parent, or a step that leaves all three alone. The mutant `ReapableAny` drops `do_waitpid`'s `PROC_DEAD` test and reaps a running child.

**`proc_waitany` (violation).** Checks `WaitAnyBlocksOnlyIfAllRunning`, the
comment on `do_waitpid`: "blocks only if all children are still running".
TLC finds `do_waitpid(-1)` asleep on its first living child while a later
child has already exited. This is recorded as a finding.

**`tokenbucket` (pass).** Three packets needing 2, 3 and 1 tokens, B = 2,
servers S1 and S2: about 13,000 states in about half a minute. Q1, Q2 and
`outputQ` are changed through the pointer operations of `My402List`
(`My402ListAppend`, `My402ListUnlink`, `My402ListUnlinkAll`) and read back by
walking from the anchor, so the queues' order is the one the list code builds. The second packet is dropped, Q2 can
hold two packets, both servers can be in service, and the one SIGINT can
come at any point. Each critical section of `myLock` is one step; each
operand of an unlocked loop test is one step, in the order the code reads
it; `pthread_cond_wait` may return spuriously. It checks:

- `PacketConservation`: every packet created is in exactly one of Q1, Q2 and `outputQ`, with the type `printStatics` counts.
- `ServedInArrivalOrder`: service begins in arrival order although two movers and two servers share the lists. The mutant `Q2LastPacket` has a server take `My402ListLast` of Q2 instead of `My402ListFirst`.
- `NoPacketLeftBehind`: when main's joins return, Q1 and Q2 are empty and no packet is left to arrive. This depends on the order of the unlocked reads in `serverFunc`'s loop test: reading Q2 before Q1 would strand a packet (the mutant `ServerLoopTestQ2First`).
- `AllThreadsJoin`: all four joined threads finish, with or without SIGINT. Reading Q1 before `inputQSize` in `tokenFunc` would break it (the mutant `TokenLoopTestQ1First`).

The unlocked reads are data races. The model takes each as an atomic read of
the current value, in source order: `My402ListEmpty` is a call into another
translation unit, so the compiler cannot move the reads across it, and on the
x86 build an aligned `long long` or `int` load is not torn.

**`vmmap` (pass).** Addresses are page numbers modulo `NPN` = 8, so that
the 32-bit sums in `do_mmap` and `do_munmap` wrap; user pages are 2..6.
Breaks count half pages, enough to tell a page-aligned break from one
inside a page. Inputs: mmap at NULL (found by `find_range`) or page 4, of one
or two pages, anonymous or of the one file, shared or private; munmap at
pages 2 and 5; brk to the end of the heap page and one page beyond. About
310,000 states in two minutes. It checks:

- `MapWellFormed`: `vmm_list` is sorted by start page, its areas are disjoint, non-empty, inside user memory, and every listed area is allocated.
- `RefsMatch`: each memory object's refcount equals the number of areas mapping it plus the references the loader and the vnode hold.
- `FindRangeIsHighestFit`: `find_range` (the HILO scan) returns the highest free range that fits, or -1 when none does.
- `AddrSpaceRefinement`: under the mapping from areas to pages, every step is a step of `AddrSpace`: mmap changes exactly the pages it maps, munmap only unmaps, brk grows the heap onto the object pages that follow it. This is where the four cases of `vmmap_remove` (split, trim front, trim back, whole) are shown right.

`VmMap` also states `BrkFindsHeap`: brk never dereferences a NULL
`vmmap_lookup` result. It fails when `p_start_brk` is page-aligned, or after
munmap has removed the heap. No run of the project checks it, and
`PROJECT.json` records it as a hazard.

`AddrSpace`'s next-state relation compares two page maps; it binds them with
`\E` over one-element sets so TLC computes each once per step.

**`vfs` (pass).** Three vnodes (the root and two more), names `a` and `b`,
two fd slots and two `file_t`s, file positions bounded by `MaxPos` = 1. The
paths are `/a`, `/a/b`, `b` (relative to the cwd), `/a/` (trailing slash),
`a/.` and `/a/LONG/b`; link and rename take `/a`, `/a/b` and `b`. Open flags
are `O_RDONLY`, `O_RDONLY|O_CREAT`, `O_RDWR|O_CREAT` and `O_WRONLY|O_APPEND`.
About 250,000 states in two minutes. Files, directories and devices are
created, linked, renamed, removed, opened, duplicated and closed in every
order. A system call is one step: ramfs never sleeps, so nothing interleaves
within a call. It checks:

- `RefsBalanced`: every vnode's `vn_refcount` equals the open `file_t`s on it plus `p_cwd` plus `vfs_root_vn`, after any sequence of calls, failing ones included. Each error exit of `dir_namev`, `open_namev` and every call must put exactly what it took.
- `FilesBalanced`: each `f_refcount` equals the number of fd slots pointing to the file (`dup`, `dup2` onto itself or onto an open slot, `close`).
- `TreeWellFormed`: the directories reachable from the root form a tree. Each has exactly one name in one parent, its `..` is that parent, and no entry names the root. `link` must refuse directories for this to hold.
- `NoKernelAssert`: no vput of a zero count and no failed `KASSERT(f_pos <= vn_len)`.

What lies outside `src/` is modelled from the spec (section 4.12) and
marked so in `PROJECT.json`: `vref`, `vput`, `fget`, `fput` and the ramfs
vnode operations. Following the spec's "uncache when refcount permits", a
vnode whose last reference is put is treated as freed. The two violation runs
each check one property that the spec states and the code breaks. Two more
disagreements are recorded as hazards in `PROJECT.json`, without a run:

- `do_link` reads `fromVNode` after putting it. The model records this as the fault `useafterfree`.
- `O_RDONLY|O_CREAT` opens a file that cannot be read.

**`warmup1_sort` (pass).** Every input of up to four lines with timestamps
from 1..4, including inputs with a bad line. That gives all 24 orders of four
distinct timestamps and every placement of a duplicate pair. Each line
carries one of four amounts, chosen so that running balances hit exactly
1e9 cents (the first value shown as `?,???,???.??`), 9,999,999.99, zero,
one cent, and negative values. Every sum stays within TLC's 32-bit integers;
the largest amount `checkAmount` accepts, 9,999,999.99, would overflow them
in a sum of three. That gives 538,000 states in about ten seconds. The sort's
result is compared with the standard module's `SortSeq`, and the printed
columns with `Column`, a declarative statement of how a cents value reads:

- `SortMatchesReference`: when `printTable` runs, the list is the input sorted by timestamp.
- `DuplicatesCaught`: an input with two equal timestamps never reaches `printTable`, and the "two identical timestamps" exit happens only when there are two. The early break and the shrinking inner bound could in principle skip a duplicate pair; TLC shows they do not.
- `TableShowsBalances`: each printed row shows the transaction's amount and the sum of the amounts so far as `Column` says they read: brackets exactly when negative, at least `0.dd`, a comma only between digits shown, and question marks from 1e9 cents. The mutant `OverflowsOff` moves the range test of `transferFormat` off the limit by one.

- `ElementsAccounted`: the elements in use are exactly the ones reached from the anchor, and after `My402ListUnlinkAll` none is in use. With `SortMatchesReference`, this checks the pointer code of `BubbleForward` and `my402list.c`: the saved neighbours, both ends of the list, the `*pp_elem2` the loop continues from, and the unlink loop that reads each successor after unlinking its predecessor. The mutant of `SortMatchesReference` is an `InsertBefore` that links after its element. The mutant of `ElementsAccounted` is an unlink loop that stops before the last element.

The linked form is rebuilt from `list` at each step, so element addresses do not carry over from one step to the next. This is sound because the code keeps no element pointer across steps other than `elem`, which the model keeps as a position. Within a step, `Malloc` reuses freed elements at once, as `malloc` may. That reuse can hide a use-after-free: an unlink that forgets `next->prev` went unnoticed.

Without the amounts, the sort properties also hold with five lines over five timestamps (33,790 states).

**`memobj` (pass).** The init process starts with two anonymous areas, as
`vmmap_map` leaves them. The private area (page 0) is a shadow over an anon
object; the shared area (page 1) is an anon object of its own. Any process
may store, fault, fork (up to three processes, so chains of four objects
arise: two shadows over the parent's old shadow over the anon) and exit, in
any order: about 660,000 states in two minutes. Each fault is the whole
`handle_pagefault`, including the `pframe_get` and `fillpage` it causes. A
fault on the private page goes to the top shadow or the bottom object; one
on the shared page goes to the anon object's lookuppage. `do_fork` walks both
areas: it shares the shared object with one more reference, and puts two
shadows over the private one. It checks:

- `TypeOK`, including that every resident frame was filled (`pframe_alloc` leaves the physical page's old bytes, `Stale`).
- `RefsBalanced`: every live object's refcount is its holders (areas, shadowed and bottom links of live shadows) plus its resident pages. The mutants `ForkShadowsNoRef` and `ForkShareNoRef` break it.
- `NoUseAfterFree`: no put meets a freed object, and no running process's chain, shared object or page table reaches one.
- `NoLeak`: every live object is reachable from some running process, so the self-collect rule of `anon_put`/`shadow_put` frees exactly what is unreachable.
- `PageTableCoherent`: a writable private entry is the process's own top shadow; a read-only one is what the read lookup would return now; a shared entry is the shared object's frame. This depends on `pt_unmap_range` in `do_fork`.
- `COWRefinement`: `MemObj` implements `AnonMemory` under the mapping "what a load returns" (the mapped frame, or what a read fault would map). Faults are stuttering steps of the abstract spec. A store to the private page changes only the storer's view; a store to the shared page changes every running process's view.

`pframe.c` is not in the source. The model takes `pframe_get` as "the
resident frame, or a new one that the object's fillpage fills", and a
resident frame as holding a reference on its object, as the spec's
"refcount ≥ number of resident pages" requires. One page per area suffices,
because the pages of an area never interact. Two private pages with three
processes pass three million states without finishing. One stored value,
against the zeros of a fresh page, is enough to tell a stale copy from a
fresh store. With two values the run reaches 3.1 million states in nine and
a half minutes and also passes.

**Why these bounds are enough.** Three threads are the fewest with which a
waiter can be cancelled by a third thread while the holder has yielded. The
same holds for the cancel-after-hand-over race. Two iterations let a thread
that was interrupted or cancelled try again. One cancel per thread reaches
three cases:

- the cancel of a cancellable sleeper;
- the cancel of a thread already on the run queue;
- the cancel of an exited thread.

**Fairness.** The model assumes weak fairness of the whole next-state relation
and nothing more: the CPU keeps running `curthr`. With one CPU and cooperative
switching, the scheduler, not fairness, decides who runs next, because the run
queue is FIFO. A state with no successor has `curthr = NULL`: the run queue is
empty and `sched_switch` waits in `intr_wait` forever. Deadlock checking is off
for that reason. `AllThreadsFinish` reports a state where threads are left
asleep.

In `Proc` the same holds: weak fairness of `Next` only keeps the CPU busy.
In `TokenBucket` the threads are POSIX threads that the OS schedules, so
each joined thread has weak fairness of its own steps. A critical section
never blocks, so a thread waiting for `myLock` keeps finding it free. SIGINT
and spurious wake-ups have no fairness: neither has to happen.

## Plan

Modules come in this order, most important behaviour first:

1. `Sched`, `KMutex`, `MutexSpec`. Done.
2. Done; `do_fork`'s fd-table and `p_cwd` work is there too (its address-space work is in `MemObj`). `Proc` over `Sched`: `proc_create`, `_proc_getid`, `do_exit`/`proc_cleanup` (reparenting, broadcast on the parent's `p_wait`), `do_waitpid` (pid and -1), `proc_kill_all`, and init reaping. It checks these properties:
   - a tree invariant;
   - no parent asleep while a dead child exists;
   - every zombie is eventually reaped.

   A violation run checks the spec's "waitpid(-1) returns children in exit order".
3. Done. `TokenBucket`: the five threads of `warmup2.c` on one mutex and condition variable, with spurious wake-ups. It checks these properties:
   - the bucket stays at most B;
   - every packet is accounted for exactly once;
   - service starts in FIFO order;
   - all threads terminate.
4. Done, for anonymous mappings. `MemObj`: anon and shadow objects, private and shared, with page faults, `fork` and exit, refined to `AnonMemory`. File-backed objects and the pageout path are left.
5. Done. `VmMap` with `AddrSpace`: the map operations, mmap, munmap and brk, refined to a page map. `vmmap_clone` is the area copy in `MemObj`'s `do_fork`.
6. Done. `Vfs`: path resolution, open and the VFS system calls, with file and vnode refcounts.
7. Done. `Warmup1Sort`: `BubbleSortForwardList` of `warmup1.c`, as the loop it is, checked against `SortSeq` over small inputs, and `printTable`/`transferFormat` checked against a declarative column format. Its list runs through the pointer code of `my402list.c` (`My402List`).

## Not modelled

- **The interrupt priority level and interrupt handlers.** Nothing in `src/` raises interrupts that touch these structures.
- **Context switching.** This is hardware state. Page-table entries are kept in `MemObj` only as "which frame, writable or not".
- **Argument copying in `syscall.c`, and most output formatting of the warm-ups.** This is I/O. The money columns of `warmup1`'s table are the exception: they are modelled, because their boundaries are a property. Only `syscall_handler`'s cancellation check is modelled, in `Proc`. The byte counts of `sys_read`, `sys_write` and `sys_getdents` against their buffers are listed as a hazard in `PROJECT.json`. `Vfs` keeps file positions and directory offsets to a few values, so a byte count has no buffer size to be measured against.
- **`Warmup2/test.c`.** It is an earlier draft of `warmup2.c`.
- **`do_mount` and `do_umount`.** They are stubs under an `#ifdef` that the build does not define.
- **Byte contents.** Reads and writes move one unit per call; what the bytes are is never compared.
- **The name buffers of `dir_namev`.** A path is a sequence of components, so the character scanning is not modelled. Whether a component is longer than `NAME_LEN` is kept.
