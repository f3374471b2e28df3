CONSTANTS
    t1 = t1
    t2 = t2
    t3 = t3
    runq = runq
    mtxq = mtxq
    NULL = NULL
    Threads <- MCThreads
    WaitQueues <- MCWaitQueues
    RunQ <- runq
    MtxQ <- mtxq
    MaxIter = 2
    MaxCancel = 1
SPECIFICATION Spec
\* With no runnable thread left the CPU halts in intr_wait: an end state.
CHECK_DEADLOCK FALSE
INVARIANTS
    TypeOK
    ThreadQueueConsistent
    MutexOwnership
    NoWaiterOnFreeMutex
PROPERTIES
    AllThreadsFinish
    MutexRefinement
