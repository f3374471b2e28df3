CONSTANTS
    p0 = p0
    p1 = p1
    p2 = p2
    p3 = p3
    p4 = p4
    runq = runq
    NULL = NULL
    Threads <- MCSlots
    WaitQueues <- MCWaitQueues
    RunQ <- runq
    Idle <- p0
    Init <- p1
    PROC_MAX_COUNT = 5
    MaxForks = 6
    f1 = f1
    Files <- MCFiles
    NFILES = 1
    MaxOpens = 0
SPECIFICATION Spec
\* Once idle has reaped init the machine halts: an end state.
CHECK_DEADLOCK FALSE
INVARIANT
    WaitAnyBlocksOnlyIfAllRunning
