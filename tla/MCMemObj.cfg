CONSTANTS
    p1 = p1
    p2 = p2
    p3 = p3
    Procs <- MCProcs
    InitProc = p1
    Pages = {0, 1}
    SharedPages = {1}
    Vals = {1}
    MaxObjs = 7
SPECIFICATION Spec
\* Every process may exit, after which nothing is left to run.
CHECK_DEADLOCK FALSE
INVARIANTS
    TypeOK
    RefsBalanced
    NoUseAfterFree
    NoLeak
    PageTableCoherent
PROPERTIES
    COWRefinement
