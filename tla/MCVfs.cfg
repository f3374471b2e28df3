CONSTANTS
    v0 = v0  v1 = v1  v2 = v2
    a = a  b = b  dot = dot  dotdot = dotdot  long = long
    f1 = f1  f2 = f2
    NULL = NULL
    Vnodes <- MCVnodes
    Root = v0
    Names = {a, b}
    Dot = dot
    DotDot = dotdot
    LongName = long
    Files <- MCFiles
    NFILES = 2
    MaxPos = 1
    Paths <- MCPaths
    LinkPaths <- MCLinkFromTo
    OpenFlags <- MCOpenFlags
SPECIFICATION Spec
\* A process may stop making calls at any point, and a fault stops the kernel.
CHECK_DEADLOCK FALSE
INVARIANTS
    TypeOK
    RefsBalanced
    FilesBalanced
    TreeWellFormed
    NoKernelAssert
