CONSTANTS
    v0 = v0  v1 = v1  v2 = v2
    a = a  b = b  dot = dot  dotdot = dotdot  long = long
    f1 = f1  f2 = f2
    NULL = NULL
    Vnodes <- MCVnodes
    Root = v0
    Names = {a, b}
    Dot = dot
    DotDot = dotdot
    LongName = long
    Files <- MCFiles
    NFILES = 2
    MaxPos = 1
    Paths <- MCPaths
    LinkPaths <- MCLinkFromTo
    OpenFlags <- MCAppendFlags
SPECIFICATION Spec
\* Checks one property; a fault stops the kernel.
CHECK_DEADLOCK FALSE
INVARIANT WriteNeedsWriteOp
