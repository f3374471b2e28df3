CONSTANTS
    a1 = a1  a2 = a2  a3 = a3  a4 = a4  a5 = a5  a6 = a6  a7 = a7
    oText = oText  oData = oData  oStack = oStack  oFile = oFile
    o1 = o1  o2 = o2  o3 = o3
    NULL = NULL
    AreaIds <- MCAreaIds
    Objs <- MCObjs
    TextObj = oText
    DataObj = oData
    StackObj = oStack
    FileObj = oFile
    NPN = 8
    LOW = 2
    HIGH = 7
    StartBrks = {7}
    MmapAddrs = {0, 4}
    MmapLens = {1, 2}
    MunmapAddrs = {2, 5}
    BrkAddrs = {7, 9}
    MmapResults = {"ok", "fail"}
SPECIFICATION Spec
\* User programs call these system calls in any order and may stop.
CHECK_DEADLOCK FALSE
INVARIANT
    AreasAllocated
