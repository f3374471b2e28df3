CONSTANTS
    num = 3
    B = 2
    Need <- MCNeed
    Servers <- MCServers
SPECIFICATION Spec
\* After the joins main returns while the signal thread may still sit in
\* sigwait, or has already handled its one SIGINT: the process ends.
CHECK_DEADLOCK FALSE
INVARIANTS
    TypeOK
    PacketConservation
    ServedInArrivalOrder
    NoPacketLeftBehind
PROPERTIES
    AllThreadsJoin
