SPECIFICATION FairSpec
CONSTANTS
    p1 = p1  p2 = p2  a = a  b = b  svc1 = svc1  svc2 = svc2
    NoProc = NoProc  NoService = NoService  NoEntry = NoEntry  NoStatus = NoStatus
    PIDs = {p1, p2}
    Idents = {a,b}
    Services = {svc1, svc2}
    ProcessServices = {svc1}
    MaxGen = 2
    MaxCPU = 0
    MaxMem = 0
    MaxIO = 0
    MaxNet = 0
    SpanBuf = 1
    Privileged = FALSE
    WordSize = 16
CHECK_DEADLOCK FALSE
PROPERTIES DeadPIDsForgotten ShutdownCompletes
INVARIANTS TypeOK RoundKeepsItsBatch CacheWithinMap
