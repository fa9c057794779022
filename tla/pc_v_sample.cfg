SPECIFICATION FairSpec
CONSTANTS
    p1 = p1  p2 = p2  a = a  b = b  svc1 = svc1  svc2 = svc2
    NoProc = NoProc  NoService = NoService  NoEntry = NoEntry  NoStatus = NoStatus
    PIDs = {p1}
    Idents = {a, b}
    Services = {svc1}
    ProcessServices = {svc1}
    MaxGen = 1
    MaxCPU = 2
    MaxMem = 1
    MaxIO = 0
    MaxNet = 0
    SpanBuf = 1
    Privileged = TRUE
    WordSize = 16
CHECK_DEADLOCK FALSE
PROPERTY NextIterationUsesThisSample
