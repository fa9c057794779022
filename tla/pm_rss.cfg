SPECIFICATION PipeSpec
CONSTANTS
    p1 = p1  p2 = p2  svc1 = svc1  svc2 = svc2  c1 = c1  c2 = c2
    NoBase = NoBase  NoUID = NoUID  NoSeries = NoSeries
    PIDs = {p1, p2}
    Services = {svc1}
    MaxMem = 1
    CacheLen = 2
    TTL = 3
    MaxTime = 5
    BatchBuf = 1
    Scrapers = {c1}
    Disturbances = {}
CHECK_DEADLOCK FALSE
SYMMETRY Symm
INVARIANTS
    PipeTypeOK
    MemoryIsRSS
