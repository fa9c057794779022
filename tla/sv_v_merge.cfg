SPECIFICATION SurveySpec
CONSTANTS
    p1 = p1  p2 = p2  p3 = p3  e1 = e1  c1 = c1  c2 = c2
    NoPID = NoPID  NoUID = NoUID  NoEvent = NoEvent
    PIDs = {p1, p2, p3}
    Exes = {e1}
    Containers = {c1, c2}
    Exe <- Exe3
    Parent <- Parent3
    Container <- Container3
    KeepUp = TRUE
    MaxBatch = 3
INVARIANTS
    TrackedIsExported
CHECK_DEADLOCK FALSE
