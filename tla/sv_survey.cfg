SPECIFICATION SurveySpec
CONSTANTS
    p1 = p1  p2 = p2  p3 = p3  e1 = e1  c1 = c1  c2 = c2
    NoPID = NoPID  NoUID = NoUID  NoEvent = NoEvent
    PIDs = {p1, p2, p3}
    Exes = {e1}
    Containers = {c1}
    Exe <- Exe3
    Parent <- Parent3
    Container <- Container1
    KeepUp = FALSE
    MaxBatch = 2
INVARIANTS
    SurveyTypeOK
    TrackersConsistent
    ExportedUnlessRenamed
    OnlyLiveExported
    ReportersAgree
CHECK_DEADLOCK FALSE
