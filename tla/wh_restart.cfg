SPECIFICATION FairWebhookSpec
CONSTANTS
    n1 = n1  n2 = n2  p1 = p1  p2 = p2  p3 = p3  d1 = d1  d2 = d2
    NoPod = NoPod  NoConfig = NoConfig
    Nodes = {n1}
    PodIDs = {p1, p2}
    Workloads = {d1}
    Deployments = {d1}
    CanInstrument = {d1}
    PreloadsSomethingElse = {}
    ManuallyInstrumented = {}
    Configs <- Upgrades
    Faults = {"api"}
    MaxStarts = 2
CHECK_DEADLOCK FALSE
INVARIANTS WebhookTypeOK OneRestartUnlessOverlap
PROPERTIES ScannedKeepSDK WrongPodsReplaced
