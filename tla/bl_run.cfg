SPECIFICATION FairBeylaSpec
CONSTANTS
    t1 = t1  t2 = t2
    NoConfig = NoConfig
    Tracers = {t1, t2}
    Batches <- MCBatches
    Configs <- MCConfigs
    MaxSent = 2
    ChannelBufferLen = 1
CHECK_DEADLOCK FALSE
INVARIANTS BeylaTypeOK QueuesInOrder ConnectionSpansExact CleanStopUnloads ExitStatusIsTrue ComponentsExport
PROPERTIES ShutdownCompletesUnlessStuck BatchesReachAlloy
