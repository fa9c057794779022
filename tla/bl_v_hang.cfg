SPECIFICATION FairBeylaSpec
CONSTANTS
    t1 = t1  t2 = t2
    NoConfig = NoConfig
    Tracers = {t1}
    Batches <- MCBatches
    Configs <- PipelineConfigs
    MaxSent = 2
    ChannelBufferLen = 1
CHECK_DEADLOCK FALSE
PROPERTY ShutdownCompletes
