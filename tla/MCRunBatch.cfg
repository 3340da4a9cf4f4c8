CONSTANTS
    Cpus <- TwoCpus
    NoCpu <- NoCpuValue
    MaxJobs = 3
    MaxTasks = 4
    MaxBatches = 2
SPECIFICATION FairSpec
INVARIANTS
    TypeOK
    ExclusiveLeases
    PoolNeverMisused
    PoolRestored
    SiblingsSurvive
    BeginInScheduledOrder
PROPERTIES
    ImplementsContract
    EveryCallEnds
