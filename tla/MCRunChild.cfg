CONSTANTS
    Deadline = 2
    DrainLimit = 2
    PipeCapacity = 2
    MaxChatter = 3
SPECIFICATION FairSpec
INVARIANTS
    OkIsEarned
    NothingLeftRunning
    MemoryVerdictIsReal
PROPERTIES
    HangsOnlyOnADescendant
