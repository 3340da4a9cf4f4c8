CONSTANTS
    Adapters <- TwoAdapters
    Externals <- OneExternal
    Cores <- TwoCores
    BulkCore = "bulk"
    Cases <- TwoCases
    RunnerCases <- BessOnly
    Supports <- SupportsMap
    Reference <- References
    Shas = {old, new}
    None = None
SPECIFICATION ProvenanceSpec
INVARIANTS
    VerdictIsEarned
    NothingSilentlySkipped
    OkMeansThePin
CHECK_DEADLOCK FALSE
