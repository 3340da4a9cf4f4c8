CONSTANTS
    Impls <- TwoArms
    Support <- SparseOnly
    Plan <- SparsePoint
    Replicates = 5
    PilotCapped = FALSE
    VariantArms <- BothVary
    VariantPlan <- SparsePoint
    VariantKinds <- Kinds
    Outcomes <- TwoOutcomes
    Panels <- OnePanel
    CsvBaselines <- RomlAlone
    NnzSizes <- SparseSizes
    PopulateTime <- UnevenTimes
SPECIFICATION Spec
INVARIANTS
    ChartsAgree
    StatisticsBracket
