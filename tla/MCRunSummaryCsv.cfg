CONSTANTS
    Impls <- TwoArms
    Support <- SparseOnly
    Plan <- SparsePoint
    Replicates = 1
    PilotCapped = FALSE
    VariantArms <- BothVary
    VariantPlan <- SparsePoint
    VariantKinds <- Kinds
    Outcomes <- Printed
    Panels <- OnePanel
    CsvBaselines <- RomlAlone
    NnzSizes <- SparseSizes
    PopulateTime <- UnevenTimes
SPECIFICATION Spec
INVARIANTS
    CsvSpeedupsAreOfTheirPoint
