CONSTANTS
    Impls <- RomlOnly
    Support <- RomlSparse
    Plan <- SparsePoint
    Replicates = 2
    PilotCapped = TRUE
    VariantArms <- RomlOnly
    VariantPlan <- SparsePoints
    VariantKinds <- Kinds
    Outcomes <- FastOutcomes
SPECIFICATION Spec
INVARIANT VariantStopsAreScoped
