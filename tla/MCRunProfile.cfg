CONSTANTS
    Impls <- TwoArms
    Support <- BothOnBess
    Plan <- ThreePoints
    Replicates = 2
    PilotCapped = TRUE
    VariantArms <- RomlOnly
    VariantPlan <- SparsePoint
    VariantKinds <- Kinds
    Outcomes <- AllOutcomes
SPECIFICATION FairSpec
INVARIANTS
    CanonicalRecordsHaveNoHoles
    VariantsFollowCanonical
    RunJsonLagsOneBatch
PROPERTIES
    RunEnds
