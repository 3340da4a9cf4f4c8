CONSTANTS
    Impls <- TwoArms
    Support <- BothOnBess
    Plan <- ScaleLadder
    Replicates = 2
    PilotCapped = FALSE
    VariantArms <- Nobody
    VariantPlan <- NoPoints
    VariantKinds <- Kinds
    Outcomes <- TwoOutcomes
    Panels <- OnePanel
    CsvBaselines <- RomlAlone
    PopulateTime <- TwoTimes
    NnzSizes <- Standard
    Formulation <- RomlAlone
    MaxSummaries = 1
SPECIFICATION SiteSpec
INVARIANTS
    DataBacksPages
    RatiosAreNeverExtrapolated
    FailuresAreShown
    CurvesStopWhereArmsStopped
