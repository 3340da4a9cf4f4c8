CONSTANTS
    Targets = {t0, t1}
    Vars = {1, 2, 3}
    Exprs <- TwoExprs
    MaxIds = 3
    FreeVars = {1, 2}
    MaxValue = 1
    ArenaIds = 4
    LookupCount = 3
    RemoveCount = 1
    UpdateCount = 2
    SampleStep = 2
SYMMETRY SameTargets
SPECIFICATION ProtoSpec
INVARIANTS
    DriversAgree
    IndexesAgree
    TargetViewAgrees
    IdentityAgrees
    LenLiveExact
    VarViewAgreesWhenIndexed
    ParamListsExact
PROPERTIES
    StaleForGood
    ImplementsCoeffStore
