SPECIFICATION Spec
CONSTANTS
    Models = {m0, m1, m2}
    Nothing = Nothing
    NoChampion = NoChampion
    Versions = {v1, v2}
    Processes = {p1, p2}
    NoModel = NoModel
    MaxSwitches = 1
    Base = m0
    Flows = {f1, f2}
    MaxDrifts = 1
    MaxFailures = 1
    MaxAdminOps = 2
    Searches = {grid, random}
    Trials = {t1}
    MaxPosts = 2
    MaxLosses = 1
INVARIANTS
    ModelsTypeOK
    PromotionsAreComparisons ChampionHasACause
    ResolvedDriftWasRolledBack RegisteredModelsAreBacked
    ApprovalsRestOnEvidence CandidatesAreNotPruned
PROPERTIES
    ServedInTheEnd ImplementsServingView FlowsEnd RunEndsClosed
CHECK_DEADLOCK FALSE
