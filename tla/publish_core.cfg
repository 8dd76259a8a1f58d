SPECIFICATION FairSpec
CONSTANTS
    Markets = {"match_outcome"}
    LastHorizon = 2
    Selections = {"home", "away"}
    Scores = {60, 62}
    PolicyOutcomes = {{}}
    ProfileCaps = {1, 2}
    SettingsSpace <- MCStrict
    Publishers = {p1, p2}
    Readers = {}
    AnySelection = AnySelection
    NoDecision = NoDecision
    NoPointer = NoPointer
    MaxAttempts = 2
    MaxRuns = 3
    MaxOverrides = 0
INVARIANTS PointerIsNewestRun PickLimits
PROPERTIES NoRevival PublishTerminates
CHECK_DEADLOCK FALSE
