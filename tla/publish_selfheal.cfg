SPECIFICATION Spec
CONSTANTS
    Markets = {"match_outcome"}
    LastHorizon = 3
    Selections = {"home", "away"}
    Scores = {60, 62}
    PolicyOutcomes <- MCPolicyOutcomes
    ProfileCaps = {2}
    SettingsSpace <- MCStrict
    Publishers = {p1}
    Readers = {r1}
    AnySelection = AnySelection
    NoDecision = NoDecision
    NoPointer = NoPointer
    MaxAttempts = 2
    MaxRuns = 3
    MaxOverrides = 1
INVARIANT VisibleRunsAreApproved
CHECK_DEADLOCK FALSE
