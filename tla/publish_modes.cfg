SPECIFICATION Spec
CONSTANTS
    Markets = {"totals"}
    LastHorizon = 2
    Selections = {"home", "away"}
    Scores = {60, 62}
    PolicyOutcomes <- MCPolicyOutcomes
    ProfileCaps = {2}
    SettingsSpace <- MCStrictAndShadow
    Publishers = {p1, p2}
    Readers = {r1}
    AnySelection = AnySelection
    NoDecision = NoDecision
    NoPointer = NoPointer
    MaxAttempts = 2
    MaxRuns = 2
    MaxOverrides = 1
SYMMETRY MCSymmetry
INVARIANTS TypeOK UniqueLivePick NamedPointerIsPublic HandedWasFinal
PROPERTY ImplementsPickBook
CHECK_DEADLOCK FALSE
