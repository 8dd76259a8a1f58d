SPECIFICATION Spec
CONSTANTS
    Keys = {"k1", "k2"}
    Matches = {"m1"}
    MatchOf <- MCMatchOf
    MarketOf <- MCMarketOf
    SelectionOf <- MCSelectionOf
    TwiceLine = 5
    Odds = 2
    Scores <- MCScores
    Pipelines = {p1}
    Start = 4
    MinStake = 2
    MaxStake = 3
    Recommendations = {3}
    MatchPercent = 100
    TotalPercent = 100
    DayPercent = 100
    MaxConcurrent = 1
    SettleLimit = 2
    SettingsSpace <- MCAllOn
    Nothing = Nothing
    MaxRepeats = 1
INVARIANT MoneyIsIdempotent
CHECK_DEADLOCK FALSE
