CONSTANTS
    Eligible <- MCSymbols
    MaxHeadlines = 2
    Full = 10
    Verdicts <- MCVerdicts
    KeywordStrength = 6
    Threshold = 6
    Weight <- MCWeight
    Overbought = 360
    Earnings = 180
    Whole = 3600
    MaxCandidates = 1
    MaxCalls = 2
SPECIFICATION ScoringSpec
INVARIANTS CallsMatchVerdicts FallbackIsMarked
PROPERTY RankingIsFair
CHECK_DEADLOCK FALSE
