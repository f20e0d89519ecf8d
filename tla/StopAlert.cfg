SPECIFICATION RecommendationSpec
CONSTANTS
    Evidence <- AllAgree
    FactorCounts = {0, 1, 3}
    LastClose = 100
    StopDistance = 4
    SupportLevel = 95
    ResistanceLevel = 110
    Quotes = {95, 99, 105}
    MaxRuleRetries = 1
INVARIANTS StopAlertMeansReached
CHECK_DEADLOCK FALSE
