SPECIFICATION FairSpec
CONSTANTS
    Alerts = {1, 2, 3}
    Side <- MCSide
    Winner = "Yes"
    Level <- MCLevel
    Enabled = {"rulesrisk", "cheaptail"}
    ShadowOnly = {"rulesrisk"}
    Facts <- MCFacts
    None = None
    Most = 12
    Loose <- MCLoose
    Delta <- MCDelta
    ValueBatch = 2
    MinSample = 1
    MinMove = 2
    MaxReversal = 35
    MaxPerDay = 3
    Lookback = 2
    Day = 1
    OutcomeBatch = 1
    StandaloneBatch = 1
    MaxTime = 1
    Budgets <- MCBudgets
INVARIANTS
    LiveRowHasReview
    MismatchHasCause
PROPERTIES
    RowsGetOutcome
CHECK_DEADLOCK FALSE
