SPECIFICATION FairAll
CONSTANTS
    Alerts <- MCAlerts
    Markets <- MCMarkets
    MarketOf <- MCMarketOf
    Labels <- MCLabels
    Bet <- MCBet
    NoLabel = NoLabel
    EndDate <- MCEndDate
    Unrecorded = {}
    Broken = {1}
    Procs = {"p1", "p2"}
    CheckLimit = 1
    PostLimit = 2
    Plan <- MCPlan
    SkipAmbiguous = FALSE
    Faults = 1
    Usable = {1}
    N = 3
    DriftLimit = 1
INVARIANTS
    VerdictIsTrue
    ReactionTellsTheVerdict
    NumbersAreBacked
PROPERTIES
    NothingOwed
CHECK_DEADLOCK FALSE
