\* Three fresh wallets buy in one market: the comment of the configuration asks
\* for the booster.
SPECIFICATION InputsSpec
CONSTANTS
    Lanes = {"cohort"}
    Markets <- MCMarkets
    EventOf <- MCEventOf
    Listed <- MCListed
    Prints <- MCBurstPrints
    MaxTape <- MCMaxTape
    TapeMemory = 1
    MaxRows = 2
    CacheEnabled = TRUE
    CacheTTL = 1
    Wallets = {1, 2, 3}
    CoTradeWindow = 0
    MinShared = 2
    GraphBatch = 4
    MinSimilarity = 60
    MinEvents = 2
    MinCohort = 2
    FreshBurst = 3
    LinkBatch = 1
    MinLinkPercent = 50
    Backers = {1}
    LineLookback = 0
    LineBatch = 2
    MinBreadth = 2
    MinConsistency = 75
    LiquidityFloor = 3
    TitleOf <- MCTitleOf
    RulesOf <- MCRulesOf
    NamedSource <- MCNamedSource
    ScoreBatch = 1
    MaxVersion = 2
    AmbiguityCutoff = 50
    MinTailTrades = 1
    RequireCatalyst = TRUE
    TriggerIds = {1}
    MaxLead = 1
    OpenLookback = 1
    CloseAfter = 1
    MaxOpenWindows = 1
    MaxOverdue = 1
    MaxAlike = 2
    PriceLookback = 0
    LagFloor = 3
    MinLagCents = 4
    PeerMinCount = 3
    Holders = {1, 2, 3}
    Watched = {1}
    MaxAmount = 2
    FetchTopK = 2
    RequireOI = TRUE
    FreshMax = 0
    InfoPercent = 40
    TopK = 1
    MinSharesDelta = 1
    Depths = {0, 4}
    BarMaxAge = 1
    BarLookback = 2
    MinCollapse = 50
    MinMidShift = 1
    ConflictWindow = 2
    Scores = {10, 30}
    MinDominance = 18
    Suppression = 25
    MaxDominance = 30
    MaxDecided = 3
    Kinds = {"debate", "court_ruling", "poll"}
    PreOf <- MCPreOf
    PostOf <- MCPostOf
    Furthest = 2
    MaxCatalysts = 2
    Drafts <- MCDrafts
    PlainOf <- MCPlainOf
    MaxDrafts = 2
    StaleAfter = 1
    PromptItems = 1
    Sorts <- MCSorts
    MaxStored = 3
    PastAges = {3}
    LiveAlertMaxLag = 1
    BaselineWindow = 3
    TraderWindow = 3
    LineWindow = 2
    MM <- MCMM
    Quiet <- MCQuiet
    New <- MCNew
    Dormant <- MCDormant
    Failures <- MCFailures
    RingCap = 3
    MaxHeard = 5
    Pins = {1}
    TokensOf <- MCTokensOf
    LinkedTo <- MCLinkedTo
    Liquidity <- MCLiquidity
    LastSeen <- MCLastSeen
    MaxSubscribed = 2
    TokenCap = 3
    IncludeBusy = TRUE
    Budget <- MCBudget
    MaxPolled = 3
    MaxNotes = 4
INVARIANT
    BurstFires
CHECK_DEADLOCK FALSE
