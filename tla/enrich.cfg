\* The page and the note of an alert, the reports, and the workers that buy
\* answers, each under its own faults.  Budgets end, and nothing more happens.
SPECIFICATION MCSpec
CONSTANTS
    c1 = c1
    c2 = c2
    Callers = {c1, c2}
    Slugs = {"a", "b"}
    AsksFor <- MCAsksFor
    Renamed <- MCRenamed
    RefreshInfo = 1
    RefreshImportant = 0
    BuildIDTTL = 1
    MaxRedirects = 1
    PageBudgets <- MCPageBudgets
    s1 = s1
    s2 = s2
    Alerts = {"a"}
    Senders = {s1, s2}
    ProcOf <- MCProcOf
    KindOf <- MCKindOf
    OwnMarks <- MCOwnMarks
    Answers <- MCAnswers
    Advancing = {"a"}
    PerMinute = 1
    DailyBudget = 1
    AnalysisBudgets <- MCNoteBudgets
    RouterConfigs <- MCRouterConfigs
    Reports <- MCReports
    Events = {"e1", "e2"}
    w1 = w1
    w2 = w2
    Slots = {w1, w2}
    Tier <- MCTier
    Markets = {"m"}
    Items = {"i1", "i2"}
    Cap <- MCCap
    GlobalCap = 6
    Est <- MCEst
    OwnCap = 5
    MaxCost = 2
    DayLength = 2
    StaleAfter = 1
    SemanticCooldown = 2
    Budgets <- MCBudgets
    MaxTime = 3
SYMMETRY AlikeSlots
CHECK_DEADLOCK FALSE
INVARIANTS
    PagesKeepTheirWord
    SecondAnswerHasCause
    VerdictIsOfTheNote
    MessagesFindTheirChat
    BillIsBounded
    SecondReviewHasCause
