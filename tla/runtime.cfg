\* A process from New to the end of its shutdown, and two of its workers.
SPECIFICATION MCSpec
CONSTANTS
    Loops = {"metrics", "collect"}
    EventBuffer = 2
    Settings <- UpToTwoOff
    Conditions = {"m"}
    NoMarket = "none"
    Events <- MCEvents
    Trigger = 20
    Bucket = 2
    Cooldown <- MCCooldown
    MaxTime = 5
    MaxEvents = 3
    MaxFaults = 2
    p1 = p1
    p2 = p2
    g1 = g1
    g2 = g2
    m1 = m1
    k1 = k1
    None = None
    Trades <- OneTrade
    Markets = {m1}
    MarketOf <- OneMarket
    Keys = {k1}
    KeyOf <- OneKey
    Poison <- OneTrade
    Procs = {p1, p2}
    Threads = {g1, g2}
    ProcOf <- Replicas
    ClaimLimit = 1
    ClaimTTL = 1
    MaxLag = 1
    Faults = 2
    Slow = 1
INVARIANTS
    ShutdownInOrder
    NobodyIsLeftOut
    JumpIsQueued
    MovesAreSpaced
    SecondLookHasCause
    AnalyzedTellsTheAlert
PROPERTIES
    StopsUnlessStreaming
    DeadPeerReplaced
    EveryTradeDecided
CHECK_DEADLOCK FALSE
