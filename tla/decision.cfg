SPECIFICATION DecisionSpec
CONSTANTS
    Trades = {1, 2, 3}
    Wallet <- MCWallet
    Notional <- MCNotional
    At <- MCAt
    Early = {3}
    Hot = {2}
    Grade <- MCGrade
    Giants = {3}
    Baselines <- MCBaselines
    Makers = {}
    Nothing = Nothing
    Workers = 2
    MaxLag = 1
    Window = 1
    Cooldown = 1
    MinTrades = 2
    MinWallets = 1
    LineMin <- MCLineMin
    Floor <- MCFloor
    MinProfit <- MCMinProfit
    Gain = 1
    LineWindow = 1
    Bucket = 1
    Share <- MCShare
    MinPosition = 2
    Limit = 1
    EventWindow = 2
    WalletWindow = 0
    Factor = 3
    MaxTime = 1
    Mishaps = 1
INVARIANTS
    SilenceHasCause
    LineIsTold
    OverCapWasInFlight
CHECK_DEADLOCK FALSE
