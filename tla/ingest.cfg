SPECIFICATION FairSpec
CONSTANTS
    Trades = {1, 2, 3}
    At <- const_At
    Ext <- const_Ext
    Fill <- const_Fill
    None = None
    Procs = {"p"}
    PageSize = 1
    WalkSize = 1
    MaxOffset = 1
    Lookback = 1
    MaxTime = 3
    Walks = 1
    Faults = 2
INVARIANTS
    CursorCovers
    WalkKeeps
PROPERTIES
    TradesLand
CHECK_DEADLOCK FALSE
