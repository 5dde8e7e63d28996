CONSTANTS
    b1 = b1
    s1 = s1
    x1 = x1
    m1 = m1
    AAPL = AAPL
    XOM = XOM
    Orders <- MCOrders
    Manual <- MCManual
    Symbols <- MCSymbols
    Excluded <- MCExcluded
    Terms <- MCTerms
    MaxShares = 2
    Opening <- MCOpening
    Closings <- MCClosings
    MaxBoots = 2
SPECIFICATION Spec
INVARIANTS TypeOK NothingBehindWatermark RunningMeansReplayed HaltIsExplained
PROPERTY EveryBootEnds
CHECK_DEADLOCK FALSE
