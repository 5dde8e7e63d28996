CONSTANTS
    o1 = o1
    o2 = o2
    AAPL = AAPL
    Orders <- MCOrders
    Symbols <- MCSymbols
    Equity = 4
    MaxUsd = 8
    MaxQty = 2
    MaxShares = 8
    Prices <- MCPrices
    Buffers <- MCBuffers
    SellFee = 1
    SplitRatios <- MCSplitRatios
    MaxActivities = 4
SYMMETRY OrderSymmetry
SPECIFICATION Spec
INVARIANTS TypeOK Solvent FillsAffordable FilledMeansBooked LotsBackPosition CashExplained
PROPERTY CapitalSpec
CHECK_DEADLOCK FALSE
