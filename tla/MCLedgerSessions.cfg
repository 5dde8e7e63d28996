CONSTANTS
    s1 = s1
    s2 = s2
    o1 = o1
    o2 = o2
    o3 = o3
    f1 = f1
    f2 = f2
    f3 = f3
    Nobody = Nobody
    Sessions <- MCSessions
    Orders <- MCOrders
    Fills <- MCFills
    FillOf <- MCFillOf
    Equity = 5
    InitRows <- MCInitRows
    Plans <- MCPlans
SPECIFICATION Spec
INVARIANTS TypeOK NoOverCommit EveryFillPaidOnce HoldExplained
PROPERTIES ClosedStaysClosed EveryTransactionEnds
