CONSTANTS
    AAPL = AAPL
    Positions <- MCOne
    Qty = 2
    Orders <- MCFour
    MaxSessions = 2
SPECIFICATION Spec
INVARIANTS TypeOK UpKnowsItsOrders
PROPERTIES FinalVerificationCovers RearmNeverDoubles
CHECK_DEADLOCK FALSE
