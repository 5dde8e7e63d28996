CONSTANTS
    Symbols <- MCSymbols
    Splits <- MCSplits
    Changes <- MCChanges
    Window = 2
    Lateness = 1
    High = 12
    Low = 6
    MaxQty = 1
    MaxFills = 2
    MaxDay = 4
SPECIFICATION Spec
PROPERTY SplitScalesSharesBefore
CHECK_DEADLOCK FALSE
