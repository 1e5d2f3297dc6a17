SPECIFICATION QuerySpec
CONSTANTS
    MaxRowLimit = 2
    RowLimits <- MCRowLimits
    MaxRows = 3
    MaxCalls = 1
    QueryFaults = {}
INVARIANT LimitLowered
CHECK_DEADLOCK FALSE
