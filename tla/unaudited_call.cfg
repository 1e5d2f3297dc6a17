SPECIFICATION QuerySpec
CONSTANTS
    MaxRowLimit = 2
    RowLimits <- MCRowLimits
    MaxRows = 3
    MaxCalls = 1
    QueryFaults = {}
INVARIANT EveryCallAudited
CHECK_DEADLOCK FALSE
