SPECIFICATION FairSessionSpec
CONSTANTS
    id1 = id1
    id2 = id2
    MaxIterations = 3
    MaxRetries = 1
    ColdStart = 2
    Ids = {id1, id2}
    Batches <- MCBatches
    AgentFaults = {"connection", "server", "arguments", "mcp"}
    MaxRowLimit = 1
    RowLimits = {1}
    QueryFaults = {"disk", "crash"}
    MaxRows = 0
    MaxCalls = 2
INVARIANTS
    SessionTypeOK
    ChatWellFormed
    PrintsWhatTheModelSaw
    EmptyOnlyWhenRetried
    ResponsesWithinBudget
    PrintsTheLog
PROPERTIES
    QuestionEnds
CHECK_DEADLOCK FALSE
