SPECIFICATION QuerySpec
CONSTANTS
    MaxRowLimit = 2
    RowLimits <- MCRowLimits
    MaxRows = 3
    MaxCalls = 2
    QueryFaults = {"disk", "crash"}
INVARIANTS
    QueryTypeOK
    ResultsAudited
    AuditTruthful
    OneLinePerCall
    CompleteUnlessTruncated
    ResultBounded
PROPERTIES
    ReleasesOnlyAudited
CHECK_DEADLOCK FALSE
