SPECIFICATION MainSpec
CONSTANTS
    Clients = {c1, c2}
    Reaper = reaperTask
    IdleTimeout = 1
    BootTicks = 1
    None = None
    NoUrl = noUrl
    Url = url
    Faults = {}
INVARIANTS
    MainTypeOK
    FakeIsTrue
    ReadyMeansServing
PROPERTIES
    EveryColdStartCompletes
