SPECIFICATION FairControllerSpec
CONSTANTS
    Clients = {c1, c2, c3}
    Reaper = reaperTask
    IdleTimeout = 2
    None = None
INVARIANTS
    ControllerTypeOK
    BackendSerial
PROPERTIES
    LeaseHonoured
    StartsOnce
    EnsureReadyReturns
    IdleReaped
    ReaperObeysStop
