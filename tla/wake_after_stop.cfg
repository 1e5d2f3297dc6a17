SPECIFICATION PersistentGatewaySpec
CONSTANTS
    Clients = {c1, c2}
    Reaper = reaperTask
    IdleTimeout = 1
    None = None
    NoUrl = noUrl
    Url = url
    Faults = {}
PROPERTIES
    WakeSucceeds
