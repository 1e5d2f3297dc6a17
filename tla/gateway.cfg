SPECIFICATION FairGatewaySpec
CONSTANTS
    Clients = {c1, c2}
    Reaper = reaperTask
    IdleTimeout = 2
    None = None
    NoUrl = noUrl
    Url = url
    Faults = {"aws", "vllm", "backstop", "crash"}
INVARIANTS
    GatewayTypeOK
    ReadyHasAddress
    StoppedMeansOff
    AddressWhileLeased
PROPERTIES
    EveryRequestAnswered
    ReadyBoxGivenUp
