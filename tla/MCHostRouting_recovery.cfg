SPECIFICATION FairSpec
CONSTANTS
    a = a
    b = b
    m = m
    chat = chat
    ping = ping
    NoModel = NoModel
    NoHost = NoHost
    HostOrder <- MCHostOrder
    Weight <- MCWeight
    Models = {m}
    Requests = {chat}
    ModelOf <- MCModelOf
    Strategy = "model_aware"
    RRPeriod = 6
INVARIANTS
    RoutingTypeOK
    WeightedShare
PROPERTIES
    FailoverPrefersReachable
    DispatchEnds
    HostsRediscovered
    ModelsLearned
