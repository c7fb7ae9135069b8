SPECIFICATION FairSpec
CONSTANTS
    a = a
    b = b
    m = m
    chat = chat
    ping = ping
    NoModel = NoModel
    NoHost = NoHost
    HostOrder <- MCHostOrder
    Weight <- MCEqualWeight
    Models = {m}
    Requests = {chat, ping}
    ModelOf <- MCModelOf
    Strategy = "model_aware"
    RRPeriod = 2
PROPERTY
    NoHostIdle
