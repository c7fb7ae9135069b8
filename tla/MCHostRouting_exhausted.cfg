SPECIFICATION Spec
CONSTANTS
    a = a
    b = b
    m = m
    chat = chat
    ping = ping
    NoModel = NoModel
    NoHost = NoHost
    HostOrder <- MCHostOrder
    Weight <- MCWeight
    Models = {m}
    Requests = {chat, ping}
    ModelOf <- MCModelOf
    Strategy = "model_aware"
    RRPeriod = 6
PROPERTIES
    ExhaustedMeansAllTried
