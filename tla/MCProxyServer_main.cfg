SPECIFICATION FairServerSpec
CONSTANTS
    b1 = b1
    b2 = b2
    bh = bh
    ih = ih
    a1 = a1
    batch = batch
    interactive = interactive
    None = None
    Requests = {b1, b2, bh, a1}
    Workers = {w1, w2, w3}
    Tasks = {w1, w2, w3}
    Clients = {batch, interactive}
    Cap <- CapOfTwo
    ClientOf <- MCClientOf
    TierOf <- MCTierOf
    NBytes <- MCNBytes
    MaxDepth <- MCMaxDepth
    MaxQueuedBytes = 8
    Watermark <- MCMaxDepth
    AccountBound = 8
    Ports = {"main", "last"}
    PortOf <- HighOnLast
    DrainTimesOut = TRUE
INVARIANTS
    ServerTypeOK
    CapRespected
    CapCountersExact
    PermitsConserved
    WorkersInCaps
    FiguresAddUp
    ShutdownStrandsNobody
PROPERTIES
    CapWaitersProceed
    HighAnsweredInServer
    ShutdownCompletes
CHECK_DEADLOCK FALSE
