SPECIFICATION ServerSpec
CONSTANTS
    b1 = b1
    b2 = b2
    bh = bh
    ih = ih
    a1 = a1
    batch = batch
    interactive = interactive
    None = None
    Requests = {ih}
    Workers = {w1}
    Tasks = {w1}
    Clients = {batch, interactive}
    Cap <- CapOfOne
    ClientOf <- MCClientOf
    TierOf <- MCTierOf
    NBytes <- MCNBytes
    MaxDepth <- MCMaxDepth
    MaxQueuedBytes = 8
    Watermark <- MCMaxDepth
    AccountBound = 8
    Ports = {"main", "last", "other"}
    PortOf <- HighOnOther
    DrainTimesOut = FALSE
INVARIANTS
    ShutdownStrandsNobody
CHECK_DEADLOCK FALSE
