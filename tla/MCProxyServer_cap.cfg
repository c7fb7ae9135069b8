SPECIFICATION ServerSpec
CONSTANTS
    b1 = b1
    b2 = b2
    bh = bh
    ih = ih
    a1 = a1
    batch = batch
    interactive = interactive
    None = None
    Requests = {b1, b2, ih}
    Workers = {w1, w2}
    Tasks = {w1, w2}
    Clients = {batch, interactive}
    Cap <- CapOfOne
    ClientOf <- MCClientOf
    TierOf <- MCTierOf
    NBytes <- MCNBytes
    MaxDepth <- MCMaxDepth
    MaxQueuedBytes = 8
    Watermark <- MCMaxDepth
    AccountBound = 8
    Ports = {"main"}
    PortOf <- AllOnMain
    DrainTimesOut = FALSE
INVARIANTS
    CapBlocksNobodyElse
CHECK_DEADLOCK FALSE
