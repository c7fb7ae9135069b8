SPECIFICATION Spec
CONSTANTS
    h1 = h1
    h2 = h2
    n1 = n1
    l1 = l1
    l2 = l2
    None = None
    Requests = {h1, n1, l1, l2}
    Workers = {w1}
    TierOf <- MCTierOf
    NBytes <- MCNBytes
    MaxDepth <- MCMaxDepth
    MaxQueuedBytes = 2
    Watermark <- MCWatermark
    AccountBound = 5
PROPERTIES
    RefusalJustified
