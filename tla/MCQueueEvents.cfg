SPECIFICATION FairEventSpec
CONSTANTS
    h1 = h1
    h2 = h2
    l1 = l1
    None = None
    Requests = {h1, h2, l1}
    Workers = {w1, w2}
    TierOf <- MCTierOf
    NBytes <- MCNBytes
    MaxDepth <- MCMaxDepth
    MaxQueuedBytes = 2
    Watermark <- MCWatermark
    AccountBound = 2
    Subscribed = {"queue.drained"}
INVARIANT
    PeaksReported
PROPERTIES
    HighAnswered
    PausedQueuesDrain
    DrainAnnounced
