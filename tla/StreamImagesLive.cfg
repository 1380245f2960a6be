SPECIFICATION FairSpec
CONSTANTS
    Image = {i1, i2, i3}
    NoImage = NoImage
    MaxStreams = 2
    MayFail = FALSE
INVARIANTS
    NoBacklog
    StreamImagesEmpty
    QueueOutlivesProxies
PROPERTIES
    SwapReturns
    PendingDestroyed
    DestroyReturns
    LoanSettles
