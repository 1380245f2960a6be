SPECIFICATION PFairSpec
CONSTANT MaxFrames = 3
INVARIANT EveryPresentReported
PROPERTY WaitAllReturnsUnthreaded
CHECK_DEADLOCK FALSE
