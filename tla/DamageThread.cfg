SPECIFICATION FairSpec
CONSTANT MaxFrames = 3
INVARIANTS TypeOK OneFrameAhead ThrottleKept FlushedBeforeRealloc
PROPERTIES SwapReturns JoinReturns FrameCommitted
