SPECIFICATION FairSpec
CONSTANTS
    Image = {i1, i2, i3, i4}
    NoImage = NoImage
    WaitAt = 3
    MaxFrames = 5
    MaxFailures = 1
INVARIANTS TypeOK ReleasedIdle AcquireFenceKept DriverHasImage
PROPERTY SwapReturns
CHECK_DEADLOCK FALSE
