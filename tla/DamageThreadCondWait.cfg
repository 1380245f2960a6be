SPECIFICATION FairSpec
CONSTANT MaxFrames = 3
PROPERTY CondWaitEnds
