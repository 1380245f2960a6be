SPECIFICATION Spec
CONSTANTS
    Bursts <- MCBursts
    MaxBursts = 2
    Platforms <- MCPlatforms
    MaxStreams = 6
    MaxReallocs = 2
    MaxUnhandled = 2
    MaxFailures = 2
INVARIANTS TypeOK KeptWhileShown FeedbackSettled HandlesOwned
