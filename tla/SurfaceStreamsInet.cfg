SPECIFICATION Spec
CONSTANTS
    Bursts <- MCBursts
    MaxBursts = 1
    Platforms <- MCPlatforms
    MaxStreams = 6
    MaxReallocs = 0
    MaxUnhandled = 1
    MaxFailures = 0
INVARIANT InetAccepted
