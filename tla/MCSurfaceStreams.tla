-------------------------- MODULE MCSurfaceStreams --------------------------
EXTENDS SurfaceStreams

Advertised(dev, sampling) == [dev |-> dev, sampling |-> sampling]

\* Our GPU and one that samples; only a foreign one samples; none says it does.
MCBursts ==
    {<<Advertised("primary", TRUE), Advertised("other", TRUE)>>,
     <<Advertised("other", TRUE), Advertised("render", FALSE)>>,
     <<Advertised("render", FALSE)>>}

Platform(caps, legacy, dmabuf, offload) ==
    [caps |-> caps, legacy |-> legacy, dmabuf |-> dmabuf, prime |-> offload]

MCPlatforms ==
    {Platform({"local", "socket"}, FALSE, 6, FALSE), Platform({"local"}, FALSE, 5, TRUE),
     Platform({"local", "fd"}, TRUE, 3, FALSE),
     Platform({"socket", "fd"}, FALSE, 0, FALSE), Platform({"socket"}, TRUE, 0, FALSE),
     Platform({"fd"}, TRUE, 0, FALSE), Platform({"inet"}, FALSE, 0, FALSE),
     Platform({"inet", "fd"}, TRUE, 0, FALSE)}
=============================================================================
