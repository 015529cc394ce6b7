\* Updaters follow every topology change by UpdateRouteCache; the
\* shortest-path strategy takes both of its Manager calls.
CONSTANTS
    t1 = t1  t2 = t2  u1 = u1  u2 = u2  p1 = p1  p2 = p2  p3 = p3
    None = None
    Threads <- MCThreads
    Updaters <- MCUpdaters
    PeerIds <- MCPeerIds
    Strategy = "ShortestPath"
    Invalidating = TRUE
SYMMETRY MCSymmetry
SPECIFICATION Spec
INVARIANT TypeOK CacheCoherent
