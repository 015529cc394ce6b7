\* Without the two re-entrant methods every Manager call returns.
CONSTANTS
    t1 = t1
    t2 = t2
    p1 = p1
    p2 = p2
    p3 = p3
    p4 = p4
    None = None
    Threads <- MCThreads
    PeerIds <- MCPeerIds
    Ops <- MCFlatOps
    MeshThreshold = 10
SPECIFICATION FairSpec
PROPERTY CallsReturn
