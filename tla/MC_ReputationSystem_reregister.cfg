\* A second registerPeer's AddPeer between an update's read and write.
\* Each goroutine makes MaxCalls calls, so the runs end: deadlock is not checked.
CONSTANTS
    t1 = t1
    t2 = t2
    p1 = p1
    None = None
    Threads <- MCThreads
    PeerIds <- MCPeerIds
    Ops <- MCLockedOps
    MaxCalls = 2
    MaxAdds = 2
SPECIFICATION Spec
PROPERTY AtomicRefinement
CHECK_DEADLOCK FALSE
