\* With one registration per peer, updates that hold rs.mu are atomic ones
\* (ReputationAtomic), and lose none of each other's writes.
\* Each goroutine makes MaxCalls calls, so the runs end: deadlock is not checked.
CONSTANTS
    t1 = t1
    t2 = t2
    p1 = p1
    None = None
    Threads <- MCThreads
    PeerIds <- MCPeerIds
    Ops <- MCLockedOps
    MaxCalls = 2
    MaxAdds = 1
SPECIFICATION Spec
INVARIANT TypeOK NoLostUpdate
PROPERTY AtomicRefinement
CHECK_DEADLOCK FALSE
