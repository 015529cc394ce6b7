\* GetNetworkMetrics reports a topology consistent with its peer count,
\* a writer method runs with no reader inside the Manager, and the Manager
\* implements its atomic specification.
\* The nested read lock can deadlock (see the deadlock run), so states
\* with no successor are real and deadlock is not checked.
CONSTANTS
    t1 = t1
    t2 = t2
    p1 = p1
    p2 = p2
    p3 = p3
    p4 = p4
    None = None
    Threads <- MCThreads
    PeerIds <- MCPeerIds
    Ops <- MCAllOps
    MeshThreshold = 10
SYMMETRY MCSymmetry
SPECIFICATION Spec
INVARIANT TypeOK MetricsConsistent RWExclusive
PROPERTY AtomicManager
CHECK_DEADLOCK FALSE
