\* A HELLO frame rebinds another node's id to this connection.
CONSTANTS
    c1 = c1
    c2 = c2
    i1 = i1
    i2 = i2
    None = None
    Conns <- MCConns
    Ids <- MCIds
    MaxConnections = 1
    QueueSize = 1
SYMMETRY MCSymmetry
SPECIFICATION Spec
INVARIANT PeerIdentityBound
CHECK_DEADLOCK FALSE
