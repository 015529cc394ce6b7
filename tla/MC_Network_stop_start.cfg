\* Stop before or during Start leaves the node listening.
CONSTANTS
    c1 = c1
    c2 = c2
    i1 = i1
    i2 = i2
    None = None
    Conns <- MCConns
    Ids <- MCIds
    MaxConnections = 1
    QueueSize = 1
SYMMETRY MCSymmetry
SPECIFICATION Spec
INVARIANT StopEffective
CHECK_DEADLOCK FALSE
