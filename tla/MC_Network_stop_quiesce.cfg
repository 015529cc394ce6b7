\* A handshake begun as Stop runs never ends.
CONSTANTS
    c1 = c1
    c2 = c2
    i1 = i1
    i2 = i2
    None = None
    Conns <- MCConns
    Ids <- MCIds
    MaxConnections = 1
    QueueSize = 1
SPECIFICATION FairSpec
PROPERTY StopQuiesces
CHECK_DEADLOCK FALSE
