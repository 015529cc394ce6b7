\* The session engine on two sockets and one id: pool capacity, no leaked
\* pool slot, no registration without a verified handshake, and, while the
\* node runs, the sweep reclaims every idle connection.
CONSTANTS
    c1 = c1
    c2 = c2
    i1 = i1
    i2 = i2
    None = None
    Conns <- MCConns
    Ids <- MCOneId
    MaxConnections = 1
    QueueSize = 1
SPECIFICATION FairSpec
INVARIANT TypeOK PoolCapacity PoolOwned RegisteredAfterVerify
PROPERTY IdleReclaimed
CHECK_DEADLOCK FALSE
