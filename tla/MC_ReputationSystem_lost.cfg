\* The unlocked Behavior and Decay updates overwrite a concurrent update.
CONSTANTS
    t1 = t1
    t2 = t2
    p1 = p1
    None = None
    Threads <- MCThreads
    PeerIds <- MCPeerIds
    Ops <- MCAllOps
    MaxCalls = 2
    MaxAdds = 2
SPECIFICATION Spec
INVARIANT NoLostUpdate
CHECK_DEADLOCK FALSE
