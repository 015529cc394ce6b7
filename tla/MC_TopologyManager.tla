------------------------- MODULE MC_TopologyManager -------------------------
(* Small instances of TopologyManager for TLC.                             *)
EXTENDS TopologyManager, TLC

CONSTANTS t1, t2, p1, p2, p3, p4

MCThreads == {t1, t2}
MCPeerIds == {p1, p2, p3, p4}
\* Every method, the two that re-enter the read lock included.
MCAllOps == WriterOps \cup PlainReadOps \cup NestedOps
\* Every method except the two that re-enter the read lock.
MCFlatOps == WriterOps \cup PlainReadOps
\* The calls that reach the recursive read lock: registerPeer's AddPeer
\* against a metrics poll.
MCMetricsOps == {"AddPeer", "GetNetworkMetrics"}
MCSymmetry == Permutations(MCThreads) \cup Permutations(MCPeerIds)
=============================================================================
