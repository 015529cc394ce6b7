------------------------- MODULE MC_ReputationSystem -------------------------
(* Small instances of ReputationSystem for TLC.                            *)
EXTENDS ReputationSystem, TLC

CONSTANTS t1, t2, p1

MCThreads == {t1, t2}
MCPeerIds == {p1}
\* Only the two methods that hold rs.mu.
MCLockedOps == LockedOps
\* Every update method.
MCAllOps == UpdateOps
=============================================================================
