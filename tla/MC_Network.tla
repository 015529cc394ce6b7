----------------------------- MODULE MC_Network -----------------------------
(* Small instance of Network for TLC: two sockets, two claimable node    *)
(* ids, a pool of one connection (the second socket meets a full pool)   *)
(* and a message queue of one (a second queued frame is dropped).        *)
EXTENDS Network, TLC

CONSTANTS c1, c2, i1, i2

MCConns == {c1, c2}
MCIds == {i1, i2}
\* One id is enough where no property compares two peers.
MCOneId == {i1}

\* Sockets and ids are interchangeable: no definition names one of them.
MCSymmetry == Permutations(MCConns) \cup Permutations(MCIds)
=============================================================================
