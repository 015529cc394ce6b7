------------------------------ MODULE MC_Router ------------------------------
(* Model values for Router: two RouteMessage callers, two updaters, three *)
(* peer ids, enough for GetBestPeers(2) to choose among.                  *)
EXTENDS Router, TLC

CONSTANTS t1, t2, u1, u2, p1, p2, p3

MCThreads == {t1, t2}
MCUpdaters == {u1, u2}
MCPeerIds == {p1, p2, p3}

\* Callers, updaters and peer ids are each interchangeable.
MCSymmetry == Permutations(MCThreads) \cup Permutations(MCUpdaters)
              \cup Permutations(MCPeerIds)
=============================================================================
