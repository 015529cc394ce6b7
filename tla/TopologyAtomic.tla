--------------------------- MODULE TopologyAtomic ----------------------------
(***************************************************************************)
(* What the topology Manager promises its callers (spec section 4.4): the  *)
(* peer table changes one AddPeer or RemovePeer at a time, and a           *)
(* GetNetworkMetrics call reports the peer count at one instant together   *)
(* with the classification GetTopologyType gives that count, "a pure       *)
(* function of current peer count".  The table is its key set; report[t]   *)
(* is what goroutine t's last metrics call returned, or None.              *)
(***************************************************************************)
EXTENDS Naturals, FiniteSets

CONSTANTS Threads, PeerIds, MeshThreshold, None

VARIABLES
    peers,   \* the ids in the peer table
    report   \* [Threads -> [total, type] \cup {None}]

\* The classification spec section 4.4 gives GetTopologyType: 0-3 peers
\* "star", up to the mesh threshold "full-mesh", beyond it "partial-mesh".
SpecTopology(n) ==
    CASE n \in 0..3 -> "star"
      [] n \in 4..MeshThreshold -> "full-mesh"
      [] OTHER -> "partial-mesh"

AddPeer(p) ==
    /\ peers' = peers \cup {p}
    /\ UNCHANGED report

RemovePeer(p) ==
    /\ peers' = peers \ {p}
    /\ UNCHANGED report

\* One metrics call, taken at a single instant.
Metrics(t) ==
    /\ report' = [report EXCEPT ![t] = [total |-> Cardinality(peers),
                                        type |-> SpecTopology(Cardinality(peers))]]
    /\ UNCHANGED peers

Init ==
    /\ peers = {}
    /\ report = [t \in Threads |-> None]

Next ==
    \/ \E p \in PeerIds : AddPeer(p) \/ RemovePeer(p)
    \/ \E t \in Threads : Metrics(t)

Spec == Init /\ [][Next]_<<peers, report>>
=============================================================================
