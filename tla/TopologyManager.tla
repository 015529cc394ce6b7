--------------------------- MODULE TopologyManager ---------------------------
(***************************************************************************)
(* The topology Manager of src/pkg/p2p/topology/manager.go under          *)
(* concurrent callers.  Every method takes t.mu, a sync.RWMutex, for its   *)
(* whole body (defer Unlock); GetNetworkMetrics and                       *)
(* GetOptimalPeersForBroadcast call GetTopologyType and GetBestPeers while *)
(* holding the read lock, so they take it a second time.                  *)
(*                                                                         *)
(* The lock is modelled by what sync.RWMutex does: Lock first takes the   *)
(* writer mutex rw.w, then announces itself (from then on every RLock     *)
(* blocks) and waits for the readers it counted (readerWait) to leave;    *)
(* Unlock releases every reader that blocked meanwhile before the next    *)
(* writer can announce.  The peer map is abstracted to its key set: the   *)
(* quality, reputation and load fields change no lock behaviour and no    *)
(* reported count, and only GetNetworkMetrics' report is kept of the      *)
(* results.                                                               *)
(***************************************************************************)
EXTENDS Naturals, FiniteSets

CONSTANTS
    Threads,       \* goroutines calling Manager methods
    PeerIds,       \* peer ids passed to AddPeer / RemovePeer
    Ops,           \* the methods those goroutines call
    MeshThreshold, \* t.meshThreshold (10, set by NewManager)
    None

WriterOps == {"AddPeer", "RemovePeer", "UpdatePeerQuality",
              "UpdatePeerReputation", "UpdatePeerLoad"}
PlainReadOps == {"GetBestPeers", "GetTopologyType", "GetRoute", "GetPeerInfo",
                 "GetConnectedPeers", "GetPeerCount"}
NestedOps == {"GetNetworkMetrics", "GetOptimalPeersForBroadcast"}
UpdateOps == {"UpdatePeerQuality", "UpdatePeerReputation", "UpdatePeerLoad"}

ASSUME ManagerAssumption ==
    /\ IsFiniteSet(Threads)
    /\ Ops \subseteq WriterOps \cup PlainReadOps \cup NestedOps
    /\ MeshThreshold \in Nat
    /\ None \notin PeerIds \cup Threads

VARIABLES
    pc,          \* [Threads -> ...] where each goroutine is in its call
    op,          \* [Threads -> Ops \cup {None}] the method being run
    arg,         \* [Threads -> PeerIds \cup {None}] its peer id argument
    w,           \* the goroutine holding rw.w (an announced writer), or None
    readers,     \* read locks held (readerCount with no writer pending)
    readerWait,  \* readers the announced writer still waits for
    peers,       \* DOMAIN t.peers
    seen,        \* [Threads -> Nat] totalPeers counted by GetNetworkMetrics
    report       \* [Threads -> ...] last result of GetNetworkMetrics

vars == <<pc, op, arg, w, readers, readerWait, peers, seen, report>>

\* Goroutines parked in RLock: on the outer call, or on the nested one
\* while they already hold a read lock.
Blocked == {t \in Threads : pc[t] \in {"rwait", "rwait2"}}

\* Variant: the star bound is exclusive (< for <=).
TopologyTypeOffByOne(n) ==
    IF n < 3 THEN "star"
    ELSE IF n <= MeshThreshold THEN "full-mesh"
    ELSE "partial-mesh"

\* GetTopologyType's classification of a peer count.
TopologyType(n) ==
    IF n <= 3 THEN "star"
    ELSE IF n <= MeshThreshold THEN "full-mesh"
    ELSE "partial-mesh"

Reports == [total : Nat, type : {"star", "full-mesh", "partial-mesh"}]

Init ==
    /\ pc = [t \in Threads |-> "idle"]
    /\ op = [t \in Threads |-> None]
    /\ arg = [t \in Threads |-> None]
    /\ w = None
    /\ readers = 0
    /\ readerWait = 0
    /\ peers = {}
    /\ seen = [t \in Threads |-> 0]
    /\ report = [t \in Threads |-> None]

-----------------------------------------------------------------------------
(* sync.RWMutex.                                                           *)

\* RLock: granted unless a writer has announced itself, else park.
RLock(t, next, park) ==
    IF w = None
      THEN /\ readers' = readers + 1
           /\ pc' = [pc EXCEPT ![t] = next]
      ELSE /\ pc' = [pc EXCEPT ![t] = park]
           /\ UNCHANGED readers

\* RUnlock: a reader leaving while a writer waits counts down readerWait.
RUnlock ==
    /\ readers' = readers - 1
    /\ readerWait' = IF w # None THEN readerWait - 1 ELSE readerWait

\* Variant: Lock announces itself and enters without waiting for readers.
LockAnnounceNoDrain(t) ==
    /\ pc[t] = "lock"
    /\ w = None
    /\ w' = t
    /\ readerWait' = readers
    /\ pc' = [pc EXCEPT ![t] = "write"]
    /\ UNCHANGED <<op, arg, readers, peers, seen, report>>

\* Lock, once rw.w is taken: announce, and wait only if readers hold it.
LockAnnounce(t) ==
    /\ pc[t] = "lock"
    /\ w = None
    /\ w' = t
    /\ readerWait' = readers
    /\ pc' = [pc EXCEPT ![t] = IF readers = 0 THEN "write" ELSE "drain"]
    /\ UNCHANGED <<op, arg, readers, peers, seen, report>>

\* Variant: the writer proceeds without waiting for readerWait to drain.
LockDrainedNoWait(t) ==
    /\ pc[t] = "drain"
    /\ pc' = [pc EXCEPT ![t] = "write"]
    /\ UNCHANGED <<op, arg, w, readers, readerWait, peers, seen, report>>

\* The last departing reader wakes the writer.
LockDrained(t) ==
    /\ pc[t] = "drain"
    /\ readerWait = 0
    /\ pc' = [pc EXCEPT ![t] = "write"]
    /\ UNCHANGED <<op, arg, w, readers, readerWait, peers, seen, report>>

\* Unlock: the parked readers get the lock, then rw.w is released; the
\* writer's own call returns.
Unlock(t) ==
    /\ w' = None
    /\ readers' = readers + Cardinality(Blocked)
    /\ pc' = [u \in Threads |->
                IF u = t THEN "idle"
                ELSE IF pc[u] = "rwait" THEN "read"
                ELSE IF pc[u] = "rwait2" THEN "inner"
                ELSE pc[u]]
    /\ UNCHANGED readerWait

-----------------------------------------------------------------------------
(* The Manager's methods.                                                  *)

\* A goroutine calls method o; a writer blocks in Lock, a reader runs RLock.
Call(t, o, i) ==
    /\ pc[t] = "idle"
    /\ o \in Ops
    /\ op' = [op EXCEPT ![t] = o]
    /\ IF o \in WriterOps
         THEN /\ arg' = [arg EXCEPT ![t] = i]
              /\ pc' = [pc EXCEPT ![t] = "lock"]
              /\ UNCHANGED readers
         ELSE /\ arg' = [arg EXCEPT ![t] = None]
              /\ RLock(t, "read", "rwait")
    /\ UNCHANGED <<w, readerWait, peers, seen, report>>

\* AddPeer: t.peers[peer.ID] = info (a new or replaced entry).
AddPeer(t) ==
    /\ pc[t] = "write"
    /\ op[t] = "AddPeer"
    /\ peers' = peers \cup {arg[t]}
    /\ Unlock(t)
    /\ UNCHANGED <<op, arg, seen, report>>

\* RemovePeer: delete(t.peers, peerID).
RemovePeer(t) ==
    /\ pc[t] = "write"
    /\ op[t] = "RemovePeer"
    /\ peers' = peers \ {arg[t]}
    /\ Unlock(t)
    /\ UNCHANGED <<op, arg, seen, report>>

\* UpdatePeerQuality, UpdatePeerReputation, UpdatePeerLoad: set a field of
\* the entry if it exists; the key set is unchanged.
UpdatePeerField(t) ==
    /\ pc[t] = "write"
    /\ op[t] \in UpdateOps
    /\ Unlock(t)
    /\ UNCHANGED <<op, arg, peers, seen, report>>

\* Variant: an explicit RUnlock on top of the deferred one.
PlainReadDoubleUnlock(t) ==
    /\ pc[t] = "read"
    /\ op[t] \in PlainReadOps
    /\ readers' = readers - 2
    /\ readerWait' = IF w # None THEN readerWait - 2 ELSE readerWait
    /\ pc' = [pc EXCEPT ![t] = "idle"]
    /\ UNCHANGED <<op, arg, w, peers, seen, report>>

\* Variant: the getter's loop never terminates, holding the read lock.
PlainReadSpin(t) ==
    /\ pc[t] = "read"
    /\ op[t] \in PlainReadOps
    /\ UNCHANGED vars

\* GetBestPeers, GetTopologyType, GetRoute, GetPeerInfo, GetConnectedPeers,
\* GetPeerCount called from outside: read the map and RUnlock.
PlainRead(t) ==
    /\ pc[t] = "read"
    /\ op[t] \in PlainReadOps
    /\ RUnlock
    /\ pc' = [pc EXCEPT ![t] = "idle"]
    /\ UNCHANGED <<op, arg, w, peers, seen, report>>

\* GetNetworkMetrics: count the peers, then call GetTopologyType, whose
\* RLock parks behind an announced writer although this goroutine already
\* holds the read lock that writer waits for.
MetricsScan(t) ==
    /\ pc[t] = "read"
    /\ op[t] = "GetNetworkMetrics"
    /\ seen' = [seen EXCEPT ![t] = Cardinality(peers)]
    /\ RLock(t, "inner", "rwait2")
    /\ UNCHANGED <<op, arg, w, readerWait, peers, report>>

\* GetOptimalPeersForBroadcast: call GetBestPeers(len(t.peers)).
OptimalScan(t) ==
    /\ pc[t] = "read"
    /\ op[t] = "GetOptimalPeersForBroadcast"
    /\ RLock(t, "inner", "rwait2")
    /\ UNCHANGED <<op, arg, w, readerWait, peers, seen, report>>

\* The nested GetTopologyType returns; the metrics map is built from it.
MetricsTopology(t) ==
    /\ pc[t] = "inner"
    /\ op[t] = "GetNetworkMetrics"
    /\ report' = [report EXCEPT ![t] = [total |-> seen[t],
                                        type |-> TopologyType(Cardinality(peers))]]
    /\ RUnlock
    /\ pc' = [pc EXCEPT ![t] = "outer"]
    /\ UNCHANGED <<op, arg, w, peers, seen>>

\* The nested GetBestPeers returns its ranking.
OptimalRank(t) ==
    /\ pc[t] = "inner"
    /\ op[t] = "GetOptimalPeersForBroadcast"
    /\ RUnlock
    /\ pc' = [pc EXCEPT ![t] = "outer"]
    /\ UNCHANGED <<op, arg, w, peers, seen, report>>

\* The outer deferred RUnlock of either nested method.
OuterReturn(t) ==
    /\ pc[t] = "outer"
    /\ RUnlock
    /\ pc' = [pc EXCEPT ![t] = "idle"]
    /\ UNCHANGED <<op, arg, w, peers, seen, report>>

-----------------------------------------------------------------------------
Step(t) ==
    \/ LockAnnounce(t) \/ LockDrained(t)
    \/ AddPeer(t) \/ RemovePeer(t) \/ UpdatePeerField(t)
    \/ PlainRead(t)
    \/ MetricsScan(t) \/ OptimalScan(t) \/ MetricsTopology(t) \/ OptimalRank(t)
    \/ OuterReturn(t)

Next ==
    \E t \in Threads :
        \/ \E o \in Ops, i \in PeerIds : Call(t, o, i)
        \/ Step(t)

Spec == Init /\ [][Next]_vars

(***************************************************************************)
(* Fairness: a runnable goroutine is eventually scheduled (WF on its       *)
(* steps).  Taking rw.w is strongly fair: sync.Mutex switches to starvation*)
(* mode and hands the mutex to a waiter that has waited over 1ms.  Calls   *)
(* are made by the callers and are not fair.                               *)
(***************************************************************************)
Fairness ==
    \A t \in Threads :
        /\ SF_vars(LockAnnounce(t))
        /\ WF_vars(Step(t))

FairSpec == Spec /\ Fairness

-----------------------------------------------------------------------------
TypeOK ==
    /\ pc \in [Threads -> {"idle", "lock", "drain", "write", "read", "rwait",
                           "rwait2", "inner", "outer"}]
    /\ op \in [Threads -> Ops \cup {None}]
    /\ arg \in [Threads -> PeerIds \cup {None}]
    /\ w \in Threads \cup {None}
    /\ readers \in Nat
    /\ readerWait \in Nat
    /\ peers \subseteq PeerIds
    /\ seen \in [Threads -> Nat]
    /\ report \in [Threads -> Reports \cup {None}]

\* The Manager as its callers see it: the peer table and the metrics
\* reports, each method one atomic step.
Atomic == INSTANCE TopologyAtomic WITH peers <- peers, report <- report

SpecTopology(n) == Atomic!SpecTopology(n)

\* Every GetNetworkMetrics report is self-consistent: its topology_type is
\* the spec's classification of the total_peers it reports.  It rests on
\* GetTopologyType's thresholds and on the outer read lock, held across the
\* nested call, keeping AddPeer and RemovePeer out between the two reads.
MetricsConsistent ==
    \A t \in Threads :
        report[t] # None => report[t].type = SpecTopology(report[t].total)

\* sync.RWMutex's exclusion as the Manager relies on it: while a writer
\* method (AddPeer, RemovePeer, UpdatePeer*) runs its body, every other
\* goroutine is idle, waiting in Lock or parked in its first RLock.  None
\* is inside a getter, and none holds the outer read lock of
\* GetNetworkMetrics or GetOptimalPeersForBroadcast, parked or not.
RWExclusive ==
    \A t \in Threads : pc[t] = "write" =>
        \A u \in Threads \ {t} : pc[u] \in {"idle", "lock", "rwait"}

\* The Manager implements TopologyAtomic: AddPeer and RemovePeer change
\* the key set inside their write lock, and every GetNetworkMetrics report
\* is the one an atomic call would have returned at the moment the nested
\* GetTopologyType reads len(t.peers).  Every other step leaves the table
\* and the reports alone.
AtomicManager == Atomic!Spec

\* Every call of a Manager method returns: no goroutine waits forever on
\* t.mu, whatever readers and writers interleave.
CallsReturn == \A t \in Threads : pc[t] # "idle" ~> pc[t] = "idle"

=============================================================================
