------------------------------- MODULE Router -------------------------------
(***************************************************************************)
(* The Router of src/pkg/p2p/topology/routing.go: RouteMessage with its   *)
(* double-checked route cache under r.mu, the three strategies computed   *)
(* from the topology Manager, and UpdateRouteCache, which clears the      *)
(* cache.  The Manager is its peer set; its own lock makes each Manager   *)
(* call one step.  GetBestPeers(n) is any min(n, |peers|) known peers:    *)
(* scores are not modelled, and with equal scores the order of            *)
(* sort.Slice over a map is not fixed either.                              *)
(*                                                                         *)
(* Updaters are the goroutines that change the peer set (registerPeer's   *)
(* AddPeer, a RemovePeer).  With Invalidating they follow each change by  *)
(* UpdateRouteCache, as spec section 4.5 asks of the caller; without it   *)
(* they do what the code does, where nothing calls UpdateRouteCache.      *)
(***************************************************************************)
EXTENDS Naturals, FiniteSets

CONSTANTS
    Threads,      \* goroutines calling RouteMessage
    Updaters,     \* goroutines changing the Manager's peers
    PeerIds,
    Strategy,     \* r.strategy
    Invalidating, \* whether updaters call UpdateRouteCache after a change
    None

Strategies == {"Direct", "Gossip", "ShortestPath"}

ASSUME RouterAssumption ==
    /\ Strategy \in Strategies
    /\ Invalidating \in BOOLEAN
    /\ IsFiniteSet(PeerIds)
    /\ None \notin PeerIds \cup Threads

VARIABLES
    pc,       \* [Threads -> ...] where each RouteMessage call is
    tgt,      \* [Threads -> PeerIds \cup {None}] its targetID
    route,    \* [Threads -> SUBSET PeerIds] the route being computed
    rHolder,  \* the goroutine holding r.mu for writing, or None
    cache,    \* [PeerIds -> SUBSET PeerIds \cup {None}] r.routeCache
    peers,    \* DOMAIN of the Manager's t.peers
    upc       \* [Updaters -> {"idle", "inval"}]

vars == <<pc, tgt, route, rHolder, cache, peers, upc>>

\* The results GetBestPeers(n) can return on the peer set P.
BestPeers(n, P) ==
    {r \in SUBSET P : Cardinality(r) = IF Cardinality(P) < n THEN Cardinality(P) ELSE n}

\* directRoute: [target] if the Manager knows it, else nil.
directRoute(p, P) == IF p \in P THEN {p} ELSE {}

\* Variant: the fallback of shortestPathRoute asks for three best peers.
FallbackWidthOffByOne == 3

\* shortestPathRoute falls back to GetBestPeers(2).
FallbackWidth == 2

\* The longest route a strategy returns: [target], GetBestPeers(3), and
\* for shortest-path GetBestPeers(2).
MaxRoute == CASE Strategy = "Direct" -> 1
              [] Strategy = "Gossip" -> 3
              [] Strategy = "ShortestPath" -> 2

Routes == {r \in SUBSET PeerIds : Cardinality(r) <= MaxRoute}

Init ==
    /\ pc = [t \in Threads |-> "idle"]
    /\ tgt = [t \in Threads |-> None]
    /\ route = [t \in Threads |-> {}]
    /\ rHolder = None
    /\ cache = [p \in PeerIds |-> None]
    /\ peers = {}
    /\ upc = [u \in Updaters |-> "idle"]

-----------------------------------------------------------------------------
(* RouteMessage.                                                           *)

\* The RLock section: a cache hit returns the cached route; a miss goes on
\* to Lock.  RLock waits while a writer holds r.mu.
Lookup(t, p) ==
    /\ pc[t] = "idle"
    /\ rHolder = None
    /\ tgt' = [tgt EXCEPT ![t] = p]
    /\ pc' = [pc EXCEPT ![t] = IF cache[p] # None THEN "idle" ELSE "lock"]
    /\ UNCHANGED <<route, rHolder, cache, peers, upc>>

\* r.mu.Lock() and the second look-up.
LockRecheck(t) ==
    /\ pc[t] = "lock"
    /\ rHolder = None
    /\ IF cache[tgt[t]] # None
         THEN /\ pc' = [pc EXCEPT ![t] = "idle"]
              /\ UNCHANGED rHolder
         ELSE /\ rHolder' = t
              /\ pc' = [pc EXCEPT ![t] = "compute"]
    /\ UNCHANGED <<tgt, route, cache, peers, upc>>

\* The strategy's first Manager call: directRoute's GetPeerInfo,
\* gossipRoute's GetBestPeers(3), shortestPathRoute's GetPeerInfo.
Compute(t) ==
    /\ pc[t] = "compute"
    /\ CASE Strategy = "Direct" ->
              /\ route' = [route EXCEPT ![t] = directRoute(tgt[t], peers)]
              /\ pc' = [pc EXCEPT ![t] = "store"]
         [] Strategy = "Gossip" ->
              /\ \E r \in BestPeers(3, peers) : route' = [route EXCEPT ![t] = r]
              /\ pc' = [pc EXCEPT ![t] = "store"]
         [] Strategy = "ShortestPath" ->
              /\ route' = [route EXCEPT ![t] = directRoute(tgt[t], peers)]
              /\ pc' = [pc EXCEPT ![t] = IF tgt[t] \in peers THEN "store" ELSE "best"]
    /\ UNCHANGED <<tgt, rHolder, cache, peers, upc>>

\* shortestPathRoute for an unknown target: GetBestPeers(2), a second
\* Manager call, so the peers may have changed since GetPeerInfo.
ComputeBest(t) ==
    /\ pc[t] = "best"
    /\ \E r \in BestPeers(FallbackWidth, peers) : route' = [route EXCEPT ![t] = r]
    /\ pc' = [pc EXCEPT ![t] = "store"]
    /\ UNCHANGED <<tgt, rHolder, cache, peers, upc>>

\* r.routeCache[targetID] = route, the deferred Unlock, and return.
Store(t) ==
    /\ pc[t] = "store"
    /\ cache' = [cache EXCEPT ![tgt[t]] = route[t]]
    /\ rHolder' = None
    /\ pc' = [pc EXCEPT ![t] = "idle"]
    /\ UNCHANGED <<tgt, route, peers, upc>>

-----------------------------------------------------------------------------
(* The goroutines that change the topology.                                *)

\* Manager.AddPeer or Manager.RemovePeer of p.
PeerChange(u, p) ==
    /\ upc[u] = "idle"
    /\ peers' = IF p \in peers THEN peers \ {p} ELSE peers \cup {p}
    /\ upc' = [upc EXCEPT ![u] = IF Invalidating THEN "inval" ELSE "idle"]
    /\ UNCHANGED <<pc, tgt, route, rHolder, cache>>

\* Variant: UpdateRouteCache swaps the map without taking r.mu.
UpdateRouteCacheUnlocked(u) ==
    /\ upc[u] = "inval"
    /\ cache' = [p \in PeerIds |-> None]
    /\ upc' = [upc EXCEPT ![u] = "idle"]
    /\ UNCHANGED <<pc, tgt, route, rHolder, peers>>

\* UpdateRouteCache: under r.mu, a fresh empty map.  The write lock waits
\* for RouteMessage's writer and readers; each reader section is one step.
UpdateRouteCache(u) ==
    /\ upc[u] = "inval"
    /\ rHolder = None
    /\ cache' = [p \in PeerIds |-> None]
    /\ upc' = [upc EXCEPT ![u] = "idle"]
    /\ UNCHANGED <<pc, tgt, route, rHolder, peers>>

Next ==
    \/ \E t \in Threads :
         \/ \E p \in PeerIds : Lookup(t, p)
         \/ LockRecheck(t) \/ Compute(t) \/ ComputeBest(t) \/ Store(t)
    \/ \E u \in Updaters :
         \/ \E p \in PeerIds : PeerChange(u, p)
         \/ UpdateRouteCache(u)

Spec == Init /\ [][Next]_vars

-----------------------------------------------------------------------------
TypeOK ==
    /\ pc \in [Threads -> {"idle", "lock", "compute", "best", "store"}]
    /\ tgt \in [Threads -> PeerIds \cup {None}]
    /\ route \in [Threads -> Routes]
    /\ rHolder \in Threads \cup {None}
    /\ cache \in [PeerIds -> Routes \cup {None}]
    /\ peers \subseteq PeerIds
    /\ upc \in [Updaters -> {"idle", "inval"}]

\* What spec section 4.5 says a strategy returns for target p on peers P.
ValidRoute(p, r, P) ==
    CASE Strategy = "Direct" -> r = directRoute(p, P)
      [] Strategy = "Gossip" -> r \in BestPeers(3, P)
      [] Strategy = "ShortestPath" ->
           IF p \in P THEN r = {p} ELSE r \in BestPeers(2, P)

\* Once every topology change has been followed by its UpdateRouteCache,
\* every cached route is one the strategy could return on the current
\* peers: no route computed before a change survives its invalidation,
\* however RouteMessage's two look-ups, its Manager calls and the store
\* interleave with the change and the invalidation.
CacheCoherent ==
    (\A u \in Updaters : upc[u] = "idle") =>
        \A p \in PeerIds : cache[p] # None => ValidRoute(p, cache[p], peers)

=============================================================================
