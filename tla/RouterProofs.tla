---------------------------- MODULE RouterProofs ----------------------------
(***************************************************************************)
(* TLAPS proofs about Router: the state keeps its type, and, when every   *)
(* topology change is followed by UpdateRouteCache, the route cache is     *)
(* coherent with the Manager's peers, for every strategy, every number of  *)
(* RouteMessage callers and updaters and every finite set of peer ids.     *)
(***************************************************************************)
EXTENDS Router, FiniteSetTheorems, TLAPS

\* No updater has a change whose invalidation is still to come.
AllIdle == \A u \in Updaters : upc[u] = "idle"

\* RouteMessage holds r.mu for writing from LockRecheck's miss to Store.
Holding(t) == pc[t] \in {"compute", "best", "store"}

\* The strengthening of TypeOK and CacheCoherent that is inductive.  The
\* write lock is held by exactly the thread between LockRecheck and Store,
\* so UpdateRouteCache cannot run while a route is being computed; and a
\* change made meanwhile keeps its updater out of "idle" until the
\* invalidation that follows the Store.
Mutex == \A t \in Threads : Holding(t) <=> rHolder = t
Targeted == \A t \in Threads : pc[t] # "idle" => tgt[t] \in PeerIds
BestShortest == \A t \in Threads : pc[t] = "best" => Strategy = "ShortestPath"
PendingValid ==
    AllIdle => \A t \in Threads :
         /\ pc[t] = "store" => ValidRoute(tgt[t], route[t], peers)
         /\ pc[t] = "best" => tgt[t] \notin peers

IInv == TypeOK /\ Mutex /\ Targeted /\ BestShortest /\ CacheCoherent /\ PendingValid

-----------------------------------------------------------------------------
\* The strategy's bound on a route's length is 1, 2 or 3.
LEMMA MaxRouteType == MaxRoute \in 1..3
  BY RouterAssumption DEF MaxRoute, Strategies

\* A result of GetBestPeers(n) with n no wider than the strategy's bound
\* is a route of the type.
LEMMA BestInRoutes ==
    ASSUME NEW n \in Nat, n <= MaxRoute, NEW P \in SUBSET PeerIds
    PROVE  BestPeers(n, P) \subseteq Routes
  <1> SUFFICES ASSUME NEW r \in BestPeers(n, P) PROVE r \in Routes
    OBVIOUS
  <1>1. Cardinality(P) \in Nat
    BY RouterAssumption, FS_Subset, FS_CardinalityType
  <1>2. Cardinality(r) <= n
    BY <1>1 DEF BestPeers
  <1>3. r \subseteq PeerIds
    BY DEF BestPeers
  <1>4. Cardinality(r) \in Nat
    BY <1>3, RouterAssumption, FS_Subset, FS_CardinalityType
  <1>5. QED
    BY <1>2, <1>3, <1>4, MaxRouteType DEF Routes

\* directRoute returns at most the one target.
LEMMA DirectInRoutes ==
    ASSUME NEW p \in PeerIds, NEW P
    PROVE  directRoute(p, P) \in Routes
  <1>1. CASE p \in P
    <2>1. Cardinality({p}) = 1
      BY FS_Singleton
    <2>2. QED
      BY <1>1, <2>1, MaxRouteType DEF directRoute, Routes
  <1>2. CASE p \notin P
    <2>1. Cardinality({}) = 0
      BY FS_EmptySet
    <2>2. QED
      BY <1>2, <2>1, MaxRouteType DEF directRoute, Routes
  <1>3. QED
    BY <1>1, <1>2

\* Each strategy's widths fit its bound.
LEMMA Widths ==
    /\ Strategy = "Gossip" => 3 <= MaxRoute
    /\ Strategy = "ShortestPath" => FallbackWidth <= MaxRoute
  BY RouterAssumption DEF MaxRoute, FallbackWidth, Strategies

-----------------------------------------------------------------------------
\* The initial state: an empty cache and idle goroutines.
LEMMA InitIInv == Init => IInv
  <1> SUFFICES ASSUME Init PROVE IInv
    OBVIOUS
  <1>1. {} \in Routes
    BY FS_EmptySet, MaxRouteType DEF Routes
  <1>2. TypeOK
    BY <1>1, RouterAssumption DEF Init, TypeOK
  <1>3. QED
    BY <1>2, RouterAssumption DEF Init, IInv, Mutex, Holding, Targeted,
       BestShortest, CacheCoherent, PendingValid, AllIdle

\* The facts every case of the step proof expands.
LEMMA NoneNotThread == None \notin Threads /\ None \notin PeerIds
  BY RouterAssumption

\* Every step of RouteMessage, of a topology change and of
\* UpdateRouteCache keeps IInv, when updaters invalidate after a change.
LEMMA IInvStep ==
    ASSUME IInv, Invalidating, [Next]_vars
    PROVE  IInv'
  <1> USE NoneNotThread DEF IInv
  <1>1. ASSUME NEW t \in Threads, NEW p \in PeerIds, Lookup(t, p) PROVE IInv'
    <2>1. pc[t] = "idle" /\ rHolder = None
      BY <1>1 DEF Lookup
    <2>2. pc' = [pc EXCEPT ![t] = IF cache[p] # None THEN "idle" ELSE "lock"]
          /\ tgt' = [tgt EXCEPT ![t] = p]
          /\ UNCHANGED <<route, rHolder, cache, peers, upc>>
      BY <1>1 DEF Lookup
    <2>3. TypeOK'
      BY <2>2 DEF TypeOK
    <2>4. Mutex'
      BY <2>1, <2>2 DEF Mutex, Holding, TypeOK
    <2>5. Targeted' /\ BestShortest'
      BY <2>2 DEF Targeted, BestShortest, TypeOK
    <2>6. CacheCoherent'
      BY <2>2 DEF CacheCoherent
    <2>7. PendingValid'
      BY <2>2 DEF PendingValid, AllIdle, TypeOK
    <2>8. QED
      BY <2>3, <2>4, <2>5, <2>6, <2>7
  <1>2. ASSUME NEW t \in Threads, LockRecheck(t) PROVE IInv'
    <2>1. pc[t] = "lock" /\ rHolder = None /\ tgt[t] \in PeerIds
      BY <1>2 DEF LockRecheck, Targeted, TypeOK
    <2>2. \A x \in Threads : ~Holding(x)
      BY <2>1 DEF Mutex
    <2>3. UNCHANGED <<tgt, route, cache, peers, upc>>
      BY <1>2 DEF LockRecheck
    <2>4. CASE cache[tgt[t]] # None
      <3>1. pc' = [pc EXCEPT ![t] = "idle"] /\ UNCHANGED rHolder
        BY <1>2, <2>4 DEF LockRecheck
      <3>2. QED
        BY <2>1, <2>2, <2>3, <3>1 DEF TypeOK, Mutex, Holding, Targeted,
           BestShortest, CacheCoherent, PendingValid, AllIdle
    <2>5. CASE cache[tgt[t]] = None
      <3>1. pc' = [pc EXCEPT ![t] = "compute"] /\ rHolder' = t
        BY <1>2, <2>5 DEF LockRecheck
      <3>2. QED
        BY <2>1, <2>2, <2>3, <3>1 DEF TypeOK, Mutex, Holding, Targeted,
           BestShortest, CacheCoherent, PendingValid, AllIdle
    <2>6. QED
      BY <2>4, <2>5
  <1>3. ASSUME NEW t \in Threads, Compute(t) PROVE IInv'
    <2>1. pc[t] = "compute" /\ tgt[t] \in PeerIds /\ rHolder = t
      BY <1>3 DEF Compute, Targeted, Mutex, Holding
    <2>2. UNCHANGED <<tgt, rHolder, cache, peers, upc>>
      BY <1>3 DEF Compute
    <2>3. peers \subseteq PeerIds
      BY DEF TypeOK
    \* The route and the next pc the strategy's CASE arm sets.
    <2>4. PICK r \in Routes, q \in {"store", "best"} :
            /\ route' = [route EXCEPT ![t] = r]
            /\ pc' = [pc EXCEPT ![t] = q]
            /\ q = "best" => Strategy = "ShortestPath" /\ tgt[t] \notin peers
            /\ q = "store" => ValidRoute(tgt[t], r, peers)
      <3>1. CASE Strategy = "Direct"
        <4>1. directRoute(tgt[t], peers) \in Routes
          BY <2>1, DirectInRoutes
        <4>2. QED
          BY <1>3, <3>1, <4>1 DEF Compute, ValidRoute
      <3>2. CASE Strategy = "Gossip"
        <4>1. PICK r \in BestPeers(3, peers) : route' = [route EXCEPT ![t] = r]
          BY <1>3, <3>2 DEF Compute
        <4>2. r \in Routes
          BY <2>3, <3>2, Widths, BestInRoutes
        <4>3. pc' = [pc EXCEPT ![t] = "store"]
          BY <1>3, <3>2 DEF Compute
        <4>4. QED
          BY <3>2, <4>1, <4>2, <4>3 DEF ValidRoute
      <3>3. CASE Strategy = "ShortestPath"
        <4>1. directRoute(tgt[t], peers) \in Routes
          BY <2>1, DirectInRoutes
        <4>2. route' = [route EXCEPT ![t] = directRoute(tgt[t], peers)]
              /\ pc' = [pc EXCEPT ![t] = IF tgt[t] \in peers THEN "store" ELSE "best"]
          BY <1>3, <3>3 DEF Compute
        <4>3. QED
          BY <3>3, <4>1, <4>2 DEF ValidRoute, directRoute
      <3>4. QED
        BY <3>1, <3>2, <3>3, RouterAssumption DEF Strategies
    <2>5. TypeOK'
      BY <2>2, <2>4 DEF TypeOK
    <2>6. Mutex'
      BY <2>1, <2>2, <2>4 DEF Mutex, Holding, TypeOK
    <2>7. Targeted' /\ BestShortest'
      BY <2>1, <2>2, <2>4 DEF Targeted, BestShortest, TypeOK
    <2>8. CacheCoherent'
      BY <2>2 DEF CacheCoherent
    <2>9. PendingValid'
      BY <2>1, <2>2, <2>4 DEF PendingValid, AllIdle, TypeOK
    <2>10. QED
      BY <2>5, <2>6, <2>7, <2>8, <2>9
  <1>4. ASSUME NEW t \in Threads, ComputeBest(t) PROVE IInv'
    <2>1. pc[t] = "best" /\ tgt[t] \in PeerIds /\ rHolder = t
          /\ Strategy = "ShortestPath"
      BY <1>4 DEF ComputeBest, Targeted, Mutex, Holding, BestShortest
    <2>2. PICK r \in BestPeers(FallbackWidth, peers) : route' = [route EXCEPT ![t] = r]
      BY <1>4 DEF ComputeBest
    <2>3. pc' = [pc EXCEPT ![t] = "store"]
          /\ UNCHANGED <<tgt, rHolder, cache, peers, upc>>
      BY <1>4 DEF ComputeBest
    <2>4. r \in Routes
      BY <2>1, Widths, BestInRoutes DEF TypeOK, FallbackWidth
    <2>5. AllIdle => ValidRoute(tgt[t], r, peers)
      BY <2>1, <2>2 DEF PendingValid, ValidRoute, FallbackWidth
    <2>6. TypeOK'
      BY <2>2, <2>3, <2>4 DEF TypeOK
    <2>7. Mutex' /\ Targeted' /\ BestShortest'
      BY <2>1, <2>3 DEF Mutex, Holding, Targeted, BestShortest, TypeOK
    <2>8. CacheCoherent'
      BY <2>3 DEF CacheCoherent
    <2>9. PendingValid'
      BY <2>2, <2>3, <2>5 DEF PendingValid, AllIdle, TypeOK
    <2>10. QED
      BY <2>6, <2>7, <2>8, <2>9
  <1>5. ASSUME NEW t \in Threads, Store(t) PROVE IInv'
    <2>1. pc[t] = "store" /\ tgt[t] \in PeerIds /\ rHolder = t
      BY <1>5 DEF Store, Targeted, Mutex, Holding
    <2>2. \A x \in Threads : x # t => ~Holding(x)
      BY <2>1 DEF Mutex
    <2>3. /\ cache' = [cache EXCEPT ![tgt[t]] = route[t]]
          /\ rHolder' = None
          /\ pc' = [pc EXCEPT ![t] = "idle"]
          /\ UNCHANGED <<tgt, route, peers, upc>>
      BY <1>5 DEF Store
    <2>4. TypeOK'
      BY <2>1, <2>3 DEF TypeOK
    <2>5. Mutex' /\ Targeted' /\ BestShortest'
      BY <2>1, <2>2, <2>3 DEF Mutex, Holding, Targeted, BestShortest, TypeOK
    <2>6. CacheCoherent'
      BY <2>1, <2>3 DEF CacheCoherent, PendingValid, AllIdle, TypeOK
    <2>7. PendingValid'
      BY <2>3 DEF PendingValid, AllIdle, TypeOK
    <2>8. QED
      BY <2>4, <2>5, <2>6, <2>7
  <1>6. ASSUME NEW u \in Updaters, NEW p \in PeerIds, PeerChange(u, p) PROVE IInv'
    <2>1. upc'[u] = "inval" /\ UNCHANGED <<pc, tgt, route, rHolder, cache>>
      BY <1>6 DEF PeerChange, TypeOK
    <2>2. ~AllIdle'
      BY <2>1 DEF AllIdle
    <2>3. TypeOK'
      BY <1>6 DEF PeerChange, TypeOK
    <2>4. Mutex' /\ Targeted' /\ BestShortest'
      BY <2>1 DEF Mutex, Holding, Targeted, BestShortest
    <2>5. CacheCoherent' /\ PendingValid'
      BY <2>2 DEF CacheCoherent, PendingValid, AllIdle
    <2>6. QED
      BY <2>3, <2>4, <2>5
  <1>7. ASSUME NEW u \in Updaters, UpdateRouteCache(u) PROVE IInv'
    <2>1. rHolder = None
      BY <1>7 DEF UpdateRouteCache
    <2>2. \A x \in Threads : ~Holding(x)
      BY <2>1 DEF Mutex
    <2>3. cache' = [x \in PeerIds |-> None]
          /\ UNCHANGED <<pc, tgt, route, rHolder, peers>>
      BY <1>7 DEF UpdateRouteCache
    <2>4. TypeOK'
      BY <1>7 DEF UpdateRouteCache, TypeOK
    <2>5. Mutex' /\ Targeted' /\ BestShortest'
      BY <2>3 DEF Mutex, Holding, Targeted, BestShortest
    <2>6. CacheCoherent'
      BY <2>3 DEF CacheCoherent
    <2>7. PendingValid'
      BY <2>2, <2>3 DEF PendingValid, Holding
    <2>8. QED
      BY <2>4, <2>5, <2>6, <2>7
  <1>8. CASE UNCHANGED vars
    BY <1>8 DEF vars, TypeOK, Mutex, Holding, Targeted, BestShortest,
       CacheCoherent, PendingValid, AllIdle
  <1>9. QED
    BY <1>1, <1>2, <1>3, <1>4, <1>5, <1>6, <1>7, <1>8 DEF Next

-----------------------------------------------------------------------------
\* The state of RouteMessage, the route cache and the updaters keeps its
\* type under every interleaving, for every strategy.
THEOREM TypeCorrect ==
    ASSUME Invalidating
    PROVE  Spec => []TypeOK
  <1>1. Spec => []IInv
    BY InitIInv, IInvStep, PTL DEF Spec
  <1>2. QED
    BY <1>1, PTL DEF IInv

\* When every topology change is followed by UpdateRouteCache, every
\* cached route is one the strategy could compute on the current peers,
\* however RouteMessage's two look-ups and Manager calls interleave with
\* the changes: the theorem behind run route_coherent, for every strategy
\* and every number of goroutines and peers.
THEOREM Coherent ==
    ASSUME Invalidating
    PROVE  Spec => []CacheCoherent
  <1>1. Spec => []IInv
    BY InitIInv, IInvStep, PTL DEF Spec
  <1>2. QED
    BY <1>1, PTL DEF IInv

=============================================================================
