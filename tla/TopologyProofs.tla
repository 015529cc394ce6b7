--------------------------- MODULE TopologyProofs ----------------------------
(***************************************************************************)
(* Proofs about TopologyManager, for every set of goroutines, every set of *)
(* peer ids, every set of methods and every mesh threshold.               *)
(*                                                                         *)
(* GetNetworkMetrics reads len(t.peers) and then, in the nested           *)
(* GetTopologyType, len(t.peers) again.  Its report is consistent because  *)
(* no AddPeer or RemovePeer runs between the two reads.  That is what the  *)
(* RWMutex guarantees, and the inductive invariant says how: readers      *)
(* counts the read locks held (two for a goroutine inside a nested call),  *)
(* readerWait counts those the announced writer still waits for, and a    *)
(* writer past Lock sees no read lock held.                                *)
(***************************************************************************)
EXTENDS TopologyManager, FiniteSetTheorems, TLAPS

\* Goroutines holding the outer read lock of their call, and those that
\* hold the nested one as well.
Holding == {t \in Threads : pc[t] \in {"read", "rwait2", "inner", "outer"}}
Nested == {t \in Threads : pc[t] = "inner"}

PeersFinite == IsFiniteSet(peers)

\* readerCount is the number of read locks held.
ReadersCount == readers = Cardinality(Holding) + Cardinality(Nested)

\* A goroutine past the announcement of Lock owns rw.w.
WriterOwns == \A t \in Threads : pc[t] \in {"drain", "write"} => w = t

\* Since its announcement the writer waits for every read lock still held;
\* with no writer readerWait is back at 0.
WaitCount == IF w = None THEN readerWait = 0 ELSE readerWait = readers

\* A writer in its critical section shares it with no reader.
Exclusive == \A t \in Threads : pc[t] = "write" => readers = 0

\* Between the two reads of GetNetworkMetrics the peer count is the one
\* it counted first.
Fresh ==
    \A t \in Threads :
        pc[t] \in {"inner", "rwait2"} /\ op[t] = "GetNetworkMetrics"
            => seen[t] = Cardinality(peers)

\* A caller of a writer method passes a peer id.
WriterArg ==
    \A t \in Threads : pc[t] \in {"lock", "drain", "write"} => arg[t] \in PeerIds

IInv ==
    /\ TypeOK /\ PeersFinite /\ ReadersCount /\ WriterOwns /\ WaitCount
    /\ WriterArg
    /\ Exclusive /\ Fresh /\ MetricsConsistent

-----------------------------------------------------------------------------
(* Lemmas about the model's operators.                                     *)

\* GetTopologyType's nested IF is the spec's three-way classification.
LEMMA TopologyTypeSpec ==
    ASSUME MeshThreshold \in Nat, NEW n \in Nat
    PROVE  TopologyType(n) = SpecTopology(n)
<1>1. CASE n <= 3
  BY <1>1 DEF TopologyType, SpecTopology, Atomic!SpecTopology
<1>2. CASE n > 3 /\ n <= MeshThreshold
  BY <1>2 DEF TopologyType, SpecTopology, Atomic!SpecTopology
<1>3. CASE n > 3 /\ n > MeshThreshold
  BY <1>3 DEF TopologyType, SpecTopology, Atomic!SpecTopology
<1>4. QED
  BY <1>1, <1>2, <1>3

\* Every set of goroutines is finite and has a size.
LEMMA ThreadSet ==
    ASSUME ManagerAssumption, NEW S, S \subseteq Threads
    PROVE  IsFiniteSet(S) /\ Cardinality(S) \in Nat
BY FS_Subset, FS_CardinalityType DEF ManagerAssumption

\* A goroutine holding a read lock keeps every writer out of its
\* critical section.
LEMMA HeldExcludes ==
    ASSUME ManagerAssumption, TypeOK, ReadersCount, Exclusive,
           NEW t \in Holding
    PROVE  /\ readers >= 1
           /\ \A u \in Threads : pc[u] # "write"
<1>1. /\ Cardinality(Holding) \in Nat /\ Cardinality(Holding) >= 1
      /\ Cardinality(Nested) \in Nat
  <2>1. IsFiniteSet(Holding) /\ Holding # {}
    BY ThreadSet DEF Holding
  <2>2. Cardinality(Holding) \in Nat /\ Cardinality(Holding) # 0
    BY <2>1, ThreadSet, FS_EmptySet DEF Holding
  <2>3. QED
    BY <2>2, ThreadSet DEF Nested
<1>2. readers >= 1
  BY <1>1 DEF ReadersCount
<1>3. QED
  BY <1>2 DEF Exclusive, TypeOK

\* With no read lock held, no goroutine is in a read section.
LEMMA NoneHeld ==
    ASSUME ManagerAssumption, ReadersCount, readers = 0
    PROVE  Holding = {} /\ Nested = {}
<1>1. /\ IsFiniteSet(Holding) /\ Cardinality(Holding) \in Nat
      /\ IsFiniteSet(Nested) /\ Cardinality(Nested) \in Nat
  BY ThreadSet DEF Holding, Nested
<1>2. Cardinality(Holding) = 0 /\ Cardinality(Nested) = 0
  BY <1>1 DEF ReadersCount
<1>3. QED
  BY <1>1, <1>2, FS_EmptySet

LEMMA InitIInv == ManagerAssumption /\ Init => IInv
<1> SUFFICES ASSUME ManagerAssumption, Init PROVE IInv
  OBVIOUS
<1>1. Holding = {} /\ Nested = {}
  BY DEF Init, Holding, Nested
<1>2. readers = Cardinality(Holding) + Cardinality(Nested)
  BY <1>1, FS_EmptySet DEF Init
<1>3. TypeOK
  BY DEF Init, TypeOK
<1>4. QED
  BY <1>2, <1>3, FS_EmptySet
     DEF Init, IInv, PeersFinite, ReadersCount, WriterOwns, WaitCount,
         WriterArg, Exclusive, Fresh, MetricsConsistent

\* The writer's Unlock, whatever it did to the peer map: every parked
\* reader gets the read lock and nobody is left in a nested call.
LEMMA UnlockStep ==
    ASSUME ManagerAssumption, IInv, NEW t \in Threads, pc[t] = "write",
           Unlock(t), UNCHANGED <<op, arg, seen, report>>,
           peers' \subseteq PeerIds, IsFiniteSet(peers')
    PROVE  IInv'
<1> USE DEF IInv
<1>1. readers = 0 /\ w = t /\ readerWait = 0
  BY DEF Exclusive, WriterOwns, WaitCount, ManagerAssumption
<1>2. \A u \in Threads : pc[u] \notin {"read", "rwait2", "inner", "outer"}
  <2>1. Holding = {}
    BY <1>1, NoneHeld
  <2>2. QED
    BY <2>1 DEF Holding
<1>3. Holding' = Blocked /\ Nested' = {}
  BY <1>2 DEF Unlock, Holding, Nested, Blocked, TypeOK
<1>4. /\ IsFiniteSet(Blocked) /\ Cardinality(Blocked) \in Nat
      /\ Cardinality({}) = 0
  BY ThreadSet, FS_EmptySet DEF Blocked
<1>5. ReadersCount' /\ readers' \in Nat
  BY <1>1, <1>3, <1>4 DEF Unlock, ReadersCount
<1>6. \A u \in Threads : pc'[u] \notin {"drain", "write", "inner", "rwait2"}
  BY <1>1, <1>2 DEF Unlock, WriterOwns, TypeOK
<1>7. TypeOK'
  BY <1>5 DEF Unlock, TypeOK
<1>8. QED
  BY <1>1, <1>5, <1>6, <1>7
     DEF Unlock, PeersFinite, WriterOwns, WaitCount, WriterArg, Exclusive,
         Fresh, MetricsConsistent

\* A read-lock holder's RUnlock, when it leaves one read lock behind.
LEMMA ReleaseStep ==
    ASSUME ManagerAssumption, IInv, NEW t \in Holding, RUnlock, w' = w,
           Cardinality(Holding') + Cardinality(Nested')
               = Cardinality(Holding) + Cardinality(Nested) - 1
    PROVE  /\ ReadersCount' /\ WaitCount'
           /\ readers' \in Nat /\ readerWait' \in Nat
<1>0. /\ Cardinality(Holding) \in Nat /\ Cardinality(Nested) \in Nat
      /\ Cardinality(Holding') \in Nat /\ Cardinality(Nested') \in Nat
  BY ThreadSet DEF Holding, Nested
<1>1. readers >= 1
  BY HeldExcludes DEF IInv
<1>2. w # None => readerWait = readers
  BY DEF IInv, WaitCount
<1>3. QED
  BY <1>0, <1>1, <1>2 DEF RUnlock, IInv, TypeOK, ReadersCount, WaitCount

\* A goroutine drops one read lock and moves to "idle" or "outer": the
\* lock bookkeeping and the writer's side are preserved.
LEMMA LeaveStep ==
    ASSUME ManagerAssumption, IInv, NEW t \in Holding,
           NEW v \in {"idle", "outer"}, pc' = [pc EXCEPT ![t] = v],
           RUnlock, UNCHANGED <<op, arg, w, peers, seen>>,
           Cardinality(Holding') + Cardinality(Nested')
               = Cardinality(Holding) + Cardinality(Nested) - 1
    PROVE  /\ ReadersCount' /\ WaitCount' /\ readers' \in Nat
           /\ readerWait' \in Nat
           /\ WriterOwns' /\ WriterArg' /\ Exclusive' /\ Fresh' /\ PeersFinite'
<1> USE DEF IInv
<1>1. ReadersCount' /\ WaitCount' /\ readers' \in Nat /\ readerWait' \in Nat
  BY ReleaseStep
<1>2. \A u \in Threads : pc[u] # "write"
  BY HeldExcludes
<1>3. pc[t] \notin {"drain", "write", "lock"}
  BY DEF Holding
<1>4. WriterOwns' /\ WriterArg' /\ Exclusive'
  BY <1>2, <1>3 DEF TypeOK, WriterOwns, WriterArg, Exclusive
<1>5. Fresh' /\ PeersFinite'
  BY DEF TypeOK, Fresh, PeersFinite
<1>6. QED
  BY <1>1, <1>4, <1>5

LEMMA IStep ==
    ASSUME ManagerAssumption, IInv, [Next]_vars
    PROVE  IInv'
<1> USE DEF IInv
<1>0. /\ Cardinality(Holding) \in Nat /\ Cardinality(Nested) \in Nat
      /\ IsFiniteSet(Holding) /\ IsFiniteSet(Nested)
      /\ IsFiniteSet(peers) /\ Cardinality(peers) \in Nat
  BY ThreadSet, FS_CardinalityType DEF Holding, Nested, PeersFinite
<1>1. ASSUME NEW t \in Threads, NEW o \in Ops, NEW i \in PeerIds, Call(t, o, i)
      PROVE  IInv'
  <2>1. t \notin Holding /\ t \notin Nested /\ pc[t] = "idle"
    BY <1>1 DEF Call, Holding, Nested
  <2>2. CASE o \in WriterOps
    <3>1. pc' = [pc EXCEPT ![t] = "lock"] /\ readers' = readers
      BY <1>1, <2>2 DEF Call
    <3>2. Holding' = Holding /\ Nested' = Nested
      BY <2>1, <3>1 DEF Holding, Nested, TypeOK
    <3>3. arg' = [arg EXCEPT ![t] = i] /\ op' = [op EXCEPT ![t] = o]
          /\ UNCHANGED <<w, readers, readerWait, peers, seen, report>>
      BY <1>1, <2>2 DEF Call
    <3>4. TypeOK'
      BY <3>1, <3>3 DEF TypeOK
    <3>5. WriterOwns' /\ WriterArg' /\ Exclusive'
      BY <2>1, <3>1, <3>3 DEF TypeOK, WriterOwns, WriterArg, Exclusive
    <3>6. Fresh'
      BY <3>1, <3>3 DEF TypeOK, Fresh
    <3>7. ReadersCount' /\ WaitCount' /\ PeersFinite' /\ MetricsConsistent'
      BY <3>2, <3>3 DEF ReadersCount, WaitCount, PeersFinite, MetricsConsistent
    <3>8. QED
      BY <3>4, <3>5, <3>6, <3>7
  <2>3. CASE o \notin WriterOps /\ w = None
    <3>1. pc' = [pc EXCEPT ![t] = "read"] /\ readers' = readers + 1
      BY <1>1, <2>3 DEF Call, RLock
    <3>2. Holding' = Holding \cup {t} /\ Nested' = Nested
      BY <2>1, <3>1 DEF Holding, Nested, TypeOK
    <3>3. Cardinality(Holding') = Cardinality(Holding) + 1
      BY <1>0, <2>1, <3>2, FS_AddElement
    <3>4. \A u \in Threads : pc[u] \notin {"drain", "write"}
      BY <2>3, ManagerAssumption DEF WriterOwns, ManagerAssumption
    <3>5. arg' = [arg EXCEPT ![t] = None] /\ op' = [op EXCEPT ![t] = o]
          /\ UNCHANGED <<w, readerWait, peers, seen, report>>
      BY <1>1, <2>3 DEF Call
    <3>6. TypeOK'
      BY <3>1, <3>5 DEF TypeOK
    <3>7. WriterOwns' /\ WriterArg' /\ Exclusive' /\ Fresh'
      BY <3>1, <3>4, <3>5 DEF TypeOK, WriterOwns, WriterArg, Exclusive, Fresh
    <3>8. ReadersCount' /\ WaitCount'
      BY <1>0, <2>3, <3>1, <3>2, <3>3, <3>5 DEF ReadersCount, WaitCount
    <3>9. QED
      BY <3>5, <3>6, <3>7, <3>8 DEF PeersFinite, MetricsConsistent
  <2>4. CASE o \notin WriterOps /\ w # None
    <3>1. pc' = [pc EXCEPT ![t] = "rwait"] /\ readers' = readers
      BY <1>1, <2>4 DEF Call, RLock
    <3>2. Holding' = Holding /\ Nested' = Nested
      BY <2>1, <3>1 DEF Holding, Nested, TypeOK
    <3>3. arg' = [arg EXCEPT ![t] = None] /\ op' = [op EXCEPT ![t] = o]
          /\ UNCHANGED <<w, readerWait, peers, seen, report>>
      BY <1>1, <2>4 DEF Call
    <3>4. TypeOK'
      BY <3>1, <3>3 DEF TypeOK
    <3>5. WriterOwns' /\ WriterArg' /\ Exclusive' /\ Fresh'
      BY <2>1, <3>1, <3>3 DEF TypeOK, WriterOwns, WriterArg, Exclusive, Fresh
    <3>6. QED
      BY <3>1, <3>2, <3>3, <3>4, <3>5
         DEF PeersFinite, ReadersCount, WaitCount, MetricsConsistent
  <2>5. QED
    BY <2>2, <2>3, <2>4
<1>2. ASSUME NEW t \in Threads, LockAnnounce(t) PROVE IInv'
  <2>1. Holding' = Holding /\ Nested' = Nested
    BY <1>2 DEF LockAnnounce, Holding, Nested, TypeOK
  <2>2. \A u \in Threads : pc[u] \notin {"drain", "write"}
    BY <1>2, ManagerAssumption DEF LockAnnounce, WriterOwns, ManagerAssumption
  <2>3. w' # None
    BY <1>2 DEF LockAnnounce, ManagerAssumption
  <2>4. QED
    BY <1>2, <2>1, <2>2, <2>3
       DEF LockAnnounce, TypeOK, PeersFinite, ReadersCount, WriterOwns,
           WaitCount, WriterArg, Exclusive, Fresh, MetricsConsistent
<1>3. ASSUME NEW t \in Threads, LockDrained(t) PROVE IInv'
  <2>1. Holding' = Holding /\ Nested' = Nested
    BY <1>3 DEF LockDrained, Holding, Nested, TypeOK
  <2>2. w = t /\ w # None
    BY <1>3 DEF LockDrained, WriterOwns, ManagerAssumption
  <2>3. readers = 0
    BY <1>3, <2>2 DEF LockDrained, WaitCount
  <2>4. QED
    BY <1>3, <2>1, <2>2, <2>3
       DEF LockDrained, TypeOK, PeersFinite, ReadersCount, WriterOwns,
           WaitCount, WriterArg, Exclusive, Fresh, MetricsConsistent
<1>4. ASSUME NEW t \in Threads, AddPeer(t) PROVE IInv'
  <2>1. arg[t] \in PeerIds
    BY <1>4 DEF AddPeer, WriterArg
  <2>2. peers' \subseteq PeerIds /\ IsFiniteSet(peers')
    BY <1>0, <1>4, <2>1, FS_AddElement DEF AddPeer, TypeOK
  <2>3. QED
    BY <1>4, <2>2, UnlockStep DEF AddPeer
<1>5. ASSUME NEW t \in Threads, RemovePeer(t) PROVE IInv'
  <2>1. peers' \subseteq PeerIds /\ IsFiniteSet(peers')
    BY <1>0, <1>5, FS_RemoveElement DEF RemovePeer, TypeOK
  <2>2. QED
    BY <1>5, <2>1, UnlockStep DEF RemovePeer
<1>6. ASSUME NEW t \in Threads, UpdatePeerField(t) PROVE IInv'
  BY <1>6, UnlockStep DEF UpdatePeerField, PeersFinite, TypeOK
<1>7. ASSUME NEW t \in Threads, PlainRead(t) PROVE IInv'
  <2>1. t \in Holding /\ t \notin Nested
    BY <1>7 DEF PlainRead, Holding, Nested
  <2>2. Holding' = Holding \ {t} /\ Nested' = Nested
    BY <1>7, <2>1 DEF PlainRead, Holding, Nested, TypeOK
  <2>3. Cardinality(Holding') + Cardinality(Nested')
            = Cardinality(Holding) + Cardinality(Nested) - 1
    <3>1. Cardinality(Holding') = Cardinality(Holding) - 1
      BY <1>0, <2>1, <2>2, FS_RemoveElement
    <3>2. QED
      BY <1>0, <2>2, <3>1
  <2>4. /\ ReadersCount' /\ WaitCount' /\ readers' \in Nat
        /\ readerWait' \in Nat
        /\ WriterOwns' /\ WriterArg' /\ Exclusive' /\ Fresh' /\ PeersFinite'
    BY <1>7, <2>1, <2>3, LeaveStep DEF PlainRead
  <2>5. QED
    BY <1>7, <2>4 DEF PlainRead, TypeOK, MetricsConsistent
<1>8. ASSUME NEW t \in Threads, OuterReturn(t) PROVE IInv'
  <2>1. t \in Holding /\ t \notin Nested
    BY <1>8 DEF OuterReturn, Holding, Nested
  <2>2. Holding' = Holding \ {t} /\ Nested' = Nested
    BY <1>8, <2>1 DEF OuterReturn, Holding, Nested, TypeOK
  <2>3. Cardinality(Holding') + Cardinality(Nested')
            = Cardinality(Holding) + Cardinality(Nested) - 1
    <3>1. Cardinality(Holding') = Cardinality(Holding) - 1
      BY <1>0, <2>1, <2>2, FS_RemoveElement
    <3>2. QED
      BY <1>0, <2>2, <3>1
  <2>4. /\ ReadersCount' /\ WaitCount' /\ readers' \in Nat
        /\ readerWait' \in Nat
        /\ WriterOwns' /\ WriterArg' /\ Exclusive' /\ Fresh' /\ PeersFinite'
    BY <1>8, <2>1, <2>3, LeaveStep DEF OuterReturn
  <2>5. QED
    BY <1>8, <2>4 DEF OuterReturn, TypeOK, MetricsConsistent
<1>9. ASSUME NEW t \in Threads, MetricsTopology(t) \/ OptimalRank(t)
      PROVE  IInv'
  <2>1. t \in Holding /\ t \in Nested /\ pc' = [pc EXCEPT ![t] = "outer"]
        /\ RUnlock /\ UNCHANGED <<op, arg, w, peers, seen>>
    BY <1>9 DEF MetricsTopology, OptimalRank, Holding, Nested
  <2>2. Holding' = Holding /\ Nested' = Nested \ {t}
    BY <2>1 DEF Holding, Nested, TypeOK
  <2>3. Cardinality(Holding') + Cardinality(Nested')
            = Cardinality(Holding) + Cardinality(Nested) - 1
    <3>1. Cardinality(Nested') = Cardinality(Nested) - 1
      BY <1>0, <2>1, <2>2, FS_RemoveElement
    <3>2. QED
      BY <1>0, <2>2, <3>1
  <2>4. /\ ReadersCount' /\ WaitCount' /\ readers' \in Nat
        /\ readerWait' \in Nat
        /\ WriterOwns' /\ WriterArg' /\ Exclusive' /\ Fresh' /\ PeersFinite'
    BY <2>1, <2>3, LeaveStep
  <2>5. CASE OptimalRank(t)
    BY <2>1, <2>4, <2>5 DEF OptimalRank, TypeOK, MetricsConsistent
  <2>6. CASE MetricsTopology(t)
    <3> DEFINE r == [total |-> seen[t],
                     type |-> TopologyType(Cardinality(peers))]
    <3>1. report' = [report EXCEPT ![t] = r]
      BY <2>6 DEF MetricsTopology
    <3>2. seen[t] = Cardinality(peers)
      BY <2>1, <2>6 DEF MetricsTopology, Fresh, TypeOK
    <3>3. r.type = SpecTopology(r.total) /\ r.total \in Nat
      BY <1>0, <3>2, TopologyTypeSpec DEF ManagerAssumption
    <3>4. r \in Reports
      BY <3>3 DEF Reports, TopologyType
    <3>5. TypeOK'
      BY <2>1, <2>4, <3>1, <3>4 DEF TypeOK
    <3>6. MetricsConsistent'
      BY <3>1, <3>3 DEF TypeOK, MetricsConsistent
    <3>7. QED
      BY <2>4, <3>5, <3>6
  <2>7. QED
    BY <1>9, <2>5, <2>6
<1>11. ASSUME NEW t \in Threads, MetricsScan(t) \/ OptimalScan(t)
       PROVE  IInv'
  <2>1. /\ t \in Holding /\ t \notin Nested /\ pc[t] = "read"
        /\ \A u \in Threads : pc[u] # "write"
    BY <1>11, HeldExcludes DEF MetricsScan, OptimalScan, Holding, Nested
  <2>2. /\ seen' = [seen EXCEPT ![t] = Cardinality(peers)] \/ seen' = seen
        /\ MetricsScan(t) => seen'[t] = Cardinality(peers)
        /\ UNCHANGED <<op, arg, w, readerWait, peers, report>>
    BY <1>11 DEF MetricsScan, OptimalScan, TypeOK
  <2>3. TypeOK' /\ WriterOwns' /\ WriterArg' /\ Exclusive' /\ Fresh'
        /\ PeersFinite' /\ MetricsConsistent'
        /\ pc' \in [Threads -> {"idle", "lock", "drain", "write", "read",
                                "rwait", "rwait2", "inner", "outer"}]
    <3>1. pc' = [pc EXCEPT ![t] = "inner"] \/ pc' = [pc EXCEPT ![t] = "rwait2"]
      BY <1>11 DEF MetricsScan, OptimalScan, RLock
    <3>2. readers' \in Nat
      BY <1>11 DEF MetricsScan, OptimalScan, RLock, TypeOK
    <3>3. seen' \in [Threads -> Nat]
      BY <1>0, <2>2 DEF TypeOK
    <3>4. \A u \in Threads \ {t} : pc'[u] = pc[u] /\ seen'[u] = seen[u]
      BY <2>2, <3>1 DEF TypeOK
    <3>5. op[t] = "GetNetworkMetrics" => seen'[t] = Cardinality(peers')
      BY <1>11, <2>2 DEF OptimalScan
    <3>6. QED
      BY <2>1, <2>2, <3>1, <3>2, <3>3, <3>4, <3>5
         DEF TypeOK, WriterOwns, WriterArg, Exclusive, Fresh, PeersFinite,
             MetricsConsistent
  <2>4. CASE w = None
    <3>1. pc' = [pc EXCEPT ![t] = "inner"] /\ readers' = readers + 1
      BY <1>11, <2>4 DEF MetricsScan, OptimalScan, RLock
    <3>2. Holding' = Holding /\ Nested' = Nested \cup {t}
      BY <2>1, <3>1 DEF Holding, Nested, TypeOK
    <3>3. Cardinality(Nested') = Cardinality(Nested) + 1
      BY <1>0, <2>1, <3>2, FS_AddElement
    <3>4. ReadersCount' /\ WaitCount'
      BY <1>0, <2>2, <2>4, <3>1, <3>2, <3>3 DEF ReadersCount, WaitCount
    <3>5. QED
      BY <2>3, <3>4
  <2>5. CASE w # None
    <3>1. pc' = [pc EXCEPT ![t] = "rwait2"] /\ readers' = readers
      BY <1>11, <2>5 DEF MetricsScan, OptimalScan, RLock
    <3>2. Holding' = Holding /\ Nested' = Nested
      BY <2>1, <3>1 DEF Holding, Nested, TypeOK
    <3>3. ReadersCount' /\ WaitCount'
      BY <2>2, <3>1, <3>2 DEF ReadersCount, WaitCount
    <3>4. QED
      BY <2>3, <3>3
  <2>6. QED
    BY <2>4, <2>5
<1>12. CASE UNCHANGED vars
  <2>1. Holding' = Holding /\ Nested' = Nested
    BY <1>12 DEF vars, Holding, Nested
  <2>2. QED
    BY <1>12, <2>1
       DEF vars, TypeOK, PeersFinite, ReadersCount, WriterOwns, WaitCount,
           WriterArg, Exclusive, Fresh, MetricsConsistent
<1>10. QED
  BY <1>1, <1>2, <1>3, <1>4, <1>5, <1>6, <1>7, <1>8, <1>9, <1>11, <1>12
     DEF Next, Step

-----------------------------------------------------------------------------
\* For every set of goroutines, peers and methods, every variable of the
\* Manager model keeps its type: in particular readerCount and readerWait
\* never go below zero, whatever readers and writers interleave.
THEOREM TypeCorrect == Spec => []TypeOK
<1>1. ManagerAssumption /\ Init => IInv
  BY InitIInv
<1>2. ManagerAssumption /\ IInv /\ [Next]_vars => IInv'
  BY IStep
<1>3. IInv => TypeOK
  BY DEF IInv
<1>4. QED
  BY <1>1, <1>2, <1>3, ManagerAssumption, PTL DEF Spec

\* For every mesh threshold, every GetNetworkMetrics report pairs
\* total_peers with the topology_type the spec gives that count: the outer
\* read lock, held across the nested GetTopologyType, keeps AddPeer and
\* RemovePeer out between the two reads of len(t.peers).
THEOREM Consistent == Spec => []MetricsConsistent
<1>1. ManagerAssumption /\ Init => IInv
  BY InitIInv
<1>2. ManagerAssumption /\ IInv /\ [Next]_vars => IInv'
  BY IStep
<1>3. IInv => MetricsConsistent
  BY DEF IInv
<1>4. QED
  BY <1>1, <1>2, <1>3, ManagerAssumption, PTL DEF Spec

\* For every instance, a writer method's body runs with every other
\* goroutine idle, waiting in Lock or parked in its first RLock: the
\* announcement makes new readers park, readerWait counts down the read
\* locks held at that moment, and Lock returns only when it reaches 0.
THEOREM WriterExcludes == Spec => []RWExclusive
<1>1. IInv => RWExclusive
  <2> SUFFICES ASSUME ManagerAssumption, IInv,
                      NEW t \in Threads, pc[t] = "write",
                      NEW u \in Threads \ {t}
               PROVE  pc[u] \in {"idle", "lock", "rwait"}
    BY ManagerAssumption DEF RWExclusive
  <2>1. Holding = {}
    BY NoneHeld DEF IInv, Exclusive
  <2>2. pc[u] \notin {"drain", "write"}
    BY DEF IInv, WriterOwns
  <2>3. QED
    BY <2>1, <2>2 DEF IInv, TypeOK, Holding
<1>2. QED
  BY <1>1, InitIInv, IStep, ManagerAssumption, PTL DEF Spec

-----------------------------------------------------------------------------
(* The refinement of TopologyAtomic.                                       *)

\* The abstract module's Cardinality, reached through the instance, is
\* FiniteSets' Cardinality.
LEMMA CardinalityInstance == \A S : Atomic!Cardinality(S) = Cardinality(S)
BY DEF Atomic!Cardinality, Cardinality

LEMMA MapInit == Init => Atomic!Init
BY DEF Init, Atomic!Init

\* Every step is an atomic AddPeer, RemovePeer or metrics call, or leaves
\* the peer table and the reports alone.
LEMMA MapStep ==
    ASSUME ManagerAssumption, IInv, [Next]_vars
    PROVE  [Atomic!Next]_<<peers, report>>
<1> USE DEF IInv
<1>1. ASSUME NEW t \in Threads, AddPeer(t) PROVE Atomic!Next
  <2>1. arg[t] \in PeerIds
    BY <1>1 DEF AddPeer, WriterArg
  <2>2. Atomic!AddPeer(arg[t])
    BY <1>1 DEF AddPeer, Atomic!AddPeer
  <2>3. QED
    BY <2>1, <2>2 DEF Atomic!Next
<1>2. ASSUME NEW t \in Threads, RemovePeer(t) PROVE Atomic!Next
  <2>1. arg[t] \in PeerIds
    BY <1>2 DEF RemovePeer, WriterArg
  <2>2. Atomic!RemovePeer(arg[t])
    BY <1>2 DEF RemovePeer, Atomic!RemovePeer
  <2>3. QED
    BY <2>1, <2>2 DEF Atomic!Next
<1>3. ASSUME NEW t \in Threads, MetricsTopology(t) PROVE Atomic!Next
  <2>1. seen[t] = Cardinality(peers) /\ Cardinality(peers) \in Nat
    BY <1>3, FS_CardinalityType DEF MetricsTopology, Fresh, PeersFinite
  <2>2. TopologyType(Cardinality(peers)) = SpecTopology(Cardinality(peers))
    BY <2>1, TopologyTypeSpec DEF ManagerAssumption
  <2>3. /\ report' = [report EXCEPT ![t] =
                        [total |-> Cardinality(peers),
                         type |-> SpecTopology(Cardinality(peers))]]
        /\ peers' = peers
    BY <1>3, <2>1, <2>2 DEF MetricsTopology
  <2>4. Atomic!Metrics(t)
    BY <2>3, CardinalityInstance DEF Atomic!Metrics, SpecTopology
  <2>5. QED
    BY <2>4 DEF Atomic!Next
<1>4. ASSUME NEW t \in Threads,
             \/ \E o \in Ops, i \in PeerIds : Call(t, o, i)
             \/ LockAnnounce(t) \/ LockDrained(t) \/ UpdatePeerField(t)
             \/ PlainRead(t) \/ MetricsScan(t) \/ OptimalScan(t)
             \/ OptimalRank(t) \/ OuterReturn(t)
      PROVE  UNCHANGED <<peers, report>>
  BY <1>4 DEF Call, LockAnnounce, LockDrained, UpdatePeerField, PlainRead,
              MetricsScan, OptimalScan, OptimalRank, OuterReturn
<1>5. CASE UNCHANGED vars
  BY <1>5 DEF vars
<1>6. QED
  BY <1>1, <1>2, <1>3, <1>4, <1>5 DEF Next, Step

\* For every instance, the Manager under concurrent callers implements
\* TopologyAtomic: its RWMutex makes every AddPeer, RemovePeer and
\* GetNetworkMetrics look like one atomic step on the peer table.
THEOREM Refinement == Spec => AtomicManager
<1>1. ManagerAssumption /\ Init => IInv /\ Atomic!Init
  BY InitIInv, MapInit
<1>2. ManagerAssumption /\ IInv /\ [Next]_vars
          => IInv' /\ [Atomic!Next]_<<peers, report>>
  BY IStep, MapStep
<1>3. QED
  BY <1>1, <1>2, ManagerAssumption, PTL DEF Spec, AtomicManager, Atomic!Spec

=============================================================================
