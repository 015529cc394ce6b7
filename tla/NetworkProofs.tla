--------------------------- MODULE NetworkProofs ---------------------------
(***************************************************************************)
(* Proofs about the session engine of Network, for every value of the     *)
(* constants that satisfies ConstAssumption.                               *)
(***************************************************************************)
EXTENDS Network, FiniteSetTheorems, TLAPS

USE ConstAssumption

\* Every step of Next, by the group of code it models.
LifeStep ==
    \/ StartContext \/ StartListen
    \/ StopCancel \/ StopListener \/ StopConns \/ StopPeers
    \/ AcceptTop \/ AcceptError
    \/ cleanInactiveConnections \/ processMessages \/ \E l \in Loops : LoopExit(l)
    \/ \E i \in Ids : SendMessage(i)
    \/ Broadcast \/ heartbeatService

LEMMA NextSplit == Next <=> LifeStep \/ \E c \in Conns : Local(c) \/ Environment(c)
  BY DEF Next, LifeStep

-----------------------------------------------------------------------------
(* Type correctness.  TypeOK is not inductive by itself: registerPeer      *)
(* indexes the tables with verified[c], which is an id only because the    *)
(* goroutine got past ReceiveHandshake.                                    *)

VerifiedInv ==
    \A c \in Conns : pc[c] \in {"register", "respond", "loop", "read"} => verified[c] \in Ids

TypeInv == TypeOK /\ VerifiedInv

LEMMA LifeStepType == TypeInv /\ LifeStep => TypeInv'
  <1> SUFFICES ASSUME TypeInv, LifeStep PROVE TypeInv'
    OBVIOUS
  <1> USE DEF TypeInv, VerifiedInv
  <1>1. CASE StartContext \/ StartListen
    BY <1>1 DEF StartContext, StartListen, TypeOK, Loops, connVars, tableVars
  <1>2. CASE StopCancel \/ StopListener \/ StopPeers
    BY <1>2 DEF StopCancel, StopListener, StopPeers, TypeOK, connVars, tableVars
  <1>3. CASE StopConns
    BY <1>3 DEF StopConns, GetConnections, TypeOK, tableVars
  <1>4. CASE AcceptTop \/ AcceptError
    BY <1>4 DEF AcceptTop, AcceptError, TypeOK, connVars, tableVars
  <1>5. CASE cleanInactiveConnections
    BY <1>5 DEF cleanInactiveConnections, TypeOK, lifeVars
  <1>6. CASE processMessages
    BY <1>6 DEF processMessages, TypeOK, lifeVars, connVars
  <1>7. CASE \E l \in Loops : LoopExit(l)
    BY <1>7 DEF LoopExit, TypeOK, connVars, tableVars
  <1>8. CASE \E i \in Ids : SendMessage(i)
    BY <1>8 DEF SendMessage, Wrote, TypeOK, lifeVars, tableVars
  <1>9. CASE Broadcast \/ heartbeatService
    BY <1>9 DEF heartbeatService, Broadcast, PoolGetPeers, Wrote, TypeOK, lifeVars, tableVars
  <1>10. QED
    BY <1>1, <1>2, <1>3, <1>4, <1>5, <1>6, <1>7, <1>8, <1>9 DEF LifeStep

LEMMA ConnStepType ==
  ASSUME TypeInv, NEW c \in Conns, Local(c) \/ Environment(c)
  PROVE  TypeInv'
  <1> USE DEF TypeInv, VerifiedInv
  <1>1. CASE AddConnection(c)
    BY <1>1 DEF AddConnection, TypeOK, ConnStates, lifeVars
  <1>2. CASE SendHandshake(c) \/ RespondHandshake(c)
    BY <1>2 DEF SendHandshake, RespondHandshake, Wrote, TypeOK, ConnStates,
                lifeVars, tableVars
  <1>3. CASE registerPeer(c)
    BY <1>3 DEF registerPeer, PoolAddPeer, TypeOK, ConnStates, lifeVars
  <1>4. CASE ReadLoopTop(c) \/ ReadFails(c) \/ HandshakeFails(c)
    BY <1>4 DEF ReadLoopTop, ReadFails, HandshakeFails, TypeOK, ConnStates,
                lifeVars, tableVars
  <1>5. CASE Teardown(c)
    BY <1>5 DEF Teardown, TypeOK, ConnStates, lifeVars
  <1>6. CASE Accept(c) \/ Connect(c)
    BY <1>6 DEF Accept, Connect, Spawn, TypeOK, ConnStates, lifeVars, tableVars
  <1>7. CASE \E i \in Ids : ReceiveHandshake(c, i)
    BY <1>7 DEF ReceiveHandshake, TypeOK, ConnStates, lifeVars, tableVars
  <1>8. CASE \E f \in Frames : ReadFrame(c, f)
    BY <1>8 DEF ReadFrame, PoolAddPeer, Frames, TypeOK, ConnStates, lifeVars
  <1>9. CASE Idle(c)
    BY <1>9 DEF Idle, TypeOK, lifeVars, tableVars
  <1>10. QED
    BY <1>1, <1>2, <1>3, <1>4, <1>5, <1>6, <1>7, <1>8, <1>9 DEF Local, Environment

LEMMA TypeInvariant == Spec => []TypeInv
  <1>1. Init => TypeInv
    BY DEF Init, TypeInv, TypeOK, VerifiedInv, ConnStates
  <1>2. TypeInv /\ [Next]_vars => TypeInv'
    BY LifeStepType, ConnStepType, NextSplit DEF vars, TypeInv, TypeOK, VerifiedInv
  <1>3. QED
    BY <1>1, <1>2, PTL DEF Spec

\* The type invariant holds in every reachable state.
THEOREM TypeCorrect == Spec => []TypeOK
  BY TypeInvariant, PTL DEF TypeInv

-----------------------------------------------------------------------------
(* The pool and registration invariants.  Together with TypeInv they are  *)
(* inductive: PoolOwned keeps a goroutine that is about to add, or has     *)
(* ended, out of the pool, and VerifiedInv gives registerPeer and the      *)
(* HELLO handler a verified connection to register.                       *)

SafetyInv == PoolCapacity /\ PoolOwned /\ RegisteredAfterVerify

\* Removing connections never breaks the capacity bound.
LEMMA ShrinkCapacity ==
  ASSUME pool \subseteq Conns, pool' \subseteq pool, PoolCapacity
  PROVE  PoolCapacity'
  <1>1. IsFiniteSet(pool) /\ Cardinality(pool) \in Nat
    BY FS_Subset, FS_CardinalityType
  <1>2. Cardinality(pool') <= Cardinality(pool)
    BY <1>1, FS_Subset
  <1>3. QED
    BY <1>1, <1>2, FS_CardinalityType, FS_Subset DEF PoolCapacity

\* AddConnection adds only below capacity, so the bound survives.
LEMMA GrowCapacity ==
  ASSUME NEW S \in SUBSET Conns, NEW x, Cardinality(S) < MaxConnections
  PROVE  Cardinality(S \cup {x}) <= MaxConnections
  <1>1. IsFiniteSet(S) /\ Cardinality(S) \in Nat
    BY FS_Subset, FS_CardinalityType
  <1>2. Cardinality(S \cup {x}) = IF x \in S THEN Cardinality(S) ELSE Cardinality(S) + 1
    BY <1>1, FS_AddElement
  <1>3. QED
    BY <1>1, <1>2, ConstAssumption

LEMMA LifeStepSafety == TypeInv /\ SafetyInv /\ LifeStep => SafetyInv'
  <1> SUFFICES ASSUME TypeInv, SafetyInv, LifeStep PROVE SafetyInv'
    OBVIOUS
  <1> USE DEF TypeInv, TypeOK, SafetyInv, PoolOwned, RegisteredAfterVerify
  <1>1. CASE cleanInactiveConnections
    <2>1. PoolCapacity'
      BY <1>1, ShrinkCapacity DEF cleanInactiveConnections
    <2>2. QED
      BY <1>1, <2>1 DEF cleanInactiveConnections, tableVars
  <1>2. CASE StopPeers
    BY <1>2 DEF StopPeers, PoolCapacity, connVars
  <1>3. CASE StartContext \/ StartListen \/ StopCancel \/ StopListener \/ StopConns
    BY <1>3 DEF StartContext, StartListen, StopCancel, StopListener, StopConns, GetConnections,
                PoolCapacity, connVars, tableVars
  <1>4. CASE AcceptTop \/ AcceptError \/ processMessages \/ \E l \in Loops : LoopExit(l)
    BY <1>4 DEF AcceptTop, AcceptError, processMessages, LoopExit, PoolCapacity,
                connVars, tableVars, lifeVars
  <1>5. CASE (\E i \in Ids : SendMessage(i)) \/ Broadcast \/ heartbeatService
    BY <1>5 DEF SendMessage, Broadcast, heartbeatService, PoolCapacity, tableVars
  <1>6. QED
    BY <1>1, <1>2, <1>3, <1>4, <1>5 DEF LifeStep

LEMMA ConnStepSafety ==
  ASSUME TypeInv, SafetyInv, NEW c \in Conns, Local(c) \/ Environment(c)
  PROVE  SafetyInv'
  <1> USE DEF TypeInv, TypeOK, VerifiedInv, SafetyInv, PoolOwned,
              RegisteredAfterVerify, Owned, ConnStates
  <1>1. CASE AddConnection(c)
    <2>1. c \notin pool
      BY <1>1 DEF AddConnection
    <2>2. CASE Cardinality(pool) >= MaxConnections
      BY <1>1, <2>1, <2>2 DEF AddConnection, PoolCapacity
    <2>3. CASE Cardinality(pool) < MaxConnections
      <3>0. pool' = pool \cup {c}
        <4>1. ~(Cardinality(pool) >= MaxConnections)
          BY <2>3, FS_Subset, FS_CardinalityType
        <4>2. QED
          BY <1>1, <4>1 DEF AddConnection
      <3>1. PoolCapacity'
        BY <3>0, <2>3, GrowCapacity DEF PoolCapacity
      <3>2. QED
        BY <1>1, <2>1, <2>3, <3>1 DEF AddConnection
    <2>4. QED
      BY <2>2, <2>3, FS_Subset, FS_CardinalityType
  <1>2. CASE Teardown(c)
    <2>1. PoolCapacity'
      BY <1>2, ShrinkCapacity DEF Teardown
    <2>2. QED
      BY <1>2, <2>1 DEF Teardown
  <1>3. CASE registerPeer(c)
    BY <1>3 DEF registerPeer, PoolAddPeer, PoolCapacity
  <1>4. CASE \E f \in Frames : ReadFrame(c, f)
    BY <1>4 DEF ReadFrame, PoolAddPeer, Frames, PoolCapacity
  <1>5. CASE \E i \in Ids : ReceiveHandshake(c, i)
    BY <1>5 DEF ReceiveHandshake, PoolCapacity, tableVars
  <1>6. CASE Accept(c) \/ Connect(c)
    BY <1>6 DEF Accept, Connect, Spawn, PoolCapacity, tableVars
  <1>7. CASE SendHandshake(c) \/ RespondHandshake(c) \/ ReadLoopTop(c)
    BY <1>7 DEF SendHandshake, RespondHandshake, ReadLoopTop, PoolCapacity, tableVars
  <1>8. CASE HandshakeFails(c) \/ ReadFails(c) \/ Idle(c)
    BY <1>8 DEF HandshakeFails, ReadFails, Idle, PoolCapacity, tableVars
  <1>9. QED
    BY <1>1, <1>2, <1>3, <1>4, <1>5, <1>6, <1>7, <1>8 DEF Local, Environment

LEMMA SafetyInvariant == Spec => [](TypeInv /\ SafetyInv)
  <1>1. Init => SafetyInv
    BY FS_EmptySet DEF Init, SafetyInv, PoolCapacity, PoolOwned, RegisteredAfterVerify
  <1>2. TypeInv /\ SafetyInv /\ [Next]_vars => SafetyInv'
    BY LifeStepSafety, ConnStepSafety, NextSplit
       DEF vars, SafetyInv, PoolCapacity, PoolOwned, RegisteredAfterVerify
  <1>3. QED
    BY <1>1, <1>2, TypeInvariant, PTL DEF Spec

\* AddConnection's check-and-insert under cp.mu keeps the pool within
\* maxConnections however accepts, dials, teardowns and sweeps interleave.
THEOREM CapacityHolds == Spec => []PoolCapacity
  BY SafetyInvariant, PTL DEF SafetyInv

\* Every path out of handleConnectionWithEncryption after a successful
\* AddConnection runs the deferred RemoveConnection: no ended goroutine
\* keeps a pool slot.
THEOREM NoLeakedSlot == Spec => []PoolOwned
  BY SafetyInvariant, PTL DEF SafetyInv

\* registerPeer and handleHelloMessage register only connections whose
\* handshake verified.
THEOREM RegistrationVerified == Spec => []RegisteredAfterVerify
  BY SafetyInvariant, PTL DEF SafetyInv

=============================================================================
