-------------------------- MODULE ReputationProofs --------------------------
(***************************************************************************)
(* Proofs about ReputationSystem, for every set of goroutines and peers   *)
(* and every bound.  The runs of MC_ReputationSystem check the same       *)
(* properties on two goroutines and one peer.                             *)
(***************************************************************************)
EXTENDS ReputationSystem, SequenceTheorems, TLAPS

\* A goroutine inside an update call holds its arguments and call number.
Started == \A t \in Threads : pc[t] # "idle" =>
              /\ target[t] \in PeerIds
              /\ op[t] \in Ops
              /\ calls[t] \in 1..MaxCalls

TInv == TypeOK /\ Started

\* rs.mu: a goroutine between GetPeerInfo and UpdatePeerReputation of a
\* locked method holds it (so at most one goroutine is there).
Owned == \A t \in Threads : pc[t] \in {"read", "write"} => rsOwner = t

\* The value a writer read already holds every update applied since the
\* entry was created.
SnapCovers == \A t \in Threads : pc[t] = "write" =>
                 applied[target[t]] \subseteq Folded(snap[t])

LInv == TInv /\ Owned /\ SnapCovers /\ NoLostUpdate

\* An id that was never registered has no entry.
Fresh == \A p \in PeerIds : adds[p] = 0 => entry[p] = None

\* A writer's peer has been registered.
WriterAdded == \A t \in Threads : pc[t] = "write" => adds[target[t]] >= 1

\* With one registration per id, the value a writer read is still the
\* value of the entry it will write, if that entry still exists.
SnapCurrent == \A t \in Threads :
                 pc[t] = "write" /\ entry[target[t]] # None =>
                    snap[t] = entry[target[t]].rep

RInv == LInv /\ Fresh /\ WriterAdded /\ SnapCurrent

-----------------------------------------------------------------------------
\* Appending an update adds exactly that update to the ones folded in.
LEMMA FoldedAppend ==
    ASSUME NEW S, NEW s \in Seq(S), NEW c \in S
    PROVE  Folded(Append(s, c)) = Folded(s) \cup {c}
<1>1. /\ Len(Append(s, c)) = Len(s) + 1
      /\ \A k \in 1..Len(s) : Append(s, c)[k] = s[k]
      /\ Append(s, c)[Len(s) + 1] = c
  BY AppendProperties
<1>2. Len(s) \in Nat
  BY LenProperties
<1>3. QED
  BY <1>1, <1>2 DEF Folded

\* The value read from an entry, and an appended one, are sequences of calls.
LEMMA EntryRep ==
    ASSUME TypeOK, NEW p \in PeerIds, entry[p] # None
    PROVE  /\ entry[p] \in Entries
           /\ entry[p].rep \in Seq(Calls)
BY DEF TypeOK, Entries

\* Setting the reputation of an entry to a sequence of calls keeps it an entry.
LEMMA SetRep ==
    ASSUME NEW r \in Entries, NEW s \in Seq(Calls)
    PROVE  /\ [r EXCEPT !.rep = s] \in Entries
           /\ [r EXCEPT !.rep = s].rep = s
<1>1. r = [born |-> r.born, rep |-> r.rep]
  BY DEF Entries
<1>2. [r EXCEPT !.rep = s] = [born |-> r.born, rep |-> s]
  BY <1>1
<1>3. QED
  BY <1>2 DEF Entries

LEMMA InitTInv == Init => TInv
BY ReputationAssumption DEF Init, TInv, TypeOK, Started

LEMMA TStep == TInv /\ [Next]_vars => TInv'
<1> SUFFICES ASSUME TInv, [Next]_vars PROVE TInv'
  OBVIOUS
<1> USE ReputationAssumption DEF TInv, TypeOK, Started
<1>1. ASSUME NEW t \in Threads, NEW o \in Ops, NEW p \in PeerIds, Call(t, o, p)
      PROVE  TInv'
  BY <1>1 DEF Call
<1>2. ASSUME NEW t \in Threads, LockRS(t) PROVE TInv'
  BY <1>2 DEF LockRS
<1>3. ASSUME NEW t \in Threads, ReadReputation(t) PROVE TInv'
  <2>1. target[t] \in PeerIds
    BY <1>3 DEF ReadReputation
  <2>2. CASE entry[target[t]] = None
    BY <1>3, <2>2 DEF ReadReputation, Release
  <2>3. CASE entry[target[t]] # None
    BY <1>3, <2>1, <2>3, EntryRep DEF ReadReputation
  <2>4. QED
    BY <2>2, <2>3
<1>4. ASSUME NEW t \in Threads, WriteReputation(t) PROVE TInv'
  <2> DEFINE p == target[t]
  <2>1. p \in PeerIds /\ Current(t) \in Calls
    BY <1>4 DEF WriteReputation, Current, Calls
  <2>2. CASE entry[p] = None
    BY <1>4, <2>2 DEF WriteReputation, Release
  <2>3. CASE entry[p] # None
    <3>1. Append(snap[t], Current(t)) \in Seq(Calls)
      BY <2>1 DEF TypeOK
    <3> DEFINE new == [entry[p] EXCEPT !.rep = Append(snap[t], Current(t))]
    <3>2. entry' = [entry EXCEPT ![p] = new]
      BY <1>4, <2>3 DEF WriteReputation
    <3>3. new \in Entries
      <4>1. entry[p] \in Entries
        BY <2>1, <2>3, EntryRep
      <4>2. QED
        BY <4>1, <3>1 DEF Entries
    <3>4. TypeOK'
      <4>1. entry' \in [PeerIds -> Entries \cup {None}]
        BY <2>1, <3>2, <3>3
      <4>2. applied' \in [PeerIds -> SUBSET Calls]
        <5>1. applied' = [applied EXCEPT ![p] = applied[p] \cup {Current(t)}]
          BY <1>4, <2>3 DEF WriteReputation
        <5>2. QED
          BY <5>1, <2>1
      <4>3. rsOwner' \in Threads \cup {None}
        BY <1>4 DEF WriteReputation, Release
      <4>4. QED
        BY <1>4, <4>1, <4>2, <4>3 DEF WriteReputation
    <3>5. Started'
      BY <1>4 DEF WriteReputation
    <3>6. QED
      BY <3>4, <3>5
  <2>4. QED
    BY <2>2, <2>3
<1>5. ASSUME NEW p \in PeerIds, AddPeer(p) PROVE TInv'
  BY <1>5 DEF AddPeer, Entries
<1>6. ASSUME NEW p \in PeerIds, RemovePeer(p) PROVE TInv'
  BY <1>6 DEF RemovePeer
<1>7. CASE UNCHANGED vars
  BY <1>7 DEF vars
<1>8. QED
  BY <1>1, <1>2, <1>3, <1>4, <1>5, <1>6, <1>7 DEF Next

\* Every goroutine, entry and counter of the update methods and the
\* peer table keeps the shape TypeOK gives it, whichever methods run.
THEOREM TypeCorrect == Spec => []TypeOK
<1>1. Spec => []TInv
  BY InitTInv, TStep, PTL DEF Spec
<1>2. QED
  BY <1>1, PTL DEF TInv

-----------------------------------------------------------------------------
LEMMA NoneNotThread == None \notin Threads
BY ReputationAssumption

\* Only the holder of rs.mu is between its read and its write.
LEMMA Exclusive ==
    ASSUME Owned, NEW t \in Threads, pc[t] \in {"read", "write"},
           NEW u \in Threads, u # t
    PROVE  pc[u] \notin {"read", "write"}
BY DEF Owned

LEMMA InitLInv == Init => LInv
BY InitTInv DEF Init, LInv, Owned, SnapCovers, NoLostUpdate

LEMMA LStep ==
    ASSUME Ops \subseteq LockedOps, LInv, [Next]_vars
    PROVE  LInv'
<1> USE DEF LInv
<1>0. TInv'
  BY TStep
<1> USE ReputationAssumption DEF TInv, TypeOK, Started
<1>1. ASSUME NEW t \in Threads, NEW o \in Ops, NEW p \in PeerIds, Call(t, o, p)
      PROVE  LInv'
  <2>1. pc' = [pc EXCEPT ![t] = "lock"]
    BY <1>1 DEF Call
  <2>2. QED
    BY <1>0, <1>1, <2>1 DEF Call, Owned, SnapCovers, NoLostUpdate
<1>2. ASSUME NEW t \in Threads, LockRS(t) PROVE LInv'
  <2>1. \A u \in Threads : pc[u] \notin {"read", "write"}
    BY <1>2, NoneNotThread DEF LockRS, Owned
  <2>2. QED
    BY <1>0, <1>2, <2>1 DEF LockRS, Owned, SnapCovers, NoLostUpdate
<1>3. ASSUME NEW t \in Threads, ReadReputation(t) PROVE LInv'
  <2> DEFINE p == target[t]
  <2>1. p \in PeerIds /\ rsOwner = t /\ op[t] \in LockedOps
    BY <1>3 DEF ReadReputation, Owned
  <2>2. \A u \in Threads \ {t} : pc[u] \notin {"read", "write"}
    BY <1>3, Exclusive DEF ReadReputation
  <2>3. CASE entry[p] = None
    <3>1. pc' = [pc EXCEPT ![t] = "idle"] /\ rsOwner' = None
      BY <1>3, <2>1, <2>3 DEF ReadReputation, Release
    <3>2. QED
      BY <1>0, <1>3, <2>2, <3>1 DEF ReadReputation, Owned, SnapCovers, NoLostUpdate
  <2>4. CASE entry[p] # None
    <3>1. /\ pc' = [pc EXCEPT ![t] = "write"]
          /\ snap' = [snap EXCEPT ![t] = entry[p].rep]
          /\ UNCHANGED <<rsOwner, target, entry, applied>>
      BY <1>3, <2>4 DEF ReadReputation
    <3>2. applied[p] \subseteq Folded(entry[p].rep)
      BY <2>1, <2>4 DEF NoLostUpdate
    <3>3. SnapCovers'
      BY <1>3, <2>2, <3>1, <3>2 DEF ReadReputation, SnapCovers
    <3>4. QED
      BY <1>0, <2>1, <2>2, <3>1, <3>3 DEF Owned, NoLostUpdate
  <2>5. QED
    BY <2>3, <2>4
<1>4. ASSUME NEW t \in Threads, WriteReputation(t) PROVE LInv'
  <2> DEFINE p == target[t]
  <2> DEFINE c == Current(t)
  <2>1. /\ p \in PeerIds /\ rsOwner = t /\ op[t] \in LockedOps
        /\ c \in Calls
    BY <1>4 DEF WriteReputation, Owned, Current, Calls
  <2>2. \A u \in Threads \ {t} : pc[u] \notin {"read", "write"}
    BY <1>4, Exclusive DEF WriteReputation
  <2>3. pc' = [pc EXCEPT ![t] = "idle"] /\ rsOwner' = None
    BY <1>4, <2>1 DEF WriteReputation, Release
  <2>4. Owned' /\ SnapCovers'
    BY <2>2, <2>3 DEF Owned, SnapCovers
  <2>5. CASE entry[p] = None
    BY <1>0, <1>4, <2>4, <2>5 DEF WriteReputation, NoLostUpdate
  <2>6. CASE entry[p] # None
    <3>1. /\ entry' = [entry EXCEPT ![p].rep = Append(snap[t], c)]
          /\ applied' = [applied EXCEPT ![p] = applied[p] \cup {c}]
      BY <1>4, <2>6 DEF WriteReputation
    <3>2. applied[p] \subseteq Folded(snap[t])
      BY <1>4 DEF WriteReputation, SnapCovers
    <3>3. Folded(Append(snap[t], c)) = Folded(snap[t]) \cup {c}
      BY <2>1, FoldedAppend
    <3>4. entry[p] \in Entries
      BY <2>1, <2>6, EntryRep
    <3>5. NoLostUpdate'
      BY <2>1, <2>6, <3>1, <3>2, <3>3, <3>4 DEF NoLostUpdate, Entries
    <3>6. QED
      BY <1>0, <2>4, <3>5
  <2>7. QED
    BY <2>5, <2>6
<1>5. ASSUME NEW p \in PeerIds, AddPeer(p) PROVE LInv'
  <2>1. /\ entry' = [entry EXCEPT ![p] = [born |-> adds[p] + 1, rep |-> <<>>]]
        /\ applied' = [applied EXCEPT ![p] = {}]
    BY <1>5 DEF AddPeer
  <2>2. QED
    BY <1>0, <1>5, <2>1 DEF AddPeer, Owned, SnapCovers, NoLostUpdate
<1>6. ASSUME NEW p \in PeerIds, RemovePeer(p) PROVE LInv'
  BY <1>0, <1>6 DEF RemovePeer, Owned, SnapCovers, NoLostUpdate
<1>7. CASE UNCHANGED vars
  BY <1>0, <1>7 DEF vars, Owned, SnapCovers, NoLostUpdate
<1>8. QED
  BY <1>1, <1>2, <1>3, <1>4, <1>5, <1>6, <1>7 DEF Next

\* When every update holds rs.mu (UpdateReputationBasedOnPerformance and
\* ...OnReliability), none is lost: a peer's reputation is the result of
\* every update written to its current entry, for any number of
\* goroutines, peers, calls and re-registrations.
THEOREM NoLostUpdateLocked ==
    ASSUME Ops \subseteq LockedOps
    PROVE  Spec => []NoLostUpdate
<1>1. Init => LInv
  BY InitLInv
<1>2. LInv /\ [Next]_vars => LInv'
  BY LStep
<1>3. QED
  BY <1>1, <1>2, PTL DEF Spec, LInv
-----------------------------------------------------------------------------
LEMMA InitRInv == Init => RInv
BY InitLInv DEF Init, RInv, Fresh, WriterAdded, SnapCurrent

LEMMA RStep ==
    ASSUME Ops \subseteq LockedOps, MaxAdds <= 1, RInv, [Next]_vars
    PROVE  RInv'
<1> USE DEF RInv
<1>0. LInv'
  BY LStep
<1> USE ReputationAssumption DEF LInv, TInv, TypeOK, Started
<1>1. ASSUME NEW t \in Threads, NEW o \in Ops, NEW p \in PeerIds, Call(t, o, p)
      PROVE  RInv'
  <2>1. pc' = [pc EXCEPT ![t] = "lock"]
    BY <1>1 DEF Call
  <2>2. QED
    BY <1>0, <1>1, <2>1 DEF Call, Fresh, WriterAdded, SnapCurrent
<1>2. ASSUME NEW t \in Threads, LockRS(t) PROVE RInv'
  BY <1>0, <1>2 DEF LockRS, Fresh, WriterAdded, SnapCurrent
<1>3. ASSUME NEW t \in Threads, ReadReputation(t) PROVE RInv'
  <2> DEFINE p == target[t]
  <2>1. p \in PeerIds
    BY <1>3 DEF ReadReputation
  <2>2. \A u \in Threads \ {t} : pc[u] \notin {"read", "write"}
    BY <1>3, Exclusive DEF ReadReputation
  <2>3. CASE entry[p] = None
    <3>1. pc' = [pc EXCEPT ![t] = "idle"]
      BY <1>3, <2>3 DEF ReadReputation
    <3>2. QED
      BY <1>0, <1>3, <2>2, <3>1 DEF ReadReputation, Fresh, WriterAdded, SnapCurrent
  <2>4. CASE entry[p] # None
    <3>1. /\ pc' = [pc EXCEPT ![t] = "write"]
          /\ snap' = [snap EXCEPT ![t] = entry[p].rep]
          /\ UNCHANGED <<target, entry, adds>>
      BY <1>3, <2>4 DEF ReadReputation
    <3>2. adds[p] >= 1
      BY <2>1, <2>4 DEF Fresh
    <3>3. QED
      BY <1>0, <2>1, <2>2, <3>1, <3>2 DEF Fresh, WriterAdded, SnapCurrent
  <2>5. QED
    BY <2>3, <2>4
<1>4. ASSUME NEW t \in Threads, WriteReputation(t) PROVE RInv'
  <2>1. target[t] \in PeerIds
    BY <1>4 DEF WriteReputation
  <2>2. \A u \in Threads \ {t} : pc[u] \notin {"read", "write"}
    BY <1>4, Exclusive DEF WriteReputation
  <2>3. pc' = [pc EXCEPT ![t] = "idle"] /\ UNCHANGED adds
    BY <1>4 DEF WriteReputation
  <2>4. adds[target[t]] >= 1
    BY <1>4 DEF WriteReputation, WriterAdded
  <2>5. \A q \in PeerIds \ {target[t]} : entry'[q] = entry[q]
    BY <1>4, <2>1 DEF WriteReputation
  <2>6. Fresh'
    BY <2>1, <2>3, <2>4, <2>5 DEF Fresh
  <2>7. QED
    BY <1>0, <2>2, <2>3, <2>6 DEF WriterAdded, SnapCurrent
<1>5. ASSUME NEW p \in PeerIds, AddPeer(p) PROVE RInv'
  <2>1. adds[p] = 0
    BY <1>5 DEF AddPeer
  <2>2. \A t \in Threads : pc[t] = "write" => target[t] # p
    BY <2>1 DEF WriterAdded
  <2>3. /\ entry' = [entry EXCEPT ![p] = [born |-> adds[p] + 1, rep |-> <<>>]]
        /\ adds' = [adds EXCEPT ![p] = adds[p] + 1]
        /\ UNCHANGED <<pc, target, snap>>
    BY <1>5 DEF AddPeer
  <2>4. QED
    BY <1>0, <2>2, <2>3 DEF Fresh, WriterAdded, SnapCurrent
<1>6. ASSUME NEW p \in PeerIds, RemovePeer(p) PROVE RInv'
  BY <1>0, <1>6 DEF RemovePeer, Fresh, WriterAdded, SnapCurrent
<1>7. CASE UNCHANGED vars
  BY <1>0, <1>7 DEF vars, Fresh, WriterAdded, SnapCurrent
<1>8. QED
  BY <1>1, <1>2, <1>3, <1>4, <1>5, <1>6, <1>7 DEF Next

\* Each step of the update methods and the peer table is a step of
\* ReputationAtomic under RepView, or leaves RepView and adds alone.
LEMMA MapStep ==
    ASSUME Ops \subseteq LockedOps, MaxAdds <= 1, RInv, [Next]_vars
    PROVE  [Atomic!Next]_<<RepView, adds>>
<1> USE ReputationAssumption DEF RInv, LInv, TInv, TypeOK, Started
<1>0. SUFFICES ASSUME Next, <<RepView, adds>>' # <<RepView, adds>>
               PROVE  Atomic!Next
  <2>1. UNCHANGED vars => UNCHANGED <<RepView, adds>>
    BY DEF vars, RepView
  <2>2. QED
    BY <2>1
<1>1. ASSUME NEW t \in Threads, WriteReputation(t) PROVE Atomic!Next
  <2> DEFINE p == target[t]
  <2> DEFINE c == Current(t)
  <2>1. p \in PeerIds /\ c \in Calls
    BY <1>1 DEF WriteReputation, Current, Calls
  <2>2. entry[p] # None
    BY <1>0, <1>1 DEF WriteReputation, RepView
  <2>3. /\ entry' = [entry EXCEPT ![p].rep = Append(snap[t], c)]
        /\ UNCHANGED adds
    BY <1>1, <2>2 DEF WriteReputation
  <2>4. snap[t] = entry[p].rep
    BY <1>1, <2>2 DEF WriteReputation, SnapCurrent
  <2>5. entry[p] \in Entries
    BY <2>1, <2>2, EntryRep
  <2>6. Atomic!Update(c, p)
    <3>1. entry'[p] = [entry[p] EXCEPT !.rep = Append(entry[p].rep, c)]
      BY <2>1, <2>3, <2>4
    <3>0. Append(entry[p].rep, c) \in Seq(Calls)
      BY <2>1, <2>2, EntryRep
    <3>2. entry'[p] \in Entries /\ entry'[p].rep = Append(RepView[p], c)
      <4>1. entry'[p] \in Entries /\ entry'[p].rep = Append(entry[p].rep, c)
        BY <2>5, <3>0, <3>1, SetRep
      <4>2. RepView[p] = entry[p].rep
        BY <2>1, <2>2 DEF RepView
      <4>3. QED
        BY <4>1, <4>2
    <3>3. RepView' = [RepView EXCEPT ![p] = Append(@, c)]
      BY <2>1, <2>3, <3>2 DEF RepView
    <3>4. RepView[p] # None
      BY <2>1, <2>2, EntryRep DEF RepView
    <3>5. QED
      BY <2>3, <3>3, <3>4 DEF Atomic!Update
  <2>7. QED
    BY <2>1, <2>6 DEF Atomic!Next, Atomic!Calls, Calls
<1>2. ASSUME NEW p \in PeerIds, AddPeer(p) PROVE Atomic!Next
  <2>1. Atomic!AddPeer(p)
    <3>1. entry' = [entry EXCEPT ![p] = [born |-> adds[p] + 1, rep |-> <<>>]]
      BY <1>2 DEF AddPeer
    <3>2. [born |-> adds[p] + 1, rep |-> <<>>] \in Entries
      BY DEF Entries
    <3>3. RepView' = [RepView EXCEPT ![p] = <<>>]
      BY <3>1, <3>2 DEF RepView
    <3>4. QED
      BY <1>2, <3>3 DEF AddPeer, Atomic!AddPeer
  <2>2. QED
    BY <2>1 DEF Atomic!Next
<1>3. ASSUME NEW p \in PeerIds, RemovePeer(p) PROVE Atomic!Next
  <2>1. Atomic!RemovePeer(p)
    <3>1. entry' = [entry EXCEPT ![p] = None]
      BY <1>3 DEF RemovePeer
    <3>2. RepView' = [RepView EXCEPT ![p] = None]
      BY <3>1 DEF RepView
    <3>3. RepView[p] # None
      <4>1. entry[p] # None
        BY <1>3 DEF RemovePeer
      <4>2. entry[p].rep \in Seq(Calls)
        BY <4>1, EntryRep
      <4>3. QED
        BY <4>1, <4>2 DEF RepView
    <3>4. QED
      BY <1>3, <3>2, <3>3 DEF RemovePeer, Atomic!RemovePeer
  <2>2. QED
    BY <2>1 DEF Atomic!Next
<1>4. ASSUME NEW t \in Threads,
             \/ \E o \in Ops, q \in PeerIds : Call(t, o, q)
             \/ LockRS(t) \/ ReadReputation(t)
      PROVE  FALSE
  <2>1. UNCHANGED <<entry, adds>>
    BY <1>4 DEF Call, LockRS, ReadReputation
  <2>2. QED
    BY <1>0, <2>1 DEF RepView
<1>5. QED
  BY <1>0, <1>1, <1>2, <1>3, <1>4 DEF Next

\* With one registerPeer per id, the updates that hold rs.mu implement
\* the atomic updates of ReputationAtomic under the mapping RepView:
\* every UpdatePeerReputation moves the reputation the entry holds now.
THEOREM Refinement ==
    ASSUME Ops \subseteq LockedOps, MaxAdds <= 1
    PROVE  Spec => AtomicRefinement
<1>1. Spec => []RInv
  <2>1. Init => RInv
    BY InitRInv
  <2>2. RInv /\ [Next]_vars => RInv'
    BY RStep
  <2>3. QED
    BY <2>1, <2>2, PTL DEF Spec
<1>2. Init => Atomic!Init
  BY DEF Init, Atomic!Init, RepView
<1>3. RInv /\ [Next]_vars => [Atomic!Next]_<<RepView, adds>>
  BY MapStep
<1>4. QED
  BY <1>1, <1>2, <1>3, PTL DEF Spec, AtomicRefinement, Atomic!Spec
=============================================================================
