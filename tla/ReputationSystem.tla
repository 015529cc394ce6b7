-------------------------- MODULE ReputationSystem --------------------------
(***************************************************************************)
(* The ReputationSystem of src/pkg/p2p/topology/reputation.go (lines      *)
(* 1-138) over the topology Manager.  Every update reads the peer's       *)
(* reputation with Manager.GetPeerInfo and writes the new one with        *)
(* Manager.UpdatePeerReputation: two separate critical sections of t.mu.  *)
(* UpdateReputationBasedOnPerformance and ...OnReliability hold rs.mu     *)
(* around the pair; UpdateReputationBasedOnBehavior and DecayReputation,  *)
(* called directly, do not.                                               *)
(*                                                                         *)
(* A reputation value is abstracted to the sequence of updates it is the  *)
(* result of: an update maps the value it read, r, to a function of r and *)
(* its own signal, so the new value is "what it read, then this update".  *)
(* An entry of t.peers also carries the AddPeer that created it.          *)
(***************************************************************************)
EXTENDS Naturals, Sequences, FiniteSets

CONSTANTS
    Threads,   \* goroutines calling the ReputationSystem
    PeerIds,
    Ops,       \* the update methods they call
    MaxCalls,  \* calls per goroutine
    MaxAdds,   \* AddPeer calls (registrations) per peer
    None

\* The update methods.  DecayReputation has the shape of
\* UpdateReputationBasedOnBehavior: GetPeerInfo, return if unknown, a new
\* value from the old one, UpdatePeerReputation; neither takes rs.mu.
UpdateOps == {"Behavior", "Performance", "Reliability", "Decay"}
\* The methods that take rs.mu, scale their inputs and call
\* UpdateReputationBasedOnBehavior while holding it.
LockedOps == {"Performance", "Reliability"}

\* An update call: its goroutine and its number there.
Calls == Threads \X (1..MaxCalls)

VARIABLES
    pc,      \* [Threads -> ...] where each goroutine is in its call
    op,      \* [Threads -> Ops \cup {None}]
    target,  \* [Threads -> PeerIds \cup {None}] the peerID argument
    calls,   \* [Threads -> Nat] calls started
    snap,    \* [Threads -> ...] the reputation GetPeerInfo returned
    rsOwner, \* the goroutine holding rs.mu, or None
    entry,   \* [PeerIds -> ...] t.peers[p]: None, or its creation and reputation
    adds,    \* [PeerIds -> Nat] AddPeer calls so far
    applied  \* [PeerIds -> SUBSET Calls] updates that wrote the current entry

vars == <<pc, op, target, calls, snap, rsOwner, entry, adds, applied>>

Entries == [born : Nat, rep : Seq(Calls)]

ASSUME ReputationAssumption ==
    /\ Ops \subseteq UpdateOps
    /\ MaxCalls \in Nat
    /\ MaxAdds \in Nat
    /\ None \notin PeerIds \cup Threads
    /\ None \notin Entries \cup Seq(Calls)

\* The call a goroutine is running.
Current(t) == <<t, calls[t]>>

Init ==
    /\ pc = [t \in Threads |-> "idle"]
    /\ op = [t \in Threads |-> None]
    /\ target = [t \in Threads |-> None]
    /\ calls = [t \in Threads |-> 0]
    /\ snap = [t \in Threads |-> <<>>]
    /\ rsOwner = None
    /\ entry = [p \in PeerIds |-> None]
    /\ adds = [p \in PeerIds |-> 0]
    /\ applied = [p \in PeerIds |-> {}]

\* rs.mu is released on the way out of a call that took it.
Release(t) == rsOwner' = IF op[t] \in LockedOps THEN None ELSE rsOwner

-----------------------------------------------------------------------------
\* Variant: Performance and Reliability do not take rs.mu.
CallUnlocked(t, o, p) ==
    /\ pc[t] = "idle"
    /\ calls[t] < MaxCalls
    /\ op' = [op EXCEPT ![t] = o]
    /\ target' = [target EXCEPT ![t] = p]
    /\ calls' = [calls EXCEPT ![t] = calls[t] + 1]
    /\ pc' = [pc EXCEPT ![t] = "read"]
    /\ UNCHANGED <<snap, rsOwner, entry, adds, applied>>

\* A goroutine calls an update method; the score clamping and scaling at
\* its top are local.  Performance and Reliability first wait for rs.mu.
Call(t, o, p) ==
    /\ pc[t] = "idle"
    /\ calls[t] < MaxCalls
    /\ op' = [op EXCEPT ![t] = o]
    /\ target' = [target EXCEPT ![t] = p]
    /\ calls' = [calls EXCEPT ![t] = calls[t] + 1]
    /\ pc' = [pc EXCEPT ![t] = IF o \in LockedOps THEN "lock" ELSE "read"]
    /\ UNCHANGED <<snap, rsOwner, entry, adds, applied>>

\* rs.mu.Lock() in UpdateReputationBasedOnPerformance / ...OnReliability.
LockRS(t) ==
    /\ pc[t] = "lock"
    /\ rsOwner = None
    /\ rsOwner' = t
    /\ pc' = [pc EXCEPT ![t] = "read"]
    /\ UNCHANGED <<op, target, calls, snap, entry, adds, applied>>

\* currentInfo, exists := rs.manager.GetPeerInfo(peerID); an unknown peer
\* returns at once.
ReadReputation(t) ==
    /\ pc[t] = "read"
    /\ IF entry[target[t]] = None
         THEN /\ pc' = [pc EXCEPT ![t] = "idle"]
              /\ Release(t)
              /\ UNCHANGED snap
         ELSE /\ snap' = [snap EXCEPT ![t] = entry[target[t]].rep]
              /\ pc' = [pc EXCEPT ![t] = "write"]
              /\ UNCHANGED rsOwner
    /\ UNCHANGED <<op, target, calls, entry, adds, applied>>

\* Variant: UpdatePeerReputation stores an entry for an unknown id, one
\* that no AddPeer created.
WriteReputationUpsert(t) ==
    /\ pc[t] = "write"
    /\ LET p == target[t] IN
       IF entry[p] = None
         THEN /\ entry' = [entry EXCEPT ![p] = [born |-> None,
                                                rep |-> Append(snap[t], Current(t))]]
              /\ applied' = [applied EXCEPT ![p] = @ \cup {Current(t)}]
         ELSE /\ entry' = [entry EXCEPT ![p].rep = Append(snap[t], Current(t))]
              /\ applied' = [applied EXCEPT ![p] = @ \cup {Current(t)}]
    /\ pc' = [pc EXCEPT ![t] = "idle"]
    /\ Release(t)
    /\ UNCHANGED <<op, target, calls, snap, adds>>

\* newReputation from the value read, clamped, then
\* rs.manager.UpdatePeerReputation(peerID, newReputation): it sets the
\* field of whatever entry holds the id now, if any.
WriteReputation(t) ==
    /\ pc[t] = "write"
    /\ LET p == target[t] IN
       IF entry[p] = None
         THEN UNCHANGED <<entry, applied>>
         ELSE /\ entry' = [entry EXCEPT ![p].rep = Append(snap[t], Current(t))]
              /\ applied' = [applied EXCEPT ![p] = @ \cup {Current(t)}]
    /\ pc' = [pc EXCEPT ![t] = "idle"]
    /\ Release(t)
    /\ UNCHANGED <<op, target, calls, snap, adds>>

\* Manager.AddPeer (from registerPeer): a fresh entry with reputation 0.
AddPeer(p) ==
    /\ adds[p] < MaxAdds
    /\ adds' = [adds EXCEPT ![p] = adds[p] + 1]
    /\ entry' = [entry EXCEPT ![p] = [born |-> adds[p] + 1, rep |-> <<>>]]
    /\ applied' = [applied EXCEPT ![p] = {}]
    /\ UNCHANGED <<pc, op, target, calls, snap, rsOwner>>

\* Manager.RemovePeer.
RemovePeer(p) ==
    /\ entry[p] # None
    /\ entry' = [entry EXCEPT ![p] = None]
    /\ applied' = [applied EXCEPT ![p] = {}]
    /\ UNCHANGED <<pc, op, target, calls, snap, rsOwner, adds>>

Next ==
    \/ \E t \in Threads :
         \/ \E o \in Ops, p \in PeerIds : Call(t, o, p)
         \/ LockRS(t) \/ ReadReputation(t) \/ WriteReputation(t)
    \/ \E p \in PeerIds : AddPeer(p) \/ RemovePeer(p)

Spec == Init /\ [][Next]_vars

-----------------------------------------------------------------------------
TypeOK ==
    /\ pc \in [Threads -> {"idle", "lock", "read", "write"}]
    /\ op \in [Threads -> Ops \cup {None}]
    /\ target \in [Threads -> PeerIds \cup {None}]
    /\ calls \in [Threads -> 0..MaxCalls]
    /\ snap \in [Threads -> Seq(Calls)]
    /\ rsOwner \in Threads \cup {None}
    /\ entry \in [PeerIds -> Entries \cup {None}]
    /\ adds \in [PeerIds -> 0..MaxAdds]
    /\ applied \in [PeerIds -> SUBSET Calls]

\* The updates a reputation value is the result of.
Folded(s) == {s[k] : k \in 1..Len(s)}

\* No reputation update is lost: the current reputation of a peer is the
\* result of every update that wrote it since the peer was added, whatever
\* other updates ran in between their GetPeerInfo and UpdatePeerReputation.
NoLostUpdate ==
    \A p \in PeerIds : entry[p] # None => applied[p] \subseteq Folded(entry[p].rep)

\* The reputation each entry of t.peers holds, None for an unknown id: the
\* entry's creation is not part of what a caller can observe.
RepView == [p \in PeerIds |-> IF entry[p] = None THEN None ELSE entry[p].rep]

Atomic == INSTANCE ReputationAtomic WITH reputation <- RepView, registrations <- adds

\* The updates implement the atomic ones of ReputationAtomic: each write
\* sets the reputation the entry holds now, moved by this update, as if
\* GetPeerInfo and UpdatePeerReputation were one step.  It fails when
\* the value read belongs to an earlier entry of the same id, replaced by
\* a later registerPeer's AddPeer in between.
AtomicRefinement == Atomic!Spec

=============================================================================
