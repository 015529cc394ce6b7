-------------------------- MODULE ReputationAtomic --------------------------
(***************************************************************************)
(* What a reputation update promises (spec section 4.4): it moves a       *)
(* peer's reputation from its current value, in one step, and leaves an   *)
(* unknown peer alone.  The peer table itself is Manager.AddPeer's fresh  *)
(* entry with reputation 0 and Manager.RemovePeer's delete.  Values are   *)
(* the sequence of updates they result from, as in ReputationSystem; an   *)
(* unknown peer's value is None.                                          *)
(***************************************************************************)
EXTENDS Naturals, Sequences

CONSTANTS Threads, PeerIds, MaxCalls, MaxAdds, None

Calls == Threads \X (1..MaxCalls)

VARIABLES
    reputation,     \* [PeerIds -> Seq(Calls) \cup {None}]
    registrations   \* [PeerIds -> Nat] AddPeer calls so far

\* Update c applied to p's reputation as it is now.
Update(c, p) ==
    /\ reputation[p] # None
    /\ reputation' = [reputation EXCEPT ![p] = Append(@, c)]
    /\ UNCHANGED registrations

AddPeer(p) ==
    /\ registrations[p] < MaxAdds
    /\ registrations' = [registrations EXCEPT ![p] = registrations[p] + 1]
    /\ reputation' = [reputation EXCEPT ![p] = <<>>]

RemovePeer(p) ==
    /\ reputation[p] # None
    /\ reputation' = [reputation EXCEPT ![p] = None]
    /\ UNCHANGED registrations

Init ==
    /\ reputation = [p \in PeerIds |-> None]
    /\ registrations = [p \in PeerIds |-> 0]

Next == \E p \in PeerIds : \/ \E c \in Calls : Update(c, p)
                           \/ AddPeer(p) \/ RemovePeer(p)

Spec == Init /\ [][Next]_<<reputation, registrations>>
=============================================================================
