----------------------------- MODULE Bootstrap -----------------------------
(***************************************************************************)
(* The discovery collaborator's BootstrapManager and PeerExchange         *)
(* (src/unnamed/part_003, lines 12-177).  One goroutine runs              *)
(* ConnectToBootstrapNodes over a snapshot of the node list, trying each   *)
(* node up to maxRetries times; others call AddNode meanwhile.  Another   *)
(* runs ExchangePeers over a discovered list, connecting at most maxPeers. *)
(* connectFunc and peerConnect succeed or fail nondeterministically; the  *)
(* retry delay is left out, as is the caller's context except for its     *)
(* cancellation.  Addresses and peers are model values.                   *)
(***************************************************************************)
EXTENDS Naturals, Sequences, SequenceTheorems, TLAPS

CONSTANTS
    Addrs,       \* bootstrap node addresses
    Peers,       \* peers a discovery can return
    MaxRetries,  \* b.maxRetries (3 in NewBootstrapManager)
    MaxPeers,    \* p.maxPeers
    MaxFound,    \* the longest list peerDiscovery returns
    InitNodes    \* the list given to NewBootstrapManager

VARIABLES
    nodes,      \* b.nodes
    connected,  \* the keys of b.connected (all set to true)
    bpc,        \* ConnectToBootstrapNodes: "idle", "node" or "try"
    snap,       \* its copy of b.nodes
    k,          \* the node of snap being tried
    i,          \* connectWithRetry's attempt counter
    failed,     \* lastErr # nil in ConnectToBootstrapNodes
    result,     \* what its last call returned: "none", "nil" or "err"
    cancelled,  \* the caller's context is done
    epc,        \* ExchangePeers: "idle" or "loop"
    found,      \* the list peerDiscovery returned
    j,          \* the peer of found being considered
    count       \* connectedCount

vars == <<nodes, connected, bpc, snap, k, i, failed, result, cancelled,
          epc, found, j, count>>

\* The addresses a list holds.
NodeSet(s) == {s[x] : x \in DOMAIN s}

\* The lists peerDiscovery can return.
Discovered == UNION {[1..n -> Peers] : n \in 0..MaxFound}

\* NewBootstrapManager(InitNodes), which keeps the slice as given, and
\* NewPeerExchange.
Init ==
    /\ nodes = InitNodes
    /\ connected = {}
    /\ bpc = "idle"
    /\ snap = <<>>
    /\ k = 1
    /\ i = 0
    /\ failed = FALSE
    /\ result = "none"
    /\ cancelled = FALSE
    /\ epc = "idle"
    /\ found = <<>>
    /\ j = 1
    /\ count = 0

exchangeVars == <<epc, found, j, count>>

-----------------------------------------------------------------------------
(* BootstrapManager.                                                       *)

\* AddNode under b.mu: append unless the address is already listed.
AddNode(a) ==
    /\ a \notin NodeSet(nodes)
    /\ nodes' = Append(nodes, a)
    /\ UNCHANGED <<connected, bpc, snap, k, i, failed, result, cancelled>>
    /\ UNCHANGED exchangeVars

\* ConnectToBootstrapNodes: copy b.nodes under the read lock.
ConnectStart ==
    /\ bpc = "idle"
    /\ snap' = nodes
    /\ k' = 1
    /\ failed' = FALSE
    /\ result' = "none"
    /\ bpc' = "node"
    /\ UNCHANGED <<nodes, connected, i, cancelled>> /\ UNCHANGED exchangeVars

\* The range loop: return lastErr after the last node, else connectWithRetry.
NextNode ==
    /\ bpc = "node"
    /\ IF k > Len(snap)
         THEN /\ bpc' = "idle"
              /\ result' = IF failed THEN "err" ELSE "nil"
              /\ UNCHANGED i
         ELSE /\ bpc' = "try"
              /\ i' = 0
              /\ UNCHANGED result
    /\ UNCHANGED <<nodes, connected, snap, k, failed, cancelled>>
    /\ UNCHANGED exchangeVars

\* connectWithRetry returns an error (ctx.Err() or "failed after
\* maxRetries attempts"); ConnectToBootstrapNodes records it and goes on.
GiveUp ==
    /\ bpc = "try"
    /\ i >= MaxRetries \/ cancelled
    /\ failed' = TRUE
    /\ k' = k + 1
    /\ bpc' = "node"
    /\ UNCHANGED <<nodes, connected, snap, i, result, cancelled>> /\ UNCHANGED exchangeVars

\* One attempt: connectFunc(node) succeeds, and node is marked connected
\* under b.mu; or it fails and the loop goes round (after the delay).
Attempt ==
    /\ bpc = "try"
    /\ i < MaxRetries
    /\ ~cancelled
    /\ \/ /\ connected' = connected \cup {snap[k]}
          /\ k' = k + 1
          /\ bpc' = "node"
          /\ UNCHANGED i
       \/ /\ i' = i + 1
          /\ UNCHANGED <<connected, k, bpc>>
    /\ UNCHANGED <<nodes, snap, failed, result, cancelled>> /\ UNCHANGED exchangeVars

\* The caller's context is cancelled.
Cancel ==
    /\ ~cancelled
    /\ cancelled' = TRUE
    /\ UNCHANGED <<nodes, connected, bpc, snap, k, i, failed, result>>
    /\ UNCHANGED exchangeVars

-----------------------------------------------------------------------------
(* PeerExchange.ExchangePeers, with both functions set.                    *)

\* peerDiscovery() returns a list (its error path returns at once).
ExchangeStart ==
    /\ epc = "idle"
    /\ \E s \in Discovered : found' = s
    /\ j' = 1
    /\ count' = 0
    /\ epc' = "loop"
    /\ UNCHANGED <<nodes, connected, bpc, snap, k, i, failed, result, cancelled>>

\* One iteration: stop at the end of the list, at maxPeers connections or
\* on a cancelled context; otherwise peerConnect(peer), counted if it works.
ExchangeStep ==
    /\ epc = "loop"
    /\ IF j > Len(found) \/ count >= MaxPeers \/ cancelled
         THEN /\ epc' = "idle"
              /\ UNCHANGED <<j, count>>
         ELSE /\ j' = j + 1
              /\ count' \in {count, count + 1}
              /\ UNCHANGED epc
    /\ UNCHANGED found
    /\ UNCHANGED <<nodes, connected, bpc, snap, k, i, failed, result, cancelled>>

Next ==
    \/ \E a \in Addrs : AddNode(a)
    \/ ConnectStart \/ NextNode \/ GiveUp \/ Attempt \/ Cancel
    \/ ExchangeStart \/ ExchangeStep

Spec == Init /\ [][Next]_vars

-----------------------------------------------------------------------------
TypeOK ==
    /\ nodes \in Seq(Addrs)
    /\ connected \subseteq Addrs
    /\ bpc \in {"idle", "node", "try"}
    /\ snap \in Seq(Addrs)
    /\ k \in Nat
    /\ i \in Nat
    /\ failed \in BOOLEAN
    /\ result \in {"none", "nil", "err"}
    /\ cancelled \in BOOLEAN
    /\ epc \in {"idle", "loop"}
    /\ found \in Seq(Peers)
    /\ j \in Nat
    /\ count \in Nat

\* connectWithRetry calls connectFunc at most maxRetries times for a node:
\* a failed attempt is counted before the next, and the loop gives up at
\* the bound even while AddNode and the context change around it.
RetryBound == bpc = "try" => i < MaxRetries \/ i = MaxRetries

\* Only a node on the list is ever marked connected, though the list
\* ConnectToBootstrapNodes works on is a copy that AddNode may outgrow.
ConnectedListed == connected \subseteq NodeSet(nodes)

\* ConnectToBootstrapNodes returns nil only if every node of the list it
\* copied was connected: a failure of any node, early or late, with the
\* later ones succeeding, still surfaces as lastErr.
NilMeansConnected == result = "nil" => NodeSet(snap) \subseteq connected

\* ExchangePeers connects at most maxPeers peers however long the list
\* peerDiscovery returns.
ExchangeCapped == count <= MaxPeers

\* The strengthening the proof needs: the copy is a list of known nodes,
\* the loop index stays in it, and with no error so far every node before
\* the index is connected.
LoopInv ==
    /\ NodeSet(snap) \subseteq NodeSet(nodes)
    /\ bpc \in {"node", "try"} => k \in 1..Len(snap) + 1
    /\ bpc = "try" => k \in 1..Len(snap)
    /\ bpc \in {"node", "try"} /\ ~failed =>
         \A x \in 1..(k - 1) : snap[x] \in connected

IInv ==
    /\ TypeOK /\ LoopInv /\ RetryBound /\ ConnectedListed
    /\ NilMeansConnected /\ ExchangeCapped

\* What the proofs assume of the constants: the retry and peer bounds are
\* counts, and NewBootstrapManager is given a list of addresses.
BootstrapConstants ==
    /\ MaxRetries \in Nat
    /\ MaxPeers \in Nat
    /\ InitNodes \in Seq(Addrs)

-----------------------------------------------------------------------------
\* Appending to b.nodes adds exactly the new node to the set it lists.
LEMMA AppendNodeSet ==
    ASSUME NEW S, NEW s \in Seq(S), NEW a \in S
    PROVE  NodeSet(Append(s, a)) = NodeSet(s) \cup {a}
  <1>1. /\ DOMAIN Append(s, a) = 1..(Len(s) + 1)
        /\ \A x \in 1..Len(s) : Append(s, a)[x] = s[x]
        /\ Append(s, a)[Len(s) + 1] = a
    BY AppendProperties
  <1>2. DOMAIN s = 1..Len(s)
    OBVIOUS
  <1>3. QED
    BY <1>1, <1>2 DEF NodeSet

\* Every step keeps the bootstrap loop's invariant.
LEMMA IInvStep ==
    ASSUME BootstrapConstants, IInv, [Next]_vars
    PROVE  IInv'
  <1> USE DEF BootstrapConstants
  <1>1. ASSUME NEW a \in Addrs, AddNode(a) PROVE IInv'
    <2>1. NodeSet(nodes') = NodeSet(nodes) \cup {a}
      BY <1>1, AppendNodeSet DEF AddNode, IInv, TypeOK
    <2>2. TypeOK'
      BY <1>1, AppendProperties DEF AddNode, IInv, TypeOK, exchangeVars
    <2>3. QED
      BY <1>1, <2>1, <2>2 DEF AddNode, IInv, LoopInv, RetryBound,
         ConnectedListed, NilMeansConnected, ExchangeCapped, exchangeVars
  <1>2. CASE ConnectStart
    <2>1. TypeOK'
      BY <1>2 DEF ConnectStart, IInv, TypeOK, exchangeVars
    <2>2. LoopInv'
      BY <1>2 DEF ConnectStart, IInv, TypeOK, LoopInv
    <2>3. QED
      BY <1>2, <2>1, <2>2 DEF ConnectStart, IInv, RetryBound,
         ConnectedListed, NilMeansConnected, ExchangeCapped, exchangeVars
  <1>3. CASE NextNode
    <2>1. CASE k > Len(snap)
      <3>1. k = Len(snap) + 1
        BY <1>3, <2>1 DEF NextNode, IInv, TypeOK, LoopInv
      <3>2. ~failed => NodeSet(snap) \subseteq connected
        BY <1>3, <3>1 DEF IInv, TypeOK, LoopInv, NodeSet, NextNode
      <3>3. result' = "nil" => NodeSet(snap') \subseteq connected'
        BY <1>3, <2>1, <3>2 DEF NextNode
      <3>4. QED
        BY <1>3, <2>1, <3>3 DEF NextNode, IInv, TypeOK, LoopInv, RetryBound,
           ConnectedListed, NilMeansConnected, ExchangeCapped, exchangeVars
    <2>2. CASE ~(k > Len(snap))
      BY <1>3, <2>2 DEF NextNode, IInv, TypeOK, LoopInv, RetryBound,
         ConnectedListed, NilMeansConnected, ExchangeCapped, exchangeVars
    <2>3. QED
      BY <2>1, <2>2
  <1>4. CASE GiveUp
    BY <1>4 DEF GiveUp, IInv, TypeOK, LoopInv, RetryBound,
       ConnectedListed, NilMeansConnected, ExchangeCapped, exchangeVars
  <1>5. CASE Attempt
    <2>1. snap[k] \in NodeSet(nodes)
      <3>1. k \in DOMAIN snap
        BY <1>5 DEF Attempt, IInv, TypeOK, LoopInv
      <3>2. snap[k] \in NodeSet(snap)
        BY <3>1 DEF NodeSet
      <3>3. QED
        BY <3>2 DEF IInv, LoopInv
    <2>2. QED
      BY <1>5, <2>1 DEF Attempt, IInv, TypeOK, LoopInv, RetryBound,
         ConnectedListed, NilMeansConnected, ExchangeCapped, exchangeVars
  <1>6. CASE Cancel
    BY <1>6 DEF Cancel, IInv, TypeOK, LoopInv, RetryBound,
       ConnectedListed, NilMeansConnected, ExchangeCapped, exchangeVars
  <1>7. CASE ExchangeStart
    <2>1. found' \in Seq(Peers)
      BY <1>7 DEF ExchangeStart, Discovered
    <2>2. QED
      BY <1>7, <2>1 DEF ExchangeStart, IInv, TypeOK, LoopInv, RetryBound,
         ConnectedListed, NilMeansConnected, ExchangeCapped
  <1>8. CASE ExchangeStep
    BY <1>8 DEF ExchangeStep, IInv, TypeOK, LoopInv, RetryBound,
       ConnectedListed, NilMeansConnected, ExchangeCapped
  <1>9. CASE UNCHANGED vars
    BY <1>9 DEF vars, IInv, TypeOK, LoopInv, RetryBound,
       ConnectedListed, NilMeansConnected, ExchangeCapped
  <1>10. QED
    BY <1>1, <1>2, <1>3, <1>4, <1>5, <1>6, <1>7, <1>8, <1>9 DEF Next

\* For every set of addresses and peers, every retry bound and peer cap
\* and every initial list, duplicates included: ConnectToBootstrapNodes
\* retries each node at most maxRetries times, marks only listed nodes
\* connected and returns nil only when it connected its whole copy of the
\* list, and ExchangePeers connects at most maxPeers peers, under any
\* interleaving with AddNode and the context's cancellation.
THEOREM BootstrapSafe ==
    ASSUME BootstrapConstants
    PROVE  Spec => []IInv
  <1>1. Init => IInv
    <2> SUFFICES ASSUME Init PROVE IInv
      OBVIOUS
    <2>1. TypeOK
      BY EmptySeq DEF BootstrapConstants, Init, TypeOK
    <2>2. NodeSet(snap) = {}
      BY DEF Init, NodeSet
    <2>3. QED
      BY <2>1, <2>2 DEF BootstrapConstants, Init, IInv, LoopInv, RetryBound,
         ConnectedListed, NilMeansConnected, ExchangeCapped
  <1>2. IInv /\ [Next]_vars => IInv'
    BY IInvStep
  <1>3. QED
    BY <1>1, <1>2, PTL DEF Spec

=============================================================================
