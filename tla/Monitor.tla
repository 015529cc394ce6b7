------------------------------ MODULE Monitor -------------------------------
(***************************************************************************)
(* The HealthChecker and Stats of src/pkg/p2p/monitor/monitor.go, with     *)
(* the calls the session engine makes on them (reputation.go: Start at     *)
(* line 283, the counters at lines 595-596 and 922).                       *)
(*                                                                         *)
(* HealthChecker.Start adds one to wg and starts a goroutine that loops    *)
(* on select { <-stopCh: return; <-ticker.C: performHealthChecks }; Stop   *)
(* closes stopCh, which panics if it is closed already, then waits on wg.  *)
(* performHealthChecks and GetUnhealthyPeers only read h.peers and call     *)
(* the check function; their results are logged or returned, so they      *)
(* change no state here.                                                   *)
(*                                                                         *)
(* Stats keeps four counters under s.mu.  sendMessageToConn, after a       *)
(* successful write, calls AddBytesSent(len(data)) and then                *)
(* IncrementMessagesSent: two separate critical sections.  readMessages    *)
(* calls AddBytesReceived for each frame and nothing calls                 *)
(* IncrementMessagesReceived.  GetStats copies the counters under RLock.   *)
(*                                                                         *)
(* QualityMonitor.UpdatePeerQuality and the BandwidthLimiter's setters     *)
(* store a value under their own lock; their getters read it.              *)
(***************************************************************************)
EXTENDS Naturals, FiniteSets, FiniteSetTheorems, TLAPS

CONSTANTS
    Callers,     \* goroutines calling Start, Stop, AddPeer, RemovePeer, GetStats
    Goroutines,  \* the health-check goroutines Start can launch
    Senders,     \* goroutines in sendMessageToConn
    PeerIds,
    Frames,      \* lengths of framed messages: data plus its '\n'
    MaxBytes,    \* bytes sent or received in a run (below 2^64: no wrap)
    Qualities,   \* ConnectionQuality values
    Speeds,      \* upload and download speeds
    None

VARIABLES
    hcPeers,     \* h.peers: the monitored ids
    stopClosed,  \* h.stopCh has been closed
    wg,          \* h.wg's counter
    gpc,         \* [Goroutines -> {"none", "run", "done"}]
    cpc,         \* [Callers -> {"idle", "wait", "panic"}]
    msgsSent, bytesSent, msgsRecv, bytesRecv,
    spc,         \* [Senders -> {"idle", "count"}]
    report,      \* [Callers -> the last GetStats copy, or None]
    quality,     \* q.peers: [PeerIds -> Qualities \cup {None}]
    speed        \* [up |-> currentUpload, down |-> currentDownload]

vars == <<hcPeers, stopClosed, wg, gpc, cpc, msgsSent, bytesSent, msgsRecv,
          bytesRecv, spc, report, quality, speed>>

hcVars == <<hcPeers, stopClosed, wg, gpc>>
statVars == <<msgsSent, bytesSent, msgsRecv, bytesRecv, spc>>
qbVars == <<quality, speed>>

Reports == [sent : Nat, bytesSent : Nat, recv : Nat, bytesRecv : Nat]

\* NewNetworkMonitor: NewStats and NewHealthChecker.
Init ==
    /\ hcPeers = {}
    /\ stopClosed = FALSE
    /\ wg = 0
    /\ gpc = [g \in Goroutines |-> "none"]
    /\ cpc = [c \in Callers |-> "idle"]
    /\ msgsSent = 0 /\ bytesSent = 0 /\ msgsRecv = 0 /\ bytesRecv = 0
    /\ spc = [s \in Senders |-> "idle"]
    /\ report = [c \in Callers |-> None]
    /\ quality = [p \in PeerIds |-> None]
    /\ speed = [up |-> 0, down |-> 0]

\* HealthChecker.Start: h.wg.Add(1) and a new goroutine.
Start(c, g) ==
    /\ cpc[c] = "idle"
    /\ gpc[g] = "none"
    /\ wg' = wg + 1
    /\ gpc' = [gpc EXCEPT ![g] = "run"]
    /\ UNCHANGED <<hcPeers, stopClosed, cpc, statVars, report, qbVars>>

\* The goroutine's select takes <-h.stopCh and returns; defer h.wg.Done().
Exit(g) ==
    /\ gpc[g] = "run"
    /\ stopClosed
    /\ wg' = wg - 1
    /\ gpc' = [gpc EXCEPT ![g] = "done"]
    /\ UNCHANGED <<hcPeers, stopClosed, cpc, statVars, report, qbVars>>

\* HealthChecker.Stop: close(h.stopCh); a closed channel panics.
Stop(c) ==
    /\ cpc[c] = "idle"
    /\ cpc' = [cpc EXCEPT ![c] = IF stopClosed THEN "panic" ELSE "wait"]
    /\ stopClosed' = TRUE
    /\ UNCHANGED <<hcPeers, wg, gpc, statVars, report, qbVars>>

\* h.wg.Wait() returns when the counter is zero.
StopWait(c) ==
    /\ cpc[c] = "wait"
    /\ wg = 0
    /\ cpc' = [cpc EXCEPT ![c] = "idle"]
    /\ UNCHANGED <<hcVars, statVars, report, qbVars>>

AddPeer(c, p) ==
    /\ cpc[c] = "idle"
    /\ hcPeers' = hcPeers \cup {p}
    /\ UNCHANGED <<stopClosed, wg, gpc, cpc, statVars, report, qbVars>>

RemovePeer(c, p) ==
    /\ cpc[c] = "idle"
    /\ hcPeers' = hcPeers \ {p}
    /\ UNCHANGED <<stopClosed, wg, gpc, cpc, statVars, report, qbVars>>

\* sendMessageToConn after conn.Write: AddBytesSent(uint64(len(data))).
AddBytesSent(s, n) ==
    /\ spc[s] = "idle"
    /\ bytesSent + n <= MaxBytes
    /\ bytesSent' = bytesSent + n
    /\ spc' = [spc EXCEPT ![s] = "count"]
    /\ UNCHANGED <<hcVars, cpc, msgsSent, msgsRecv, bytesRecv, report, qbVars>>

\* ... then IncrementMessagesSent, under s.mu again.
IncrementMessagesSent(s) ==
    /\ spc[s] = "count"
    /\ msgsSent' = msgsSent + 1
    /\ spc' = [spc EXCEPT ![s] = "idle"]
    /\ UNCHANGED <<hcVars, cpc, bytesSent, msgsRecv, bytesRecv, report, qbVars>>

\* readMessages: AddBytesReceived(uint64(len(data))) for each frame read.
AddBytesReceived(n) ==
    /\ bytesRecv + n <= MaxBytes
    /\ bytesRecv' = bytesRecv + n
    /\ UNCHANGED <<hcVars, cpc, msgsSent, bytesSent, msgsRecv, spc, report, qbVars>>

\* GetStats: stats := *s under s.mu.RLock().
GetStats(c) ==
    /\ cpc[c] = "idle"
    /\ report' = [report EXCEPT ![c] = [sent |-> msgsSent, bytesSent |-> bytesSent,
                                        recv |-> msgsRecv, bytesRecv |-> bytesRecv]]
    /\ UNCHANGED <<hcVars, cpc, statVars, qbVars>>

\* QualityMonitor.UpdatePeerQuality: q.peers[peerID] = &quality under q.mu.
UpdatePeerQuality(c, p, q) ==
    /\ cpc[c] = "idle"
    /\ quality' = [quality EXCEPT ![p] = q]
    /\ UNCHANGED <<hcVars, cpc, statVars, report, speed>>

\* BandwidthLimiter.UpdateUploadSpeed and UpdateDownloadSpeed under b.mu.
UpdateSpeed(c, dir, v) ==
    /\ cpc[c] = "idle"
    /\ speed' = [speed EXCEPT ![dir] = v]
    /\ UNCHANGED <<hcVars, cpc, statVars, report, quality>>

Next ==
    \/ \E c \in Callers :
         \/ \E g \in Goroutines : Start(c, g)
         \/ Stop(c) \/ StopWait(c) \/ GetStats(c)
         \/ \E p \in PeerIds : AddPeer(c, p) \/ RemovePeer(c, p)
         \/ \E p \in PeerIds, q \in Qualities : UpdatePeerQuality(c, p, q)
         \/ \E dir \in {"up", "down"}, v \in Speeds : UpdateSpeed(c, dir, v)
    \/ \E g \in Goroutines : Exit(g)
    \/ \E s \in Senders : \/ \E n \in Frames : AddBytesSent(s, n)
                          \/ IncrementMessagesSent(s)
    \/ \E n \in Frames : AddBytesReceived(n)

Spec == Init /\ [][Next]_vars
-----------------------------------------------------------------------------
\* What the proofs assume of the constants.
MonitorAssumption ==
    /\ IsFiniteSet(Goroutines)
    /\ IsFiniteSet(Senders)
    /\ Frames \subseteq Nat \ {0}
    /\ MaxBytes \in Nat
    /\ None \notin Reports

TypeOK ==
    /\ hcPeers \subseteq PeerIds
    /\ stopClosed \in BOOLEAN
    /\ wg \in Nat
    /\ gpc \in [Goroutines -> {"none", "run", "done"}]
    /\ cpc \in [Callers -> {"idle", "wait", "panic"}]
    /\ msgsSent \in Nat /\ bytesSent \in Nat /\ msgsRecv \in Nat /\ bytesRecv \in Nat
    /\ spc \in [Senders -> {"idle", "count"}]
    /\ report \in [Callers -> Reports \cup {None}]

\* The health goroutines still in their loop, and the senders between
\* AddBytesSent and IncrementMessagesSent.
Running == {g \in Goroutines : gpc[g] = "run"}
Counting == {s \in Senders : spc[s] = "count"}

\* h.wg counts the goroutines Start launched that have not returned.
WgCounts == wg = Cardinality(Running)

\* Every message counted, and every one about to be, has its bytes counted.
SentCovered == msgsSent + Cardinality(Counting) <= bytesSent

\* Every GetStats copy reports at least one byte per message sent: each
\* frame carries its '\n', and sendMessageToConn adds the bytes before it
\* counts the message, so no interleaving of senders and readers of the
\* stats can see a message without its bytes.
ReportsOrdered ==
    \A c \in Callers : report[c] # None => report[c].sent <= report[c].bytesSent

\* A Stop returns only when no health goroutine is left in its loop: the
\* wg.Wait after close(h.stopCh) waits for every goroutine Start launched.
StopQuiesces ==
    \A c \in Callers : cpc[c] = "wait" /\ cpc'[c] = "idle" => Running' = {}

MInv == TypeOK /\ WgCounts /\ SentCovered /\ ReportsOrdered

LEMMA CountFacts ==
    ASSUME MonitorAssumption
    PROVE  /\ IsFiniteSet(Running) /\ Cardinality(Running) \in Nat
           /\ IsFiniteSet(Counting) /\ Cardinality(Counting) \in Nat
<1>1. IsFiniteSet(Running) /\ IsFiniteSet(Counting)
  BY FS_Subset DEF MonitorAssumption, Running, Counting
<1>2. QED
  BY <1>1, FS_CardinalityType

LEMMA InitMInv == MonitorAssumption /\ Init => MInv
<1> SUFFICES ASSUME MonitorAssumption, Init PROVE MInv
  OBVIOUS
<1>1. Running = {} /\ Counting = {}
  BY DEF Init, Running, Counting
<1>2. Cardinality(Running) = 0 /\ Cardinality(Counting) = 0
  BY <1>1, FS_EmptySet
<1>3. TypeOK
  BY DEF Init, TypeOK
<1>4. QED
  BY <1>2, <1>3 DEF Init, MInv, WgCounts, SentCovered, ReportsOrdered

LEMMA MStep ==
    ASSUME MonitorAssumption, MInv, [Next]_vars
    PROVE  MInv'
<1> USE DEF MonitorAssumption, MInv, TypeOK, statVars, hcVars, qbVars
<1>0. /\ IsFiniteSet(Running) /\ Cardinality(Running) \in Nat
      /\ IsFiniteSet(Counting) /\ Cardinality(Counting) \in Nat
  BY CountFacts
<1>1. ASSUME NEW c \in Callers, NEW g \in Goroutines, Start(c, g) PROVE MInv'
  <2>1. Running' = Running \cup {g} /\ g \notin Running /\ Counting' = Counting
    BY <1>1 DEF Start, Running, Counting
  <2>2. Cardinality(Running') = Cardinality(Running) + 1
    BY <1>0, <2>1, FS_AddElement
  <2>3. QED
    BY <1>1, <2>1, <2>2 DEF Start, WgCounts, SentCovered, ReportsOrdered
<1>2. ASSUME NEW g \in Goroutines, Exit(g) PROVE MInv'
  <2>1. Running' = Running \ {g} /\ g \in Running /\ Counting' = Counting
    BY <1>2 DEF Exit, Running, Counting
  <2>2. /\ Cardinality(Running') = Cardinality(Running) - 1
        /\ Cardinality(Running') \in Nat
    BY <1>0, <2>1, FS_RemoveElement, FS_CardinalityType
  <2>3. WgCounts' /\ wg' \in Nat
    BY <1>2, <2>2 DEF Exit, WgCounts
  <2>4. QED
    BY <1>0, <1>2, <2>1, <2>3 DEF Exit, SentCovered, ReportsOrdered
<1>3. ASSUME NEW s \in Senders, NEW n \in Frames, AddBytesSent(s, n) PROVE MInv'
  <2>1. Counting' = Counting \cup {s} /\ s \notin Counting /\ Running' = Running
    BY <1>3 DEF AddBytesSent, Running, Counting
  <2>2. Cardinality(Counting') = Cardinality(Counting) + 1
    BY <1>0, <2>1, FS_AddElement
  <2>3. n \in Nat \ {0}
    OBVIOUS
  <2>4. QED
    BY <1>0, <1>3, <2>1, <2>2, <2>3 DEF AddBytesSent, WgCounts, SentCovered, ReportsOrdered
<1>4. ASSUME NEW s \in Senders, IncrementMessagesSent(s) PROVE MInv'
  <2>1. Counting' = Counting \ {s} /\ s \in Counting /\ Running' = Running
    BY <1>4 DEF IncrementMessagesSent, Running, Counting
  <2>2. Cardinality(Counting') = Cardinality(Counting) - 1
    BY <1>0, <2>1, FS_RemoveElement
  <2>3. QED
    BY <1>0, <1>4, <2>1, <2>2 DEF IncrementMessagesSent, WgCounts, SentCovered, ReportsOrdered
<1>5. ASSUME NEW c \in Callers, GetStats(c) PROVE MInv'
  <2>1. msgsSent <= bytesSent
    BY <1>0 DEF SentCovered
  <2>2. QED
    BY <1>5, <2>1 DEF GetStats, Reports, WgCounts, SentCovered, ReportsOrdered, Running, Counting
<1>6. ASSUME NEW c \in Callers,
             \/ Stop(c) \/ StopWait(c)
             \/ \E p \in PeerIds : AddPeer(c, p) \/ RemovePeer(c, p)
      PROVE  MInv'
  <2>1. Running' = Running /\ Counting' = Counting
    BY <1>6 DEF Stop, StopWait, AddPeer, RemovePeer, Running, Counting
  <2>2. QED
    BY <1>6, <2>1 DEF Stop, StopWait, AddPeer, RemovePeer, WgCounts, SentCovered, ReportsOrdered
<1>7. ASSUME NEW n \in Frames, AddBytesReceived(n) PROVE MInv'
  <2>1. Running' = Running /\ Counting' = Counting
    BY <1>7 DEF AddBytesReceived, Running, Counting
  <2>2. QED
    BY <1>7, <2>1 DEF AddBytesReceived, WgCounts, SentCovered, ReportsOrdered
<1>10. ASSUME NEW c \in Callers,
              \/ \E p \in PeerIds, q \in Qualities : UpdatePeerQuality(c, p, q)
              \/ \E dir \in {"up", "down"}, v \in Speeds : UpdateSpeed(c, dir, v)
       PROVE  MInv'
  <2>1. Running' = Running /\ Counting' = Counting
    BY <1>10 DEF UpdatePeerQuality, UpdateSpeed, Running, Counting
  <2>2. QED
    BY <1>10, <2>1 DEF UpdatePeerQuality, UpdateSpeed, WgCounts, SentCovered, ReportsOrdered
<1>8. CASE UNCHANGED vars
  BY <1>8 DEF vars, WgCounts, SentCovered, ReportsOrdered, Running, Counting
<1>9. QED
  BY <1>1, <1>2, <1>3, <1>4, <1>5, <1>6, <1>7, <1>8, <1>10 DEF Next

\* For any number of senders, readers and callers of GetStats, every copy
\* GetStats returns reports at least one byte per message sent.
THEOREM StatsOrdered ==
    ASSUME MonitorAssumption
    PROVE  Spec => []ReportsOrdered
<1>1. Spec => []MInv
  BY InitMInv, MStep, PTL DEF Spec
<1>2. QED
  BY <1>1, PTL DEF MInv

\* For any number of Start and Stop calls, a Stop returns only when every
\* health goroutine started so far has left its loop.
THEOREM StopWaitsForGoroutines ==
    ASSUME MonitorAssumption
    PROVE  Spec => [][StopQuiesces]_vars
<1>1. Spec => []MInv
  BY InitMInv, MStep, PTL DEF Spec
<1>2. MInv /\ MInv' /\ MonitorAssumption /\ [Next]_vars => [StopQuiesces]_vars
  <2> SUFFICES ASSUME MInv, MInv', MonitorAssumption, [Next]_vars,
                      NEW c \in Callers, cpc[c] = "wait", cpc'[c] = "idle"
               PROVE  Running' = {}
    BY DEF StopQuiesces
  <2>1. wg = 0 /\ gpc' = gpc
    <3>1. ASSUME NEW c2 \in Callers, StopWait(c2) PROVE wg = 0 /\ gpc' = gpc
      <4>1. c2 = c
        BY <3>1 DEF StopWait
      <4>2. QED
        BY <3>1, <4>1 DEF StopWait, hcVars
    <3>2. ASSUME NEW c2 \in Callers, Stop(c2) PROVE FALSE
      BY <3>2 DEF Stop
    <3>3. ASSUME NEW c2 \in Callers,
                 \/ \E g \in Goroutines : Start(c2, g)
                 \/ GetStats(c2)
                 \/ \E p \in PeerIds : AddPeer(c2, p) \/ RemovePeer(c2, p)
                 \/ \E p \in PeerIds, q \in Qualities : UpdatePeerQuality(c2, p, q)
                 \/ \E dir \in {"up", "down"}, v \in Speeds : UpdateSpeed(c2, dir, v)
          PROVE  FALSE
      BY <3>3 DEF Start, GetStats, AddPeer, RemovePeer, UpdatePeerQuality, UpdateSpeed
    <3>4. ASSUME \/ \E g \in Goroutines : Exit(g)
                 \/ \E s \in Senders : \/ \E n \in Frames : AddBytesSent(s, n)
                                       \/ IncrementMessagesSent(s)
                 \/ \E n \in Frames : AddBytesReceived(n)
                 \/ UNCHANGED vars
          PROVE  FALSE
      BY <3>4 DEF Exit, AddBytesSent, IncrementMessagesSent, AddBytesReceived, vars
    <3>5. QED
      BY <3>1, <3>2, <3>3, <3>4 DEF Next
  <2>2. wg = 0 /\ UNCHANGED gpc
    BY <2>1
  <2>3. Running = {}
    <3>1. IsFiniteSet(Running)
      BY CountFacts
    <3>2. QED
      BY <2>2, <3>1, FS_EmptySet DEF MInv, WgCounts
  <2>4. QED
    BY <2>2, <2>3 DEF Running
<1>3. QED
  BY <1>1, <1>2, MStep, PTL DEF Spec
=============================================================================
