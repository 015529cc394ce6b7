------------------------------ MODULE Network ------------------------------
(***************************************************************************)
(* The session engine of one Synapse node: the Network type of pkg/p2p     *)
(* (src/pkg/p2p/topology/reputation.go, lines 139-944) together with the   *)
(* ConnectionPool it owns (src/pkg/p2p/pool.go).                           *)
(*                                                                         *)
(* One goroutine per socket runs handleConnectionWithEncryption: it adds   *)
(* the connection to the pool, runs the secure handshake, registers the    *)
(* peer, then loops in readMessages until an error, and finally removes    *)
(* the connection from the pool (the deferred teardown).  Start, Stop,     *)
(* Connect, SendMessage and Broadcast are called by the application; the   *)
(* accept loop, the pool sweep and the dispatcher are goroutines launched  *)
(* by Start.  Each shared structure has its own lock, so every critical    *)
(* section is one step and steps of different goroutines interleave.      *)
(*                                                                         *)
(* Data is abstracted to what the properties tell apart: a handshake is    *)
(* the node id it claims, a frame is its kind, time is the flag stale[c]   *)
(* ("more than the timeout since LastSeen"), and of the bytes written on a *)
(* socket only the kind of the first frame is kept.                        *)
(***************************************************************************)
EXTENDS Naturals, FiniteSets

CONSTANTS
    Conns,           \* sockets, each with the goroutine that handles it
    Ids,             \* node ids a remote can claim in its handshake
    MaxConnections,  \* ConnectionPool.maxConnections (cfg.P2P.MaxPeers)
    QueueSize,       \* capacity of messageChan (DefaultMessageQueueSize)
    None             \* no connection / no id

ASSUME ConstAssumption ==
    /\ IsFiniteSet(Conns)
    /\ MaxConnections \in Nat \ {0}
    /\ QueueSize \in Nat
    /\ None \notin Conns \cup Ids

VARIABLES
    ctx,       \* n.ctx: "none" before Start, then "live" or "cancelled"
    listener,  \* n.listener: "none" (nil), "open", "closed"
    startPc,   \* "listen" while Start holds n.mu between its two steps
    stopPc,    \* progress of the body of n.shutdownOnce.Do in Stop
    acceptPc,  \* the acceptConnections goroutine
    loops,     \* the CleanInactive, processMessages and heartbeatService goroutines alive
    pc,        \* [Conns -> ...] the handleConnectionWithEncryption goroutine
    incoming,  \* [Conns -> BOOLEAN] accepted (TRUE) or dialled (FALSE)
    sock,      \* [Conns -> {"none","open","closed"}] the net.Conn
    stale,     \* [Conns -> BOOLEAN] IsActive(timeout) is false
    verified,  \* [Conns -> Ids \cup {None}] NodeID of the verified handshake
    firstOut,  \* [Conns -> {None,"HS","MSG"}] first frame this node wrote
    pool,      \* DOMAIN cp.connections
    poolPeers, \* cp.peers: peer id -> its Connection, or None
    peers,     \* n.peers: peer id -> its Connection, or None
    topo,      \* DOMAIN topologyMgr.peers
    queue      \* len(messageChan)

vars == <<ctx, listener, startPc, stopPc, acceptPc, loops, pc, incoming,
          sock, stale, verified, firstOut, pool, poolPeers, peers, topo, queue>>
connVars == <<pc, incoming, sock, stale, verified, firstOut>>
lifeVars == <<ctx, listener, startPc, stopPc, acceptPc, loops>>
tableVars == <<pool, poolPeers, peers, topo, queue>>

ConnStates == {"free", "add", "sendHS", "recvHS", "register", "respond",
               "loop", "read", "teardown", "done"}
\* States in which the goroutine still has its deferred RemoveConnection.
Owned == ConnStates \ {"free", "add", "done"}
Loops == {"sweep", "dispatch", "heartbeat"}
\* A frame read by readMessages: HELLO carrying a node id, a type that
\* processMessage queues, or one whose handling changes nothing modelled
\* (HEARTBEAT, PING, PONG, PEER_LIST, or a frame that fails to decode).
Frames == ({"HELLO"} \X Ids) \cup {"OTHER", "HANDLED"}

\* conn.Write of a frame of kind k: only the first frame is remembered, and
\* nothing is written on a closed socket.
Wrote(c, k) == IF firstOut[c] = None /\ sock[c] = "open" THEN k ELSE firstOut[c]

\* ConnectionPool.AddPeer: the pool's peer entry for id i now holds c.
PoolAddPeer(i, c) == [poolPeers EXCEPT ![i] = c]

\* ConnectionPool.GetPeers, reduced to the connections the peers hold.
PoolGetPeers == {poolPeers[i] : i \in Ids} \ {None}

\* ConnectionPool.GetConnections: a snapshot of the pooled connections.
GetConnections == pool

Init ==
    /\ ctx = "none"
    /\ listener = "none"
    /\ startPc = "idle"
    /\ stopPc = "idle"
    /\ acceptPc = "none"
    /\ loops = {}
    /\ pc = [c \in Conns |-> "free"]
    /\ incoming = [c \in Conns |-> FALSE]
    /\ sock = [c \in Conns |-> "none"]
    /\ stale = [c \in Conns |-> FALSE]
    /\ verified = [c \in Conns |-> None]
    /\ firstOut = [c \in Conns |-> None]
    /\ pool = {}
    /\ poolPeers = [i \in Ids |-> None]
    /\ peers = [i \in Ids |-> None]
    /\ topo = {}
    /\ queue = 0

-----------------------------------------------------------------------------
(* Start, under n.mu.  A second call while listener # nil returns an error *)
(* and changes nothing (a stuttering step).                                *)
StartContext ==
    /\ startPc = "idle"
    /\ listener = "none"
    /\ ctx' = "live"
    /\ startPc' = "listen"
    /\ UNCHANGED <<listener, stopPc, acceptPc, loops>>
    /\ UNCHANGED connVars /\ UNCHANGED tableVars

\* net.Listen fails (nothing else changes) or succeeds and the goroutines
\* are launched.
StartListen ==
    /\ startPc = "listen"
    /\ startPc' = "idle"
    /\ \/ UNCHANGED <<listener, acceptPc, loops>>
       \/ /\ listener' = "open"
          /\ acceptPc' = "top"
          /\ loops' = Loops
    /\ UNCHANGED <<ctx, stopPc>> /\ UNCHANGED connVars /\ UNCHANGED tableVars

(* Stop: the body of shutdownOnce.Do, in its four steps.  Every later call *)
(* is a no-op.  It reads n.cancel and n.listener without n.mu.             *)
StopCancel ==
    /\ stopPc = "idle"
    /\ stopPc' = "listener"
    /\ ctx' = IF ctx = "live" THEN "cancelled" ELSE ctx
    /\ UNCHANGED <<listener, startPc, acceptPc, loops>>
    /\ UNCHANGED connVars /\ UNCHANGED tableVars

StopListener ==
    /\ stopPc = "listener"
    /\ stopPc' = "conns"
    /\ listener' = IF listener = "open" THEN "closed" ELSE listener
    /\ UNCHANGED <<ctx, startPc, acceptPc, loops>>
    /\ UNCHANGED connVars /\ UNCHANGED tableVars

\* Closes every pooled socket; the connections stay in the pool until
\* their goroutines tear them down.
StopConns ==
    /\ stopPc = "conns"
    /\ stopPc' = "peers"
    /\ sock' = [c \in Conns |-> IF c \in GetConnections THEN "closed" ELSE sock[c]]
    /\ UNCHANGED <<ctx, listener, startPc, acceptPc, loops>>
    /\ UNCHANGED <<pc, incoming, stale, verified, firstOut>>
    /\ UNCHANGED tableVars

StopPeers ==
    /\ stopPc = "peers"
    /\ stopPc' = "done"
    /\ peers' = [i \in Ids |-> None]
    /\ UNCHANGED <<ctx, listener, startPc, acceptPc, loops>>
    /\ UNCHANGED connVars /\ UNCHANGED <<pool, poolPeers, topo, queue>>

-----------------------------------------------------------------------------
(* A new socket and its goroutine.                                         *)
Spawn(c, in) ==
    /\ pc[c] = "free"
    /\ pc' = [pc EXCEPT ![c] = "add"]
    /\ incoming' = [incoming EXCEPT ![c] = in]
    /\ sock' = [sock EXCEPT ![c] = "open"]
    /\ UNCHANGED <<stale, verified, firstOut>>

\* acceptConnections: the ctx check at the top of the loop.
AcceptTop ==
    /\ acceptPc = "top"
    /\ acceptPc' = IF ctx = "cancelled" THEN "exited" ELSE "accepting"
    /\ UNCHANGED <<ctx, listener, startPc, stopPc, loops>>
    /\ UNCHANGED connVars /\ UNCHANGED tableVars

\* listener.Accept returns a socket, handed to its own goroutine.
Accept(c) ==
    /\ acceptPc = "accepting"
    /\ listener = "open"
    /\ Spawn(c, TRUE)
    /\ acceptPc' = "top"
    /\ UNCHANGED <<ctx, listener, startPc, stopPc, loops>> /\ UNCHANGED tableVars

\* Accept fails on the closed listener; the loop exits only if ctx is done.
AcceptError ==
    /\ acceptPc = "accepting"
    /\ listener = "closed"
    /\ acceptPc' = IF ctx = "cancelled" THEN "exited" ELSE "top"
    /\ UNCHANGED <<ctx, listener, startPc, stopPc, loops>>
    /\ UNCHANGED connVars /\ UNCHANGED tableVars

\* Connect: net.DialTimeout succeeded (a failed dial changes nothing).
Connect(c) ==
    /\ Spawn(c, FALSE)
    /\ UNCHANGED lifeVars /\ UNCHANGED tableVars

-----------------------------------------------------------------------------
(* handleConnectionWithEncryption and performSecureHandshake.              *)

\* Variant: the capacity check is off by one (> for >=).
AddConnectionOffByOne(c) ==
    /\ pc[c] = "add"
    /\ IF Cardinality(pool) > MaxConnections
         THEN /\ sock' = [sock EXCEPT ![c] = "closed"]
              /\ pc' = [pc EXCEPT ![c] = "done"]
              /\ UNCHANGED pool
         ELSE /\ pool' = pool \cup {c}
              /\ pc' = [pc EXCEPT ![c] = IF incoming[c] THEN "recvHS" ELSE "sendHS"]
              /\ UNCHANGED sock
    /\ UNCHANGED <<incoming, stale, verified, firstOut>>
    /\ UNCHANGED lifeVars /\ UNCHANGED <<poolPeers, peers, topo, queue>>

\* Variant: a dialled connection goes straight to the read loop, as the
\* legacy handleConnection does (it runs no handshake when outgoing).
AddConnectionNoHandshake(c) ==
    /\ pc[c] = "add"
    /\ IF Cardinality(pool) >= MaxConnections
         THEN /\ sock' = [sock EXCEPT ![c] = "closed"]
              /\ pc' = [pc EXCEPT ![c] = "done"]
              /\ UNCHANGED pool
         ELSE /\ pool' = pool \cup {c}
              /\ pc' = [pc EXCEPT ![c] = IF incoming[c] THEN "recvHS" ELSE "loop"]
              /\ UNCHANGED sock
    /\ UNCHANGED <<incoming, stale, verified, firstOut>>
    /\ UNCHANGED lifeVars /\ UNCHANGED <<poolPeers, peers, topo, queue>>

\* pool.AddConnection: at capacity the socket is closed and the goroutine
\* returns (before its deferred teardown is installed).
AddConnection(c) ==
    /\ pc[c] = "add"
    /\ IF Cardinality(pool) >= MaxConnections
         THEN /\ sock' = [sock EXCEPT ![c] = "closed"]
              /\ pc' = [pc EXCEPT ![c] = "done"]
              /\ UNCHANGED pool
         ELSE /\ pool' = pool \cup {c}
              /\ pc' = [pc EXCEPT ![c] = IF incoming[c] THEN "recvHS" ELSE "sendHS"]
              /\ UNCHANGED sock
    /\ UNCHANGED <<incoming, stale, verified, firstOut>>
    /\ UNCHANGED lifeVars /\ UNCHANGED <<poolPeers, peers, topo, queue>>

\* Dialling side: CreateHandshakeMessage and sendHandshakeMessage; a write
\* error (or a closed socket) ends the goroutine.
SendHandshake(c) ==
    /\ pc[c] = "sendHS"
    /\ \/ /\ sock[c] = "open"
          /\ firstOut' = [firstOut EXCEPT ![c] = Wrote(c, "HS")]
          /\ pc' = [pc EXCEPT ![c] = "recvHS"]
       \/ /\ pc' = [pc EXCEPT ![c] = "teardown"]
          /\ UNCHANGED firstOut
    /\ UNCHANGED <<incoming, sock, stale, verified>>
    /\ UNCHANGED lifeVars /\ UNCHANGED tableVars

\* receiveHandshakeMessage returns a line that VerifyHandshakeMessage
\* accepts: it claims node id i (the signature is checked against the key
\* the message itself carries).  The read has no deadline.
ReceiveHandshake(c, i) ==
    /\ pc[c] = "recvHS"
    /\ sock[c] = "open"
    /\ verified' = [verified EXCEPT ![c] = i]
    /\ pc' = [pc EXCEPT ![c] = "register"]
    /\ UNCHANGED <<incoming, sock, stale, firstOut>>
    /\ UNCHANGED lifeVars /\ UNCHANGED tableVars

\* Variant: a failed handshake returns without the deferred teardown.
HandshakeFailsNoTeardown(c) ==
    /\ pc[c] = "recvHS"
    /\ pc' = [pc EXCEPT ![c] = "done"]
    /\ UNCHANGED <<incoming, sock, stale, verified, firstOut>>
    /\ UNCHANGED lifeVars /\ UNCHANGED tableVars

\* The read fails (closed socket, EOF), the line does not decode, or the
\* verification fails (bad key, bad signature, timestamp off by > 300s).
HandshakeFails(c) ==
    /\ pc[c] = "recvHS"
    /\ pc' = [pc EXCEPT ![c] = "teardown"]
    /\ UNCHANGED <<incoming, sock, stale, verified, firstOut>>
    /\ UNCHANGED lifeVars /\ UNCHANGED tableVars

\* registerPeer: n.peers, pool.AddPeer and topologyMgr.AddPeer.
registerPeer(c) ==
    /\ pc[c] = "register"
    /\ peers' = [peers EXCEPT ![verified[c]] = c]
    /\ poolPeers' = PoolAddPeer(verified[c], c)
    /\ topo' = topo \cup {verified[c]}
    /\ pc' = [pc EXCEPT ![c] = IF incoming[c] THEN "respond" ELSE "loop"]
    /\ UNCHANGED <<incoming, sock, stale, verified, firstOut>>
    /\ UNCHANGED lifeVars /\ UNCHANGED <<pool, queue>>

\* Accepting side, after registering: send our own handshake.
RespondHandshake(c) ==
    /\ pc[c] = "respond"
    /\ \/ /\ sock[c] = "open"
          /\ firstOut' = [firstOut EXCEPT ![c] = Wrote(c, "HS")]
          /\ pc' = [pc EXCEPT ![c] = "loop"]
       \/ /\ pc' = [pc EXCEPT ![c] = "teardown"]
          /\ UNCHANGED firstOut
    /\ UNCHANGED <<incoming, sock, stale, verified>>
    /\ UNCHANGED lifeVars /\ UNCHANGED tableVars

-----------------------------------------------------------------------------
(* readMessages.                                                           *)

\* The select on n.ctx.Done() at the top of the loop.  With ctx = "none"
\* (Connect before Start) the call on the nil context panics; no step is
\* taken and NoNilContext flags the state.
ReadLoopTop(c) ==
    /\ pc[c] = "loop"
    /\ ctx # "none"
    /\ pc' = [pc EXCEPT ![c] = IF ctx = "cancelled" THEN "teardown" ELSE "read"]
    /\ UNCHANGED <<incoming, sock, stale, verified, firstOut>>
    /\ UNCHANGED lifeVars /\ UNCHANGED tableVars

\* ReadBytes fails: closed socket, EOF, or the 30s read deadline.
ReadFails(c) ==
    /\ pc[c] = "read"
    /\ pc' = [pc EXCEPT ![c] = "teardown"]
    /\ UNCHANGED <<incoming, sock, stale, verified, firstOut>>
    /\ UNCHANGED lifeVars /\ UNCHANGED tableVars

\* Variant: processMessage sends on messageChan without the full check.
ReadFrameUnbounded(c, f) ==
    /\ pc[c] = "read"
    /\ sock[c] = "open"
    /\ stale' = [stale EXCEPT ![c] = FALSE]
    /\ pc' = [pc EXCEPT ![c] = "loop"]
    /\ IF f \in {"HELLO"} \X Ids
         THEN /\ peers' = [peers EXCEPT ![f[2]] = c]
              /\ poolPeers' = PoolAddPeer(f[2], c)
              /\ UNCHANGED queue
         ELSE /\ queue' = IF f = "OTHER" THEN queue + 1 ELSE queue
              /\ UNCHANGED <<peers, poolPeers>>
    /\ UNCHANGED <<incoming, sock, verified, firstOut>>
    /\ UNCHANGED lifeVars /\ UNCHANGED <<pool, topo>>

\* A frame arrives: UpdateLastSeen, decode, Validate, processMessage.
\* HELLO registers the payload's node id on this connection in n.peers and
\* the pool (handleHelloMessage); other types are queued, or dropped when
\* messageChan is full; the rest only answer on this socket.  Those replies
\* (peer list, heartbeat, pong) follow this side's handshake, which Wrote
\* has already recorded, so they are left out.
ReadFrame(c, f) ==
    /\ pc[c] = "read"
    /\ sock[c] = "open"
    /\ stale' = [stale EXCEPT ![c] = FALSE]
    /\ pc' = [pc EXCEPT ![c] = "loop"]
    /\ IF f \in {"HELLO"} \X Ids
         THEN /\ peers' = [peers EXCEPT ![f[2]] = c]
              /\ poolPeers' = PoolAddPeer(f[2], c)
              /\ UNCHANGED queue
         ELSE /\ queue' = IF f = "OTHER" /\ queue < QueueSize THEN queue + 1 ELSE queue
              /\ UNCHANGED <<peers, poolPeers>>
    /\ UNCHANGED <<incoming, sock, verified, firstOut>>
    /\ UNCHANGED lifeVars /\ UNCHANGED <<pool, topo>>

\* The deferred pool.RemoveConnection (idempotent) and conn.Close.
Teardown(c) ==
    /\ pc[c] = "teardown"
    /\ pool' = pool \ {c}
    /\ sock' = [sock EXCEPT ![c] = "closed"]
    /\ pc' = [pc EXCEPT ![c] = "done"]
    /\ UNCHANGED <<incoming, stale, verified, firstOut>>
    /\ UNCHANGED lifeVars /\ UNCHANGED <<poolPeers, peers, topo, queue>>

-----------------------------------------------------------------------------
(* Background goroutines, time and the sending API.                        *)

\* Variant: the sweep deletes idle connections without closing them.
cleanInactiveNoClose ==
    /\ "sweep" \in loops
    /\ pool' = {c \in pool : ~stale[c]}
    /\ UNCHANGED <<pc, incoming, sock, stale, verified, firstOut>>
    /\ UNCHANGED lifeVars /\ UNCHANGED <<poolPeers, peers, topo, queue>>

\* cleanInactiveConnections on a tick of CleanInactive: closes and evicts
\* every pooled connection that is not IsActive.
cleanInactiveConnections ==
    /\ "sweep" \in loops
    /\ pool' = {c \in pool : ~stale[c]}
    /\ sock' = [c \in Conns |-> IF c \in pool /\ stale[c] THEN "closed" ELSE sock[c]]
    /\ UNCHANGED <<pc, incoming, stale, verified, firstOut>>
    /\ UNCHANGED lifeVars /\ UNCHANGED <<poolPeers, peers, topo, queue>>

\* processMessages takes one message off messageChan.
processMessages ==
    /\ "dispatch" \in loops
    /\ queue > 0
    /\ queue' = queue - 1
    /\ UNCHANGED lifeVars /\ UNCHANGED connVars
    /\ UNCHANGED <<pool, poolPeers, peers, topo>>

\* CleanInactive, processMessages or heartbeatService sees ctx.Done() and
\* returns.
LoopExit(l) ==
    /\ l \in loops
    /\ ctx = "cancelled"
    /\ loops' = loops \ {l}
    /\ UNCHANGED <<ctx, listener, startPc, stopPc, acceptPc>>
    /\ UNCHANGED connVars /\ UNCHANGED tableVars

\* The timeout passes with no frame on a live connection.
Idle(c) ==
    /\ pc[c] \in Owned
    /\ ~stale[c]
    /\ stale' = [stale EXCEPT ![c] = TRUE]
    /\ UNCHANGED <<pc, incoming, sock, verified, firstOut>>
    /\ UNCHANGED lifeVars /\ UNCHANGED tableVars

\* SendMessage(i): the connection n.peers holds for i gets the frame.
SendMessage(i) ==
    /\ peers[i] # None
    /\ firstOut' = [firstOut EXCEPT ![peers[i]] = Wrote(peers[i], "MSG")]
    /\ UNCHANGED <<pc, incoming, sock, stale, verified>>
    /\ UNCHANGED lifeVars /\ UNCHANGED tableVars

\* Broadcast: every connection the pool's peers hold gets the frame;
\* failed writes are skipped.
Broadcast ==
    /\ firstOut' = [c \in Conns |-> IF c \in PoolGetPeers THEN Wrote(c, "MSG")
                                                     ELSE firstOut[c]]
    /\ UNCHANGED <<pc, incoming, sock, stale, verified>>
    /\ UNCHANGED lifeVars /\ UNCHANGED tableVars

\* heartbeatService's ticker fires: Broadcast of a heartbeat frame.
heartbeatService ==
    /\ "heartbeat" \in loops
    /\ Broadcast

-----------------------------------------------------------------------------
Local(c) ==
    \/ AddConnection(c) \/ SendHandshake(c) \/ registerPeer(c)
    \/ RespondHandshake(c) \/ ReadLoopTop(c) \/ Teardown(c)

Environment(c) ==
    \/ Accept(c) \/ Connect(c) \/ \E i \in Ids : ReceiveHandshake(c, i)
    \/ HandshakeFails(c) \/ ReadFails(c) \/ \E f \in Frames : ReadFrame(c, f)
    \/ Idle(c)

Next ==
    \/ StartContext \/ StartListen
    \/ StopCancel \/ StopListener \/ StopConns \/ StopPeers
    \/ AcceptTop \/ AcceptError
    \/ cleanInactiveConnections \/ processMessages \/ \E l \in Loops : LoopExit(l)
    \/ \E i \in Ids : SendMessage(i)
    \/ Broadcast \/ heartbeatService
    \/ \E c \in Conns : Local(c) \/ Environment(c)

Spec == Init /\ [][Next]_vars

(***************************************************************************)
(* Fairness: the Go scheduler runs every runnable goroutine, so each local *)
(* step is weakly fair, and so is the sweep ticker.  A read or accept that *)
(* waits on the remote side is fair only where the local side ends it: a   *)
(* read on a closed socket fails, and the read deadline fires on a stale   *)
(* connection.  Remote input and the application's calls are not fair.     *)
(***************************************************************************)
Fairness ==
    /\ WF_vars(StartListen)
    /\ WF_vars(StopListener) /\ WF_vars(StopConns) /\ WF_vars(StopPeers)
    /\ WF_vars(AcceptTop) /\ WF_vars(AcceptError)
    /\ WF_vars(cleanInactiveConnections) /\ WF_vars(processMessages)
    /\ \A l \in Loops : WF_vars(LoopExit(l))
    /\ \A c \in Conns :
         /\ WF_vars(Local(c))
         /\ WF_vars(sock[c] = "closed" /\ HandshakeFails(c))
         /\ WF_vars((sock[c] = "closed" \/ stale[c]) /\ ReadFails(c))

FairSpec == Spec /\ Fairness

-----------------------------------------------------------------------------
TypeOK ==
    /\ ctx \in {"none", "live", "cancelled"}
    /\ listener \in {"none", "open", "closed"}
    /\ startPc \in {"idle", "listen"}
    /\ stopPc \in {"idle", "listener", "conns", "peers", "done"}
    /\ acceptPc \in {"none", "top", "accepting", "exited"}
    /\ loops \subseteq Loops
    /\ pc \in [Conns -> ConnStates]
    /\ incoming \in [Conns -> BOOLEAN]
    /\ sock \in [Conns -> {"none", "open", "closed"}]
    /\ stale \in [Conns -> BOOLEAN]
    /\ verified \in [Conns -> Ids \cup {None}]
    /\ firstOut \in [Conns -> {None, "HS", "MSG"}]
    /\ pool \subseteq Conns
    /\ poolPeers \in [Ids -> Conns \cup {None}]
    /\ peers \in [Ids -> Conns \cup {None}]
    /\ topo \subseteq Ids
    /\ queue \in 0..QueueSize

\* AddConnection's capacity check and insert happen under one lock, so
\* concurrent accepts and dials never push the pool past its capacity.
PoolCapacity == Cardinality(pool) <= MaxConnections

\* No connection is left in the pool by a goroutine that has ended: every
\* path out of handleConnectionWithEncryption after AddConnection succeeds
\* runs the deferred RemoveConnection (no leaked pool slot).
PoolOwned == \A c \in pool : pc[c] \in Owned

\* A peer is registered (in n.peers or the pool) only on a connection whose
\* handshake verified, whichever side dialled and whatever HELLO frames and
\* Stop interleave.
RegisteredAfterVerify ==
    \A i \in Ids :
        /\ peers[i] # None => verified[peers[i]] # None
        /\ poolPeers[i] # None => verified[poolPeers[i]] # None

\* While the node is never stopped, a connection the sweep finds idle is
\* eventually torn down: the sweep is the only thing that reclaims a socket
\* whose remote never speaks again (the handshake read has no deadline).
IdleReclaimed ==
    [](stopPc = "idle") =>
        \A c \in Conns :
            (c \in pool /\ stale[c] /\ "sweep" \in loops) ~> (pc[c] = "done" \/ ~stale[c])

(***************************************************************************)
(* Properties the code is expected to have by the spec, a comment or a    *)
(* test; the runs that check them find them violated.                     *)
(***************************************************************************)

\* A registered peer's connection is still in the pool: the spec says a
\* Peer is removed on disconnect, but the deferred teardown only calls
\* RemoveConnection, so n.peers keeps the closed connection.
PeerConnLive == \A i \in Ids : peers[i] # None => peers[i] \in pool

\* The connection n.peers holds for id i authenticated as i in its
\* handshake (spec: a peer is registered only after its handshake
\* verifies).  handleHelloMessage rebinds any id named in a HELLO payload.
PeerIdentityBound ==
    \A i \in Ids : peers[i] # None => verified[peers[i]] = i

\* The first frame this node writes on a socket is its handshake message:
\* the other side reads exactly one handshake line before anything else.
\* The accepting side registers the peer before it sends its response, so
\* a Broadcast or SendMessage in between writes a message first.
HandshakeFirst == \A c \in Conns : firstOut[c] \in {None, "HS"}

\* Once Stop has run, the node neither listens nor has a live context
\* (spec: Stop cancels the context and closes the listener).
StopEffective == stopPc = "done" => (listener # "open" /\ ctx # "live")

\* No connection goroutine reaches readMessages with a nil n.ctx.
NoNilContext == \A c \in Conns : pc[c] = "loop" => ctx # "none"

\* Every connection goroutine alive when Stop returns, having cancelled the
\* context, eventually ends (spec: Stop force-closes every pooled
\* connection).  A socket added to the pool after Stop took its snapshot
\* stays open, and its handshake read has no deadline.
StopQuiesces ==
    \A c \in Conns :
        (stopPc = "done" /\ ctx = "cancelled" /\ pc[c] \in Owned) ~> (pc[c] = "done")

=============================================================================
