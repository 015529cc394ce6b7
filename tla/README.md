# TLA+ models of the SynapseX P2P node

This directory holds TLA+ models of the Go code under `src/`. It has
TLC configurations that model-check them on small instances, and TLAPS
proofs for every value of the constants. The proofs cover the main safety
invariants of the session engine, the node lifecycle, the bootstrap loop,
the route cache, the topology manager and the reputation updates. They
also cover two refinements: the topology manager implements an atomic
manager, and the locked reputation updates implement atomic ones. They also cover the handshake's int64
timestamp check and the monitor's counters and `Stop`. `PROJECT.json` is the machine-readable index. It
lists components, runs, mutants, the map from definitions to source
lines, findings, hazards and theorems.

## The system

A node (`src/unnamed/part_000`, package `node`) wraps one `Network`, the
session engine in `src/pkg/p2p/topology/reputation.go` (lines 139-944). The
Network owns these parts:

- **Connection pool** (`src/pkg/p2p/pool.go`). It holds the map of
  connections, with a capacity check in `AddConnection`. It also holds a
  peer table, and runs a `CleanInactive` ticker that closes and evicts
  idle connections.
- **Topology manager** (`src/pkg/p2p/topology/manager.go`). It holds the
  per-peer quality, reputation and load, ranks peers (`GetBestPeers`),
  classifies the topology and reports metrics. Every method runs under one
  `sync.RWMutex`.
- **Handshake manager** (`src/pkg/p2p/crypto/handshake.go`). It creates and
  verifies signed handshake messages, with a 300s timestamp window.
  `encrypt.go` does hybrid RSA/AES-GCM encryption.
- **Message protocol** (`src/unnamed/part_004`). It covers typed JSON frames
  and `Validate`.
- **Router** (`routing.go`), **reputation system** (`reputation.go` 1-138),
  **monitor** (`monitor/monitor.go`) and **discovery**
  (`src/unnamed/part_001..003`). These sit around the core.

### How the parts interact

`Start` runs under `n.mu`. It creates the context and the listener, and
launches the accept loop, the pool sweep, the message dispatcher and the
heartbeat service.

Each socket gets a goroutine that runs `handleConnectionWithEncryption`,
in these steps:

1. `pool.AddConnection`.
2. The deferred teardown is installed.
3. `performSecureHandshake`: the accepting side receives, verifies,
   registers, then responds. The dialling side sends, receives, verifies,
   then registers.
4. `registerPeer` writes `n.peers`, the pool's peer table and the topology
   manager.
5. `readMessages` loops: ctx check, read with a 30s deadline, decode,
   `Validate`, `processMessage`.
6. `HELLO` re-registers the id that the payload names. Unknown types are
   queued on `messageChan` (100 slots), or dropped when it is full.

`Stop` runs its body once, through `sync.Once`. It cancels the context,
closes the listener, closes the connections in a snapshot of the pool,
and clears `n.peers`. None of this runs under `n.mu`.

## Modules

| module | models |
|---|---|
| `Network` | the session engine, the connection pool and the heartbeat loop |
| `NetworkProofs` | TLAPS proofs about `Network` |
| `MC_Network` | model values and symmetry for `Network` |
| `TopologyManager` | the topology manager's methods over the RWMutex |
| `TopologyAtomic` | the abstract manager: every `AddPeer`, `RemovePeer` and metrics call is one atomic step |
| `TopologyProofs` | TLAPS proofs about `TopologyManager`, the refinement included |
| `MC_TopologyManager` | model values, operation sets and symmetry |
| `ReputationSystem` | the reputation updates over the manager's `GetPeerInfo` and `UpdatePeerReputation` |
| `ReputationAtomic` | the abstract reputation store: every update is one atomic step |
| `MC_ReputationSystem` | model values and operation sets |
| `Router` | `RouteMessage` with its route cache, the three strategies and `UpdateRouteCache` |
| `MC_Router` | model values and symmetry |
| `Node` | the node lifecycle of `part_000`, with a TLAPS type proof |
| `MC_Node` | model values and symmetry |
| `Bootstrap` | the discovery `BootstrapManager` and `PeerExchange` of `part_003`, with a TLAPS safety proof |
| `RouterProofs` | TLAPS proofs about `Router` |
| `ReputationProofs` | TLAPS proofs about `ReputationSystem`, the refinement included |
| `Handshake` | `VerifyHandshakeMessage` and its int64 timestamp window, as operators with proofs |
| `Monitor` | the `HealthChecker`, `Stats`, `QualityMonitor` and `BandwidthLimiter` of `monitor.go`, with proofs |

### Network

There is one process per socket (`Conns`). `pc[c]` follows
`handleConnectionWithEncryption` through these states: `add`, `sendHS` or
`recvHS`, `register`, `respond` (accepting side only), then `loop` and
`read` alternately, then `teardown` and `done`.

Every critical section under one lock is one step: `AddConnection`,
one frame's processing, and each of `Stop`'s four phases. `registerPeer`
takes three locks one after another (`n.peersMu` for `n.peers`, the pool's
lock in `pool.AddPeer`, the Manager's in `topologyMgr.AddPeer`); the model
merges the three sections into one step, so it does not show another
connection's step between them. The two phases of `Start` are separate steps,
because `Stop` does not take `n.mu` and can run between them.

Data is abstracted as follows:

- A handshake is the node id it claims. The signature is checked against
  the key carried in the message itself, so any id can be claimed.
- A frame is `HELLO` with an id, `OTHER` (queued) or `HANDLED`. `HANDLED`
  covers heartbeat, ping, pong, peer list and undecodable frames.
- Time is the flag `stale[c]`, meaning the timeout has passed since
  `LastSeen`.
- Of everything this node writes on a socket, only the kind of the first
  frame is kept (`firstOut`).

The environment's actions are these:

- a remote side's input (`Accept`, `ReceiveHandshake`, `ReadFrame`,
  `HandshakeFails`, `ReadFails`);
- time passing (`Idle`);
- the application's calls (`Connect`, `SendMessage`, `Broadcast`,
  `StartContext`, `StopCancel`).

The heartbeat service (`heartbeatService`, one of the `loops`) broadcasts
a heartbeat on each tick, so its step is `Broadcast`. The pool's
`AddPeer`, `GetPeers` and `GetConnections` are the helpers `PoolAddPeer`,
`PoolGetPeers` and `GetConnections`. `registerPeer`, `Broadcast` and
`Stop` use them, as the code does.

### TopologyManager

There is one process per calling goroutine (`Threads`). Each process
repeatedly calls a method from `Ops`. `sync.RWMutex` is modelled by what
its code does:

- `Lock` takes the writer mutex and announces itself. From then on every
  `RLock` parks.
- The writer waits for the `readerWait` readers it counted.
- `Unlock` hands the lock to every parked reader before the next writer
  can announce.

`GetNetworkMetrics` and `GetOptimalPeersForBroadcast` take the read lock a
second time, in their nested calls. The peer map is reduced to its key
set, and only the metrics report is kept of the results.

`TopologyAtomic` is what the manager promises (spec section 4.4). The
peer table changes one `AddPeer` or `RemovePeer` at a time. A metrics call
reports the peer count at one instant, with the classification spec
section 4.4 gives that count. `SpecTopology` is defined there.

`TopologyManager` maps onto it by `peers` and `report` unchanged
(`Atomic == INSTANCE TopologyAtomic WITH ...`), and `AtomicManager` is
`Atomic!Spec`. `AddPeer` and `RemovePeer` are the abstract steps of the
same name. `MetricsTopology`, where the nested `GetTopologyType` reads the
count a second time, is the abstract `Metrics`. Every other step is a
stutter.

`RWExclusive` is the RWMutex's exclusion as the manager relies on it.
While a writer method runs its body, every other goroutine is idle,
waiting in `Lock` or parked in its first `RLock`.

### ReputationSystem and ReputationAtomic

There is one process per calling goroutine (`Threads`). Each process
calls an update method from `Ops`, through these steps:

1. `Call`.
2. `LockRS`, for `Performance` and `Reliability`, which hold `rs.mu`.
3. `ReadReputation`, that is `GetPeerInfo`. An unknown peer returns here.
4. `WriteReputation`, that is `UpdatePeerReputation`, and the release of
   `rs.mu`.

`DecayReputation` has the shape of `UpdateReputationBasedOnBehavior`.
`AddPeer` and `RemovePeer` stand for `registerPeer` and the manager's
removal.

A reputation value is the sequence of updates it results from. Each
update computes its new value from the value it read. An entry also
records which `AddPeer` created it (`born`).

`ReputationAtomic` is what the store should promise: every update
appends itself to the peer's current reputation, in one step. Its state
is the reputation of each id (`reputation`, or `None` for an unknown id)
and the registrations so far.

`ReputationSystem` implements it under a refinement mapping,
`Atomic == INSTANCE ReputationAtomic WITH reputation <- RepView,
registrations <- adds`. `RepView` is the reputation each entry holds,
without its `born` tag, because a caller cannot observe which `AddPeer`
made an entry. `AtomicRefinement` is `Atomic!Spec`.

A stale write into a re-created entry breaks the refinement only when
the stale value differs from the fresh one. TLC finds such a case in
`rep_reregister`.

### Router

There is one process per `RouteMessage` call (`Threads`). Its steps are:

1. `Lookup`, the `RLock` section.
2. `LockRecheck`, the write lock and the second look-up.
3. `Compute`, the strategy's first manager call.
4. `ComputeBest`, shortest-path's fallback `GetBestPeers(2)`. This is a
   second manager call, so the peers may have changed since the first.
5. `Store`, the store and unlock.

`Updaters` change the manager's peer set. With `Invalidating` they then
call `UpdateRouteCache`, as spec section 4.5 asks. In the code nothing
calls it.

The ranking is abstracted: `GetBestPeers(n)` is any `min(n, |peers|)`
known peers. `UpdatePeerMetrics` is not modelled, because it does not
compile (`routing.go:114`).

### Handshake

`VerifyHandshakeMessage(msg, now, H)` returns the error of the first
check that fails, in the code's order: nil, public key, signature, then
timestamp. The key and the signature are abstracted to whether they parse
and verify.

`TooFar` is the code's `currentTime-msg.Timestamp > 300 ||
msg.Timestamp-currentTime > 300`, with each subtraction done as Go does it
on a word: `Wrap(x, H)` reduces `x` modulo `2H` into `-H .. H-1`. For
int64, `H = 2^63`.

The module is stated for every half-range `H`, for two reasons. TLC's
integers are 32 bits wide and cannot hold int64 values. And the provers
cannot compute with the literal `2^63`, while every fact needed holds for
any `H > 300`.

### Monitor

`Start` is `wg.Add(1)` and a new goroutine, drawn from the slots in
`Goroutines`. The goroutine's loop leaves (`Exit`, `wg.Done`) once
`stopCh` is closed. Its ticks run `performHealthChecks`, which only reads
and logs, so they are stutters.

`Stop` closes `stopCh`, or panics if it is closed already. `StopWait` is
its `wg.Wait`.

`Senders` are goroutines in `sendMessageToConn`. Each first calls
`AddBytesSent(len(data))` and then `IncrementMessagesSent`, under `s.mu`
twice. `AddBytesReceived` is `readMessages`' call. Nothing calls
`IncrementMessagesReceived`, so `msgsRecv` stays 0.

`GetStats` copies all four counters under one `RLock`. `MaxBytes` bounds
the byte counters below `2^64`, so they never wrap.

`UpdatePeerQuality` and `UpdateSpeed` are `QualityMonitor`'s and
`BandwidthLimiter`'s setters, one locked step each.

### Node

The node has one process per caller (`Callers`), running `Start`, `Stop`
or `Wait`. `Status()` and `setStatus` are separate `n.mu` sections, so a
check and the change that follows it are separate steps. The run
goroutines are a count (`runs`); each exits when the context is cancelled
or `stopCh` is closed.

Closing `stopCh` or `doneCh` a second time panics. The model records this
as `crashed`, and `Next` stops there.

### Bootstrap

`ConnectToBootstrapNodes` runs as one goroutine, with these steps:

1. `ConnectStart` copies `b.nodes`.
2. `NextNode` is the range loop and its `return lastErr`.
3. `Attempt` is one `connectFunc` call. On success it marks the node
   `connected`. On failure it goes round again; the retry delay is left
   out.
4. `GiveUp` is `connectWithRetry`'s error return, from a cancelled
   context or after `maxRetries` attempts.

Meanwhile other goroutines call `AddNode`, which skips duplicates. The
initial list `InitNodes` may hold duplicates, because
`NewBootstrapManager` keeps the slice it is given.

`ExchangePeers` walks a discovered list of at most `MaxFound` peers. It
stops at the end of the list, at `maxPeers` connections, or on
cancellation. `connectFunc` and `peerConnect` succeed or fail
nondeterministically.

## Runs

Network runs use 2 sockets, pool capacity 1 and queue capacity 1. They
use 2 ids, except `net_engine`, which uses one id so that the liveness
check fits in the time budget. Those sizes are enough for every case the
properties are about:

- a full pool, so a second socket is refused;
- one socket per side;
- two ids, so one can be rebound to the other's connection;
- a full queue, so a frame is dropped.

Other runs use these sizes:

- **TopologyManager**: 2 goroutines, 4 peer ids and `meshThreshold` 10.
  Four ids take the peer count across the star/full-mesh boundary at 3.
- **ReputationSystem**: 2 goroutines, one peer and at most 2 calls each.
  `rep_reregister` allows a second `AddPeer`.
- **Router**: 2 route callers, 2 updaters and 3 peers. Three peers make
  the fallback `GetBestPeers(2)` a real choice.
- **Node**: 2 callers.

| run | checks | result |
|---|---|---|
| `net_engine` | `TypeOK`, `PoolCapacity`, `PoolOwned`, `RegisteredAfterVerify`, `IdleReclaimed` under `FairSpec` | pass, about 1.5M states |
| `net_stale_peer` | `PeerConnLive` | violated: teardown never unregisters the peer |
| `net_hello_hijack` | `PeerIdentityBound` | violated: a HELLO rebinds an authenticated id |
| `net_stop_quiesce` | `StopQuiesces` | violated: a handshake read begun after Stop's snapshot never ends |
| `topo_metrics` | `TypeOK`, `MetricsConsistent`, `RWExclusive`, `AtomicManager` | pass, 242,094 states; deadlock not checked, because the re-entrant RLock really deadlocks |
| `topo_live` | `CallsReturn`, all methods except the two re-entrant ones | pass |
| `topo_deadlock` | `CallsReturn`, `AddPeer` against `GetNetworkMetrics` | violated: the recursive RLock deadlock |
| `rep_lost` | `NoLostUpdate`, all methods | violated: two unlocked Behavior updates read the same reputation and one write is lost |
| `rep_atomic` | `TypeOK`, `NoLostUpdate`, `AtomicRefinement`, locked methods only | pass: `rs.mu` makes the updates atomic |
| `rep_reregister` | `AtomicRefinement`, with re-registration | violated: an update read from the old entry writes into the new one |
| `route_coherent` | `TypeOK`, `CacheCoherent`, shortest-path, with invalidation | pass |
| `node_double_close` | `NoDoubleClose` | violated: two concurrent Starts spawn two run goroutines, and both close `doneCh` |

The violations are listed under `findings` in `PROJECT.json`, with the
source line each one comes from. Every property of a passing run has a
mutant: a plausible bug in the definition that models the code, which
the run then catches. Examples:

- an off-by-one capacity check;
- a handshake failure that skips the teardown;
- a sweep that evicts without closing;
- update methods that do not take `rs.mu`;
- a `Lock` that enters, or leaves its drain, without waiting for the
  readers it counted;
- an `UpdateRouteCache` that swaps the map without `r.mu`.

Three more configurations are kept, though they are not part of the run
list:

- `MC_Network_hs_order.cfg` (`HandshakeFirst`): a message is written
  before the handshake response.
- `MC_Network_stop_start.cfg` (`StopEffective`): a Stop before or during
  Start is lost.
- `MC_Network_nil_ctx.cfg` (`NoNilContext`): a Connect before Start
  reaches the nil context.

TLC reports each of them violated. The hazards they cover name them.

### Fairness

Network assumes weak fairness on these steps:

- every local step of a connection goroutine;
- `StartListen` and the later phases of `Stop`;
- the accept loop's own steps;
- the sweep ticker, the dispatcher, and each loop's exit on a cancelled
  context.

The Go scheduler runs every runnable goroutine, and a ticker fires
forever.

A read that waits on the remote side is fair only where the local side
ends it. A read on a closed socket fails, and the read deadline fires on a
stale connection (the `WF` on `sock closed /\ HandshakeFails` and on
`(closed \/ stale) /\ ReadFails`). Remote input and the application's
calls are never assumed to happen.

TopologyManager assumes weak fairness on every step of a goroutine. It
assumes strong fairness on taking `rw.w`, because `sync.Mutex` enters
starvation mode and hands the mutex to a waiter that has waited over
1ms.

## Proofs

### `NetworkProofs`

These are proved with TLAPS for every finite set of sockets, every set of
ids, every capacity `>= 1` and every queue size. The assumption is
`ConstAssumption`.

- `TypeCorrect`: `Spec => []TypeOK`.
- `CapacityHolds`: `Spec => []PoolCapacity`.
- `NoLeakedSlot`: `Spec => []PoolOwned`.
- `RegistrationVerified`: `Spec => []RegisteredAfterVerify`.

`TypeOK` is not inductive. `registerPeer` indexes the tables with
`verified[c]`, which is an id only because the goroutine got past the
handshake. The inductive invariant adds `VerifiedInv`: in `register`,
`respond`, `loop` and `read`, `verified[c]` is an id. TLC checked it on
the engine instance before it was proved.

The pool invariants are then inductive on top of `TypeInv`:

- `PoolOwned` keeps a goroutine that is about to add, or has ended, out
  of the pool. This is what makes the full-pool branch of
  `AddConnection` and `Teardown` safe.
- Capacity follows from `FS_AddElement` and `FS_Subset`.
- Registration follows because verification is never undone.

Each step lemma has one case per action, split into the lifecycle and
API steps (`LifeStep`) and a connection's own steps. The heartbeat loop
is a `Broadcast`, so it shares that case.

### `RouterProofs`

These are proved under `Invalidating`: every peer change is followed by
`UpdateRouteCache`, as spec section 4.5 asks. They hold for every finite
set of peers, every set of goroutines and updaters, and every strategy.

- `TypeCorrect`: `Spec => []TypeOK`.
- `Coherent`: `Spec => []CacheCoherent`.

The inductive invariant `IInv` adds four facts:

- `Mutex`: a goroutine in `compute`, `best` or `store` holds `r.mu`.
- `Targeted`: a busy goroutine has a peer as its target.
- `BestShortest`: only shortest-path reaches `best`.
- `PendingValid`: while no updater is between its change and
  `UpdateRouteCache`, a route about to be stored is valid for the current
  peers.

The last one is needed because `Store` writes a route computed before the
lock's last acquisition. TLC checked `IInv` on the `route_coherent`
instance (93,675 states) before it was proved. Two lemmas state that what
`GetBestPeers` and `directRoute` return is a route.

### `TopologyProofs`

These hold under `ManagerAssumption`, for every finite set of goroutines,
every set of peer ids and methods, and every mesh threshold:

- `TypeCorrect`: `Spec => []TypeOK`;
- `Consistent`: `Spec => []MetricsConsistent`;
- `WriterExcludes`: `Spec => []RWExclusive`;
- `Refinement`: `Spec => AtomicManager`.

`None \notin Threads` was added to `ManagerAssumption`, so that `w = None`
means that no writer has announced itself.

None of the four is inductive as it stands. The inductive invariant `IInv`
says how the RWMutex's counters track the goroutines:

- `ReadersCount`: `readers` is the number of goroutines holding the
  outer read lock, plus those also holding the nested one. The second set
  is `Nested`, the goroutines in `inner`.
  A goroutine parked in `rwait2` still holds its outer lock.
- `WaitCount`: while a writer is announced, `readerWait = readers`. With
  none, it is 0.
- `WriterOwns`: a goroutine in `drain` or `write` is `w`.
- `Exclusive`: a goroutine in `write` sees `readers = 0`.
- `WriterArg`: a writer's argument is a peer id.
- `Fresh`: a `GetNetworkMetrics` goroutine in `inner` or `rwait2` counted
  the current number of peers.
- `PeersFinite`, `TypeOK` and `MetricsConsistent`.

`WaitCount` holds because an announced writer parks every new reader. So
`readers` and `readerWait` fall together, and `LockDrained` finds
`readers = 0`.

`Fresh` holds because a goroutine holding a read lock makes `readers`
positive. That keeps every writer out of `write` (`HeldExcludes`), and
only a writer in `write` changes `peers`.

`UnlockStep` covers the writers' `Unlock`, where every parked reader gets
the lock at once. `LeaveStep` covers a reader's `RUnlock`. `IStep` has one
case per action.

`Consistent` then follows from `TopologyTypeSpec`: `GetTopologyType`'s
nested IF equals the spec's classification for every count and threshold.

The refinement's `MapStep` maps `AddPeer`, `RemovePeer` and
`MetricsTopology` to abstract steps and every other step to a stutter. It
needs `Fresh` for the metrics step. It also needs `CardinalityInstance`:
the provers do not identify `Cardinality` reached through the instance
with the module's own until both are expanded.

TLC checked `IInv` on the `topo_metrics` instance (242,094 states) and on
the metrics-only instance before it was proved.

### `ReputationProofs`

These hold for every set of goroutines and peers and every bound:

- `TypeCorrect`: `Spec => []TypeOK`, for any `Ops`.
- `NoLostUpdateLocked`: `Spec => []NoLostUpdate` when
  `Ops \subseteq LockedOps`, for any `MaxAdds`.
- `Refinement`: `Spec => AtomicRefinement` when
  `Ops \subseteq LockedOps` and `MaxAdds <= 1`.

`NoLostUpdate` rests on three more facts:

- `Started`: a busy goroutine has its arguments.
- `Owned`: a goroutine between its read and its write holds `rs.mu`.
- `SnapCovers`: the value a writer read already holds every update
  applied to the entry.

`AddPeer` resets `applied`, so `SnapCovers` survives re-registration.

The refinement needs `SnapCurrent`: a writer's value is the current
entry's value while that entry exists. That is true only while an id is
registered at most once, which is why `Fresh` and `WriterAdded` come with
`MaxAdds <= 1`. The `rep_reregister` run shows the refinement failing
without that bound.

`MapStep` shows every step is an `Atomic!Next` step under `RepView`, or
leaves `RepView` and `adds` alone. The proof follows the `TwoPhase` layout
of the TLAPS examples. `FoldedAppend` and `SetRep` are lemmas about
appending to a reputation and setting it in a record.

`ReputationAssumption` also states that `None` is not an entry and not a
sequence. The provers cannot know this about a model value, and TLC
evaluates it on every reputation run. TLC checked all these invariants on
3 goroutines and 2 peers (2.35M states, `MaxAdds` 1) before they were
proved.

### `Handshake`

- `FreshnessWindow`: for a clock in `0 .. H-301` and any timestamp in the
  word, the check accepts exactly the timestamps within 300 s of the clock
  and the one `H` seconds before it. For the latter, both differences wrap
  to `-H`.
- `AncientAccepted`: hence a signed message whose timestamp is `2^63` s
  (about 292 billion years) in the past passes `VerifyHandshakeMessage`.
- `CreatedAccepted`: a message from `CreateHandshakeMessage` passes at any
  receiver clock within 300 s of the sender's.

`WrapDiff` says how `Wrap` acts on a difference inside, above and below
the word. The proof of `FreshnessWindow` has one case for each. Clocks
within 300 s of the word's end are excluded: there `now - ts` can wrap
back into the window too.

### `Monitor`

Under `MonitorAssumption`:

- the goroutine and sender sets are finite;
- frames are at least one byte, since `'\n'` is appended;
- `None` is not a report.

The theorems are:

- `StatsOrdered`: `Spec => []ReportsOrdered`. Every `GetStats` copy has
  at least one byte per message sent. The inductive invariant adds
  `SentCovered` (messages sent plus senders between their two sections is
  at most the bytes sent). The order of the two calls in
  `sendMessageToConn` is what keeps it.
- `StopWaitsForGoroutines`: `Spec => [][StopQuiesces]_vars`. A `Stop`
  returns only when no health goroutine is in its loop. It rests on
  `WgCounts`: `wg` is the number of running goroutines.

TLC checked both on 2 callers, 2 goroutine slots, 2 senders and frames of
1 or 2 bytes (9.09M states) before they were proved.

### `Node`

`TypeCorrect`: `Spec => []TypeOK`, for every set of callers. `TypeOK` is
inductive as it stands. The one step that needs care is `RunExit`, which
keeps `runs` a natural because it is enabled only while `runs > 0`.

### `Bootstrap`

`BootstrapSafe` proves `Spec => []IInv` under `BootstrapConstants`:
`maxRetries` and `maxPeers` are naturals, and the initial list is a
sequence of addresses. It holds for every set of addresses and peers and
every such list, duplicates included. `IInv` conjoins the following:

- `RetryBound`: at most `maxRetries` attempts per node;
- `ConnectedListed`;
- `NilMeansConnected`: a nil result means the whole copy was connected;
- `ExchangeCapped`;
- `TypeOK`;
- the strengthening `LoopInv`.

`LoopInv` says:

- the copy lists only known nodes;
- the loop index stays within the copy;
- while no error has been recorded, every node before the index is
  connected.

The last clause is what turns the loop's end into `NilMeansConnected`.
The lemma `AppendNodeSet` says that `AddNode`'s append adds exactly the
new node. It is proved from `AppendProperties` in `SequenceTheorems`.

TLC checked `IInv` on 2 addresses, 2 peers, `maxRetries` 2, `maxPeers` 1
and the initial list `<<a1, a1>>` (19,060 states) before it was proved.
TLC also caught a `GiveUp` that drops `lastErr`. The module has no run
in `PROJECT.json`, because the run budget is spent on the concurrent
components.

### What stays with TLC

- The liveness properties (`IdleReclaimed`, `CallsReturn`). TLAPS does
  not reason about fairness or `ENABLED` here.
- That the re-entrant read lock deadlocks (`topo_deadlock`), and that
  without it every call returns (`topo_live`). Both are about `ENABLED`
  and fairness.
- `NoLostUpdate` and `AtomicRefinement` outside the proved assumptions.
  `rep_lost` and `rep_reregister` show them failing there.
- `CacheCoherent` is checked only with `Invalidating` (the caller
  contract of spec section 4.5). Nothing under `src/` calls
  `UpdateRouteCache` after a topology change, and without that call the
  cache goes stale (hazard at `routing.go:67`); no run of the project
  checks that case.

## Not modelled yet: the plan

Each item below is a hazard or a component note in `PROJECT.json`.

1. **Ranking**: `GetBestPeers`, the quality score and
   `GetOptimalPeersForBroadcast` as operators, checked against the spec's
   ordering on bounded inputs. This includes the unstable `sort.Slice`
   tie-break. The Router abstracts it to any `min(n, |peers|)` peers.
2. **Message `Validate`**, as a pure check.
3. **Monitor in the session engine**: `Network` does not include the
   monitor. So no run shows that `Network.Stop` never stops the health
   goroutine (`reputation.go:646`). With the run budget spent, that needs
   a run to be swapped out.
4. **Router** `UpdatePeerMetrics`, once it compiles (`routing.go:114`).

The legacy `handleConnection` and `performHandshake` are not called
anywhere and are not modelled. mDNS discovery (`part_001`, `part_002`)
only hands addresses to `Connect`.

Out of reach, and not planned:

- RSA, AES-GCM (`encrypt.go`), key encoding and JSON encoding are pure
  computation below the abstraction. The handshake keeps only whether
  they succeed.
- The monitor's getters, `performHealthChecks` and `GetUnhealthyPeers`
  only read. Their results are logged or returned, and no property is
  about them.
- Logging and configuration loading have no state any property is about.
