# A TLA+ verification of neolaas

neolaas is a hardware laboratory as a service: servers (`crates/neolaas-server`)
form a cluster, agree through etcd on who its members are, divide the machines
of the laboratory among themselves by rendezvous hashing, and run one actor per
machine at the node that owns it. A Kubernetes operator
(`crates/neolaas-operator`) writes machines, switches and VLANs into etcd. The modules here
model that core, TLC checks them on small instances, and TLAPS proves every
safety property, action property and refinement that TLC checks, for every
instance. What must eventually happen is model-checked only.

Paths below are relative to `src/crates/neolaas-server/src/network/` unless they
start with `src/` or name the operator.

## 1. Inventory

| Component | State | Operations | Correct if |
|---|---|---|---|
| rendezvous hasher, `sharding/rendezvous.rs` | sorted vector of peer ids | `new`, `rebuild`, `lookup`, `is_local` | the owner is a function of key and peer *set*; a change moves only the keys of the peers that came or went |
| sharding coordinator, `sharding/actor.rs` | a hasher | `TopologyChanged`, `LookupMachine`, `GetShardStats` | nodes with equal peer sets never both claim a machine |
| bridge and start-up, `init.rs` | none of its own (channels) | forwards topologies to the coordinator and pokes the manager; runs the discovery task | no topology change is lost between discovery and the manager |
| machine manager, `machines/manager.rs` | `machine_specs`, `actors`, `restart_trackers`; topology listener, convergence waiter, watch loop | handlers of `EtcdMachineEvent`, `RebalanceActors`, `SyncAllMachines`, status questions | runs exactly the machines the coordinator gives it, with the spec etcd holds |
| machine actor, `machines/actor.rs` | spec, state, current booking | `ProvisionMachine`, `DeprovisionMachine`, `UpdateMachineSpec`, `GetMachineStatus`, `CheckOwnership` | a machine is booked by one client, and given back only by it |
| discovery, `discovery/*.rs` | known peers, lease, watch stream, phase | register, converge, maintain, reconnect, shut down; keep-alive task | what sharding is told is what etcd holds |
| peer health, `types/state.rs`, `health/ping_loop.rs` | per peer: status, failures, last failure, last seen | `mark_*`, `add_peer`, `remove_peer`, ping loop, cleanup loop | backoff ends, dead peers go, live ones stay |
| swarm event loop, `swarm/event_loop.rs` | libp2p swarm | connection events, discovery commands | peer health follows connections and discovery |
| supervision, `../observability/supervision.rs` | sliding window of restarts, restart count | `record_restart`, `reset`, `is_exhausted` | a limit over any window, backoff that never shrinks |
| process, `../main.rs` | – | signals, seven seconds of grace, exit | peers forget a process that ended |
| operator, `neolaas-operator/src/controllers`, `etcd/sync.rs` | the lock of its etcd client; else Kubernetes and etcd | three controllers: reconcile with a finalizer, requeue, retry | each object is in etcd or gone, no key outlives its object, kinds do not mix, the lock is passed on |

Interactions. Discovery sends the whole peer list over an unbounded channel to
the bridge; the bridge asks the coordinator to apply it and then sends an empty
message to the manager's topology listener, which asks the manager to rebalance
and waits for the reply. Convergence travels separately, over a oneshot, to the
waiter that asks for the initial sync. The watch loop forwards machine events
into the same bounded mailbox. The manager asks the coordinator for every
placement. Discovery also sends `AddPeer`/`RemovePeer` to the swarm event loop,
which shares `NetworkState` with the ping loop and the cleanup loop. Nodes meet
only through etcd (and libp2p pings): no node asks another before it starts or
stops a machine actor. The operator's three controllers share one etcd client
behind one lock.

What is hard: handlers that span several asks while the answers go stale; two
channels that overtake each other; a GET followed by a WATCH from "now"; leases
that expire under a paused process; actors that are stopped without being waited
for; etcd streams that break, end or are cancelled; nodes that place machines by
topologies that differ; crashes between two calls of the operator, and its lock
held across calls that fail. `PROJECT.json` lists each hazard at its line.

## 2. Modules

| Module | Models | Notes |
|---|---|---|
| `Rendezvous` | the hasher as operators | the hash is an arbitrary `score[m][p]`, the base58 text an injective `Rank`; ties stay, they are where the sort matters. `rebuild` is *the* vector of its peers in the order of the texts |
| `RendezvousProofs` | – | what `rebuild` and `lookup` return |
| `ShardingCoordinator` | all coordinators of a cluster | the score is a variable no action changes, so TLC takes every order of the scores |
| `NodePlacement` | what one node may do with its actors, as functions on a record of cached specs, running actors, "settled" and "alive" | no tasks, channels or lookups: a put acts by the owner of its moment, other moves happen only while a topology change is on its way, and the last of them leaves nothing astray |
| `Placement` | – (abstract) | one node under any topologies, by `NodePlacement`; `MachineManager` implements it |
| `Cluster` | several coordinators, each with a node of `NodePlacement` beside it | topologies and machine events are arbitrary, so every loss and delay of discovery and of the machine watch is included |
| `ClusterProofs` | – | theorems about `Cluster` and `ShardingCoordinator` |
| `MachineManager` | one node: discovery's channels, bridge, coordinator, listener, waiter, watch loop, manager | one step per moment at which the manager asks the coordinator or reads etcd; between those an actor's handler is invisible to the others |
| `MachineManagerProofs` | – | theorems about `MachineManager`, its refinement of `Placement` |
| `Booking` | – (abstract) | what an actor promises: a lock per incarnation |
| `MachineActor` | the successive actors of one machine, manager and clients around them | shown to implement `Booking` |
| `MachineActorProofs` | – | theorems about `MachineActor`, its refinement of `Booking` |
| `Discovery` | the controllers of a cluster, their keep-alive tasks and processes, etcd's peer keys | a node is one run of a process, since a peer id is fresh per start |
| `DiscoveryProofs` | – | theorems about `Discovery` |
| `NetworkState` | peer table, event loop, ping loop, cleanup loop of a node | instants as ages in ticks |
| `NetworkStateProofs` | – | theorems about `NetworkState` |
| `RestartTracker` | the restart limiter | `u32` saturation kept, with a small word; the `u64` product with the backoff cannot overflow below a backoff of 2^32 ms, 49 days |
| `RestartTrackerProofs` | – | theorems about `RestartTracker` |
| `Operator` | the three controllers, the lock of their etcd client, API server, etcd keys | kube's finalizer protocol is external; the lock is a FIFO queue, as tokio's `RwLock` is |
| `OperatorProofs` | – | theorems about `Operator` |
| `MC*` | instances for TLC | one per checked module |

State and actions keep the names of the fields and functions they stand for;
`PROJECT.json` maps each definition to its lines. A definition marked `external`
stands for code outside the repository (etcd, kube, kameo, clocks) as this code
uses it. An operator named after another with a suffix and introduced by
"Mutant of" is a plausible bug: substituted for the original, it makes the
property it is listed with fail. The specifications never use one.

Correspondences that are not obvious:

- *Mailboxes.* kameo handles one message at a time. `ask` is a message plus a
  waiting state of the asker (`listener`, `waiter`, `client`); `tell` on a full
  mailbox waits, so sending has room as its guard.
- *`MachineManager!put_panics`.* `handle_machine_put` replaces a missing owner by
  the text `"unknown"` and slices it at byte 46 (manager.rs:193). That path ends
  the manager; a kameo actor whose handler panics stops and nothing restarts it.
- *`missed`.* In `MachineManager` and `Discovery` a history variable names what a
  watch never delivered. Properties about following etcd are about everything
  else: a watch is opened "from now", so what falls in the gap is really lost.
- *`Discovery!put_peer`* may register the key and lose the answer: `run()` returns
  and the lease, which nobody renews, expires.
- *`Discovery!lease_expires`* is silent: etcd answers the renewal of an expired
  lease with TTL 0, and the keep-alive task (etcd.rs:103) takes any answer for
  success.
- *`MachineManager!Node`* is the refinement mapping to `Placement`: `settled` is
  "no notification is between bridge and manager, and no rebalance is with the
  manager". A node becomes unsettled in the step in which the coordinator's peers
  change, since the bridge notifies after that.
- *`Operator!put` and `delete`* hold the lock from the step in which the object
  is at the head of `queue` to the answer; the guard is dropped with the closure,
  also when the call fails (`error_policy`). A failed call may have taken effect
  (`Effect`): its answer is lost, and the retry meets what it did. Waiting for the lock and holding it
  are told apart by the position in `queue`.
- *Scores in `MachineManager`* are a constant function into the naturals
  (`ScoreAssumption`) and otherwise arbitrary; `nodes` is the coordinator's sorted
  vector, and `Owner(m)` its `lookup`.

## 3. Runs

Passing runs:

| Run | Checks | Instance and why it is enough |
|---|---|---|
| `cluster` | `OwnerIsWinner`, `MinimalDisruption`, `NoDoubleRun`, `OneRunner`, `EventuallyOneRunner` | two nodes and a third peer of which only its id matters, every order of three scores with all ties, every topology in every order of its list; machines do not interact, so one machine with a usable and an unusable spec; 87 732 states. Ownership is compared between two nodes at a time, and the third peer is the one about which they may disagree |
| `placement` | `PlacementAtRest`, `ActorsAreTracked`, `NoSpuriousMove`, `SyncIsAllOrNothing`, `EventuallyPlaced`, `RefinesPlacement` | two peers, two machines with different owners, values that are text and values that are not, three topologies, one write, one broken watch, a mailbox of **one**: two topology changes can land between two lookups of one rebalance, every sender can block, and one bad value can stand beside a good one in the reply of the GET; 574 371 states |
| `machine_keys` | `ActorRunsCachedSpec`, `CacheFollowsStore` | one machine (keys are independent), values that are good, newer, unparseable and not UTF-8, three writes, so that two events can be queued when the sync's GET is answered |
| `booking` | `HeldIsGranted`, `StateMatchesBooking`, `RefinesBooking` | two clients, two incarnations that overlap, mailboxes of two: a request can queue behind another's or behind a stop |
| `discovery` | `TopologyTracksEtcd`, `MutualAwareness`, `DepartedIsForgotten`, `LeavesWhenTold` | two nodes with all seven kinds of failure, one lost stream each; every property relates at most two nodes, and a third is only another reader and writer of independent keys |
| `peer_health` | `FailureAccount`, `NoPingToFailed`, `TracksDiscovery`, `BackoffEnds`, `AnsweringIsConnected`, `FailedIsCleanedUp` | two peers sharing the ping loop, one without a usable address; thresholds small but in the code's order (threshold < maximum, power cap below it); ages beyond the longest backoff and the stale age are not told apart by any test of the code; two connections to a peer, so that one can be established while a ping that will fail is awaited |
| `restarts` | `RateLimited`, `ExhaustedMeansDenied`, `DeniedByAllowedOnly`, `BackoffGrows` | two restarts per window of three ticks, nearly three windows, a word that saturates before the backoff limit is reached |
| `operator` | `NoOrphanKey`, `DeletionCompletes`, `ObjectsAreSynced` | two machines that share a name in two namespaces, a switch and a VLAN of the same name, three user changes, two failures: create, finalizer and delete, or three objects of three kinds at once, with a crash between any two calls and answers that are lost; 176 711 states |

Each run also checks the module's type invariant (that of `MachineManager` in
`machine_keys`). Deadlock is checked for `cluster`, `peer_health` and
`restarts`; elsewhere the bounds, or processes that have all ended, may leave a
state without successor.

What they show, in short: whatever topology changes interleave with a rebalance,
put or sync, the stale lookups are always followed by a rebalance that repairs
them, because the bridge updates the coordinator *before* it notifies and the
listener never has two rebalances under way. Each machine actor is a correct
lock. Two converged nodes can differ about the cluster, but never so that each
is unaware of the other, because each registers before it reads. Two nodes that
do know each other never both run a machine at rest, even if they disagree about
the rest of the cluster, because the winner of a set wins in every smaller set it
is in; nodes that agree end up with one runner, whatever their histories. A node
that is told to leave, or cannot renew its lease, leaves etcd wherever its
controller stands. No failure
account gets stuck, a peer that answers is not left marked as disconnected, no restart limit is exceeded, and no crash of the operator
leaves an orphan or a lock nobody will drop.

Runs that are expected to fail, each with a finding in `PROJECT.json`:

| Run | Property | What TLC shows |
|---|---|---|
| `manager_panic` | `ManagerSurvives` | with the local peer dropped from the topology (a DELETE of its own key is processed) and an actor running, a machine PUT handled before the pending rebalance kills the manager |
| `early_spawn` | `SpawnsOnConvergedTopology` | the watch loop forwards machine events before convergence, and the convergence signal can overtake the topology: actors are spawned on the single-node view |
| `booking_lost` | `IdleMeansAvailable` | a new actor loads nothing and reports a machine idle that a client holds |
| `discovery_gap` | `CompleteTopology` | with no failure at all, a peer that registers between another's GET and WATCH is never learnt by it. The property asks for exactly the registered peers; with `"canceled"` or `"ended"` and `"sigterm"` as the failures TLC also refutes the other inclusion: a peer that leaves while a stream is reconnected, or after it ended, stays in the topology for ever |

Observations made while modelling that have no run of their own:

- a machine deleted while the machine watch reconnects (manager.rs:573-586) keeps
  its cached spec and its actor: nothing is read again after the first sync;
- a node whose lease expired during a pause stays in maintenance although the
  comment at `discovery/etcd.rs:79` says it shuts down (see `lease_expires`);
- a peer that failed and was cleaned up is dropped from the peer table while it
  is still registered; `AddPeer` is sent once per peer id, so it is never pinged
  again (`types/state.rs:234`);
- two Kubernetes objects of one name in two namespaces share an etcd key and
  overwrite each other at every requeue; `ObjectsAreSynced` excludes them;
- a watch stream that ends with `Ok(None)` is polled again for ever
  (`discovery/phases.rs:224`), unlike one that is cancelled;
- `handle_actor_failure` has no caller: a machine actor that panics is not
  restarted, although manager.rs announces supervision. Wired up as it is, it
  would respawn through `spawn_machine_actor`, which replaces the restart tracker
  by a fresh one (manager.rs:233), so the limit would never be reached;
- after a keep-alive failure only the controller ends (controller.rs:196-199):
  the process goes on running its machines by its last topology while the nodes
  that forgot it start them too. `NoDoubleRun` does not apply, since the others
  no longer know the node; nor does it to the nodes of `discovery_gap`, of which
  one never learnt of the other;
- one endpoint that is no URI fails the connection to etcd although others are
  good, and a name that resolves to no address is dropped without the fallback a
  failed lookup has (`discovery/etcd.rs:150-208`).

### Fairness

Fairness is weak everywhere and given only to what the code's own scheduling
drives: a tokio task that can proceed is polled again; an actor with a message
handles it; a timer that is started fires (ping interval, cleanup interval,
requeue, the sleep in `main`); etcd expires a lease nobody renews. No change of
peers, machines, objects or connections, no failure and no answer *in time* is
ever assumed. `Operator` bounds the number of failing calls, without which
nothing could be promised; `Discovery` promises only about nodes that keep
watching and missed nothing.

`ClusterFairness` gives each node the rebalance that catches up with its last
topology. That is what `EventuallyPlaced` shows of `MachineManager`, whose
fairness is that of its tasks; the step is in `Placement`, so `RefinesPlacement`
and `EventuallyPlaced` together justify composing `Cluster` of such nodes. In
`Operator` the lock is handed on in order of arrival, so weak fairness of each
reconciliation suffices: nobody is overtaken for ever.

`EventuallyPlaced` and `EventuallyOneRunner` say nothing of a manager that has
panicked.

## 4. Proofs

Every safety property of section 3, invariant, action property or refinement, is
proved for all values of the constants; the runs show the same on their instances.
The inductive invariants were checked by TLC before they were proved. Liveness is
out of the prover's reach and stays with TLC.

| Module | Theorems | For every |
|---|---|---|
| `RendezvousProofs` | `RebuildSorts`, `LookupWins` | finite set of peers, order of their texts, hash |
| `ClusterProofs` | `ClusterInductive`, `ClusterTypeCorrect`, `AnswersWin` (`OwnerIsWinner`), `Disruption` (`MinimalDisruption`), `OneOfTwo` (`NoDoubleRun`), `OneOfAll` (`OneRunner`) | set of replicas among the peers, of machines and specs, bound of the scores |
| `MachineManagerProofs` | `TypeCorrect`, `PlacementInductive`, `Placement` (`PlacementAtRest`), `Tracking` (`ActorsAreTracked`), `CachedSpecRuns` (`ActorRunsCachedSpec`), `SyncCompletes` (`SyncIsAllOrNothing`), `CacheInductive`, `CacheCatchesUp` (`CacheFollowsStore`), `MovesAreDue` (`NoSpuriousMove`), `Refinement` (`RefinesPlacement`) | peers, machines, values, hash, mailbox capacity, bound |
| `DiscoveryProofs` | `TypeCorrect`, `DiscoveryInductive`, `Tracking` (`TopologyTracksEtcd`), `Awareness` (`MutualAwareness`) | number of nodes, failures, lost streams |
| `MachineActorProofs` | `TypeCorrect`, `BookingInductive`, `Granted` (`HeldIsGranted`), `StateIsTrue` (`StateMatchesBooking`), `Refinement` (`RefinesBooking`) | clients, incarnations, mailbox capacity |
| `NetworkStateProofs` | `TypeCorrect`, `HealthInductive`, `Account` (`FailureAccount`), `PingsTheLiving` (`NoPingToFailed`), `Tracking` (`TracksDiscovery`) | peers, thresholds, backoff, ages |
| `OperatorProofs` | `TypeCorrect`, `OperatorInductive`, `NoOrphan` (`NoOrphanKey`) | objects, specs, changes, failing calls, crashes |
| `RestartTrackerProofs` | `WindowInductive`, `TypeCorrect`, `Limit` (`RateLimited`), `Exhaustion` (`ExhaustedMeansDenied`), `Denial` (`DeniedByAllowedOnly`), `Growth` (`BackoffGrows`) | limit, window, backoff (zero included), word |

### Sharding and the cluster

Assumed: peers are finitely many (`PeersAssumption`), their texts are distinct
(`RankAssumption`), "no peer" is not a peer (`NoPeerAssumption`), replicas are
peers (`ReplicasAssumption`), scores are naturals (`MaxScoreAssumption`), a
parseable value is a text (`TextAssumption`).

`RebuildSorts` shows that the sorted vector `rebuild` chooses exists. Sorting is
not done by induction: the position of a peer is the number of peers whose text
is not greater, and the peers in those positions are the vector. `LookupWins`
then reduces the walk over the vector with its tie-break ("the last of the
maxima") to a relation that mentions the *set* only: the winner has the highest
score and, among equals, the greatest text. `OneWinner` and `WinsAmongFewer`
(the winner of a set wins in every smaller set it belongs to) are the whole
theory of the hasher, and the four theorems about the cluster follow from them:

- `Disruption`: an old and a new owner that are both in both sets both win in
  the intersection, so they are one;
- `OneOfTwo`: two nodes that know each other and run the machine each win in a
  set that holds both, hence each wins among the two;
- `OneOfAll`: in a set that all its members agree on somebody wins, and only one.

The link from owners to actors is `NothingAstray`, the one inductive invariant of
`Cluster`: on a node at rest every machine is where the node's own coordinator
places it. `NoDoubleRun` and `OneRunner` say nothing while a node is not at rest
and are not inductive by themselves.

### One node's manager

Assumed: `LocalAssumption`, `ScoreAssumption`, `SpecsAssumption`,
`BoundsAssumption` and the assumptions of `Rendezvous`. Nothing else is assumed
about the hash.

`PlacementAtRest` is not inductive: it says nothing while a rebalance is queued
or running, which is when the damage could be done. `PlacementInv` adds

- `OneRebalance`: at most one `RebalanceActors` is with the manager, queued or in
  progress, and then the listener is waiting. So a notification that arrives
  later is still counted in `topology_rx`;
- `RebalanceTodo`: what a rebalance has still to look up is cached and undecided;
- `ActorsAreTracked`: every running actor has a cached spec, so the rebalance,
  which walks the cache, meets it;
- `PlacedOrInHand`: with no newer topology behind it and no rebalance queued,
  every machine is placed right, or the rebalance in progress has still to look
  at it, or has decided it *by the current topology*.

The core of the argument is `PlacedOrInHand` across `bridge_update`: the
coordinator's nodes change under a running rebalance and invalidate its
decisions, but the same step leaves the bridge in "notify", which makes the
conjunct vacuous until the notification has become a new rebalance whose `todo`
is the whole cache. The proof has one case per action; actions that touch none
of the variables involved are dispatched by one frame lemma, and the two queue
lemmas (`EnqueueOther`, `Dequeue`) carry the case analysis on the mailbox.
`NoSpuriousMove` is the same invariant read as an action property.

`CacheFollowsStore` speaks of a machine with no event under way. `CacheInv` says
where the newest value is while one is (`InHand`): it is the *last* event of the
machine in the stream; if the stream has none, the last in the mailbox; if that
has none, the reply of the GET, for a machine the sync has still to put;
otherwise the cache. The GET may overtake older events that are still queued, and
the cache then goes back in time; the invariant holds because the newest event is
behind those. Events that no stream carried are in `missed` and excluded.
Behind `SyncIsAllOrNothing` are `SyncInHand` (what was fetched and is no longer to
do is cached) and `OneSync`, the counterpart of `OneRebalance`: at most one
`SyncAllMachines` is with the manager, queued or in progress, and the waiter waits
for it. So a GET is answered only to a waiter that is still asking, and after the
answer, be it an error for one value that is not text, there is no second sync.

`Refinement` maps the node to `Placement`. Steps of the tasks are stutters as
long as `settled` does not change; `bridge_update` is a topology change; put,
delete and each move of a rebalance are steps of the node; the last move of the
last rebalance makes the node settled, and that it leaves nothing astray is
`PlacementAtRest` in the state after it. The owner of the abstract node is a
function of the peer *set*, that of `MachineManager` of a vector, so the proof
needs `LookupWins`.

### Discovery

Assumed: `MaxBreaksAssumption`. Neither property is inductive: both break if a
watch could deliver the DELETE of a peer that is registered. `DiscoveryInv` adds
why it cannot, and how far a queue lags behind:

- `LeaseOrder`: a key exists only under a live lease, and a process that has not
  yet asked for a lease has none. Peer ids are fresh per process, so a lease that
  is gone never comes back;
- `DeletesAreFinal`: the peer of a queued DELETE has lost its lease, hence is not
  registered, hence forgetting it is right whenever the event is processed;
- `FreshStart`: before its GET a controller knows itself only and has no stream;
- `FollowsStream`: of a peer with no lost event, the last queued event says
  whether it is registered, and with none queued the known peers do;
- `KnowsItself`: a registered node is in its own peer set. (After its lease
  expired it is not: it processes its own DELETE.)

Steps that make a key come or go are reduced to one lemma about appending an
event to a queue (`KeyEventTracks`); `process_watch_event` is its counterpart at
the other end of the queue.

### Machine actor

Assumed: the four assumptions of `MachineActor` on its constants.
`HeldIsGranted` could break if a client's answer came from an actor other than
the one it believes it asked, or if a second request of its were queued.
`BookingInv` adds `AskedOnce`: a queued request is the only one of its client in
that mailbox, and the client waits for this very actor, in the state the request
implies. With it every handler that answers a client is a `Book`, `End` or `Refuse`
of the abstract lock, spawning an actor is `Appear`, its stop `Vanish`, a client's
request `Ask`, and status questions and spec updates are stutters (`Refinement`).

### Peer health

Assumed: `PeersAssumption`, `ConfigAssumption`, `MaxAgeAssumption` and
`MaxConnectionsAssumption`. A ping's failure is recorded without looking at the
status again, so `FailureAccount` needs `NoPingToFailed` and the converse; their
conjunction `HealthInv` is inductive. `TracksDiscovery` needs `CommandsInOrder`:
behind the `AddPeer` of a withdrawn peer there is always its `RemovePeer`, so
whatever adds the peer late, it is removed after.

### Operator

Assumed: `ObjectsAssumption`, `SpecsAssumption`, `BoundsAssumption`.
`NoOrphanKey` is not inductive because the controller acts on copies.
`KeyIsManaged` adds that the object of a key has not come to the call that
removes its finalizer, and `CopiesLag` how stale cache and call may be: a spec is
put only while the finalizer is on, and a deletion that was seen is never of an
object that was created again and finalized since. The proof treats a call that
fails after taking effect as the call itself (`EndKeeps`), one that fails before
as `GiveUpKeeps`, and a crash as the loss of all copies.

### Restart limiter

Assumed: `PolicyAssumption`, `BoundsAssumption`. The tracker has forgotten the
restarts that `RateLimited` counts. `WindowInv` ties its queue to the history:
`InTime` (instants in order), `KeepsTheLatest` (the queue is the end of the
history, and what was dropped is older than the window), `Spaced` (a restart and
the one `max_restarts` later are more than a window apart). `Limit` follows from
`Spaced` by cardinality. `Growth` needs that powers of two grow; a table of the
32 powers that a `u32` holds (`PowerTable`) takes the place of an induction.

### Only model-checked

Liveness under fairness: `EventuallyPlaced`, `EventuallyOneRunner`,
`DepartedIsForgotten`, `LeavesWhenTold`, `BackoffEnds`, `AnsweringIsConnected`,
`FailedIsCleanedUp`, `DeletionCompletes`, `ObjectsAreSynced`. The refinements are
proved for the safety part, which is all that `Placement!Spec` and `Booking!Spec`
state.

## 5. Not modelled

- HTTP API, metrics, tracing, events, database models: input and output without
  state of their own. The handlers question actors whose answers are modelled;
  `api/hosts.rs` is not part of the build.
- CRD types and `config.rs`: data; what the code decides by them is in the
  modules' constants. The PXE and CLI crates are stubs.
- libp2p configuration, and the Kademlia table that mDNS and identify events feed
  (`swarm/event_loop.rs:68-120`): libp2p fills and evicts that table on its own
  account as well, so no property of it follows from this code.
- The health actor's counters, which nothing but a statistics page reads.
- The resolution of etcd's endpoints (`discovery/etcd.rs:121-242`): a step of
  `connect`, which succeeds or, after the backoff's limit, fails.
- `handle_actor_failure`: no caller. Read-only handlers (`GetShardStats`,
  `CheckOwnership`) change nothing. `connected_at`, `last_activity` and other
  values that are stored and never consulted are left out.

## 6. Plan

Done, in this order: sharding; one node's placement with its proof; machine
actor and booking; discovery with its proof; peer health; restart limiter;
operator; the abstract placement of a node and its refinement; the cluster
composed of such nodes; all kinds of the operator behind its one lock; the proofs
of every safety property and of both refinements.

Next:

1. A safety fact that `DeletionCompletes` and `ObjectsAreSynced` rest on, proved
   for every instance: the lock of the operator is held only by an object with a
   call in progress.
2. A composition of `Discovery` with `Cluster`: what `MutualAwareness` and
   `TopologyTracksEtcd` give to the views of `NoDoubleRun`.
