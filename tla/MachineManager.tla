---------------------------- MODULE MachineManager ----------------------------
(***************************************************************************)
(* One node of the cluster: how the set of MachineActors it runs follows   *)
(* the peers it knows and the machines stored in etcd.                     *)
(*                                                                         *)
(*   discovery --sharding_rx--> bridge --TopologyChanged--> coordinator    *)
(*                                |                             ^          *)
(*                           topology_rx                   LookupMachine   *)
(*                                v                             |          *)
(*                            listener --RebalanceActors--> +---------+    *)
(*   discovery --oneshot----> waiter ----SyncAllMachines--> | manager |    *)
(*   etcd ------stream------> watch loop --EtcdMachineEvent>+---------+    *)
(*                                                                         *)
(* Every box is a tokio task or a kameo actor and takes its steps          *)
(* independently (network/init.rs, network/machines/manager.rs,            *)
(* network/sharding/actor.rs, network/discovery/phases.rs).  An actor      *)
(* handles one message at a time, so only the moments at which the manager *)
(* asks the coordinator or reads etcd are visible to the others: a handler *)
(* is one step per such moment.                                            *)
(***************************************************************************)
EXTENDS Rendezvous

CONSTANTS
  Local,        \* the peer id of this node
  Score,        \* Score[m][p]: the rendezvous hash
  Specs,        \* values stored under /neolaas/machines/
  Text,         \* those that are UTF-8
  Parseable,    \* those that MachineActor::with_node_id accepts
  NoSpec,       \* no value, no actor
  MailboxCap,   \* capacity of the manager's mailbox
  MaxTopology,  \* bound: calls of notify_sharding
  MaxWrites,    \* bound: writes to the machine keys
  MaxBreaks     \* bound: breaks of the machine watch stream

ASSUME LocalAssumption == Local \in Peers
ASSUME ScoreAssumption == Score \in [Machines -> [Peers -> Nat]]
ASSUME SpecsAssumption == Text \subseteq Specs /\ Parseable \subseteq Text /\ NoSpec \notin Specs
ASSUME BoundsAssumption == /\ MailboxCap \in Nat \ {0}
                           /\ MaxTopology \in Nat
                           /\ MaxWrites \in Nat
                           /\ MaxBreaks \in Nat

VARIABLES
  \* discovery, as far as this node's channels see it
  phase,            \* "starting", "notified", "running" or "failed"
  known_peers,      \* DiscoveryPhases::known_peers
  sent,             \* how often notify_sharding was called
  sharding_rx,      \* topologies on their way to the bridge
  convergence,      \* the oneshot channel: "open", "sent" or "closed"
  \* bridge, coordinator, topology listener, convergence waiter
  bridge,           \* "recv" or "notify"
  nodes,            \* hasher.nodes of the ShardingCoordinator
  topology_rx,      \* number of pending () messages
  listener,         \* "recv" or "asking"
  waiter,           \* "waiting", "asking" or "done"
  \* etcd and the watch loop
  store,            \* store[m]: value of the machine's key
  writes,           \* writes so far
  watch,            \* "connecting" or "open"
  breaks,           \* stream breaks so far
  stream,           \* events of the open stream not yet forwarded
  missed,           \* history: machines whose latest event was lost
  \* the manager
  manager,          \* "alive", or "stopped" once a handler has panicked
  mailbox,
  job,              \* handler in progress: "idle", "rebalance" or "sync"
  todo,             \* machine ids it has still to look up
  fetched,          \* sync: the machines the GET returned
  to_stop, to_spawn,
  machine_specs, actors, restart_trackers

discoveryVars == <<phase, known_peers, sent, convergence>>
shardingVars  == <<bridge, nodes, topology_rx, listener, waiter>>
etcdVars      == <<store, writes, watch, breaks, stream, missed>>
jobVars       == <<job, todo, fetched, to_stop, to_spawn>>
managerVars   == <<machine_specs, actors, restart_trackers>>
vars == <<discoveryVars, sharding_rx, shardingVars, etcdVars, manager, mailbox, jobVars, managerVars>>

Event == [type : {"put", "delete"}, machine : Machines, spec : Text \cup {NoSpec}]
Message == Event \cup [type : {"rebalance", "sync"}]

TypeOK ==
  /\ phase \in {"starting", "notified", "running", "failed"}
  /\ known_peers \in SUBSET Peers
  /\ sent \in Nat
  /\ sharding_rx \in Seq(SUBSET Peers)
  /\ convergence \in {"open", "sent", "closed"}
  /\ bridge \in {"recv", "notify"}
  /\ nodes \in NodeVectors
  /\ topology_rx \in Nat
  /\ listener \in {"recv", "asking"}
  /\ waiter \in {"waiting", "asking", "done"}
  /\ store \in [Machines -> Specs \cup {NoSpec}]
  /\ writes \in Nat
  /\ watch \in {"connecting", "open"}
  /\ breaks \in Nat
  /\ stream \in Seq(Event)
  /\ missed \in SUBSET Machines
  /\ manager \in {"alive", "stopped"}
  /\ mailbox \in Seq(Message)
  /\ job \in {"idle", "rebalance", "sync"}
  /\ todo \in SUBSET Machines
  /\ fetched \in [Machines -> Text \cup {NoSpec}]
  /\ to_stop \in SUBSET Machines
  /\ to_spawn \in SUBSET Machines
  /\ machine_specs \in [Machines -> Text \cup {NoSpec}]
  /\ actors \in [Machines -> Parseable \cup {NoSpec}]
  /\ restart_trackers \in SUBSET Machines
  /\ job = "sync" => \A m \in todo : fetched[m] # NoSpec

Nothing == [m \in Machines |-> NoSpec]
alive == manager = "alive"
Cached  == { m \in Machines : machine_specs[m] # NoSpec }
Running == { m \in Machines : actors[m] # NoSpec }

\* An event of machine m is among the messages q.
IsOf(e, m)   == e.type \in {"put", "delete"} /\ e.machine = m
Queued(m, q) == \E i \in 1..Len(q) : IsOf(q[i], m)

\* The LookupMachine handler: the owner of m by the coordinator's nodes.
Owner(m) == lookup(Score, nodes, m)

-----------------------------------------------------------------------------
\* initialize_p2p_network: the coordinator starts with the local peer only, and
\* the machines already in etcd are not known yet.
Init ==
  /\ phase = "starting" /\ known_peers = {Local} /\ sent = 0 /\ sharding_rx = <<>>
  /\ convergence = "open"
  /\ bridge = "recv" /\ nodes = rebuild(<<Local>>) /\ topology_rx = 0
  /\ listener = "recv" /\ waiter = "waiting"
  /\ store \in [Machines -> Specs \cup {NoSpec}] /\ writes = 0
  /\ watch = "connecting" /\ breaks = 0 /\ stream = <<>>
  /\ missed = { m \in Machines : store[m] # NoSpec }
  /\ manager = "alive" /\ mailbox = <<>>
  /\ job = "idle" /\ todo = {} /\ fetched = Nothing /\ to_stop = {} /\ to_spawn = {}
  /\ machine_specs = Nothing /\ actors = Nothing /\ restart_trackers = {}

-----------------------------------------------------------------------------
(* Discovery.  Its own protocol is the module Discovery; here it is the      *)
(* source of topologies and of the convergence signal.                       *)

\* DiscoveryPhases::notify_sharding, called with the peers known from now on.
notify_sharding(peers) ==
  /\ known_peers' = peers
  /\ sharding_rx' = Append(sharding_rx, peers)
  /\ sent' = sent + 1

\* DiscoveryPhases::converge: the registered peers are added to the local one.
converge(found) ==
  /\ phase = "starting"
  /\ notify_sharding(known_peers \cup found)
  /\ phase' = "notified"
  /\ UNCHANGED <<convergence, shardingVars, etcdVars, manager, mailbox, jobVars, managerVars>>

\* DiscoveryController::run after converge(): the oneshot fires, whatever the
\* bridge has done so far with the topology sent just before.
signal_convergence ==
  /\ phase = "notified"
  /\ phase' = "running" /\ convergence' = "sent"
  /\ UNCHANGED <<known_peers, sent, sharding_rx, shardingVars, etcdVars, manager, mailbox, jobVars, managerVars>>

\* DiscoveryController::run returns early: convergence_tx is dropped.
discovery_fails ==
  /\ phase = "starting"
  /\ phase' = "failed" /\ convergence' = "closed"
  /\ UNCHANGED <<known_peers, sent, sharding_rx, shardingVars, etcdVars, manager, mailbox, jobVars, managerVars>>

\* process_watch_event: a PUT of the local peer is skipped, a DELETE is not.
process_watch_event ==
  /\ phase = "running" /\ sent < MaxTopology
  /\ \/ \E p \in Peers \ {Local} : notify_sharding(known_peers \cup {p})
     \/ \E p \in Peers : notify_sharding(known_peers \ {p})
  /\ UNCHANGED <<phase, convergence, shardingVars, etcdVars, manager, mailbox, jobVars, managerVars>>

-----------------------------------------------------------------------------
(* The bridge task of initialize_p2p_network, the topology listener and the  *)
(* convergence waiter of spawn_machine_actor_manager_actor.                  *)

\* Mutant of bridge_update: the manager is told of joining peers only.
bridge_update_joins_only ==
  /\ bridge = "recv" /\ sharding_rx # <<>>
  /\ nodes' = rebuild(SetToSeq(Head(sharding_rx)))
  /\ sharding_rx' = Tail(sharding_rx)
  /\ bridge' = IF ToSet(nodes) \subseteq ToSet(nodes') THEN "notify" ELSE "recv"
  /\ UNCHANGED <<topology_rx, listener, waiter, discoveryVars, etcdVars, manager, mailbox, jobVars, managerVars>>

\* recv, then ask(TopologyChanged): the coordinator has rebuilt its hasher
\* when the ask returns.
bridge_update ==
  /\ bridge = "recv" /\ sharding_rx # <<>>
  /\ nodes' = rebuild(SetToSeq(Head(sharding_rx)))
  /\ sharding_rx' = Tail(sharding_rx)
  /\ bridge' = "notify"
  /\ UNCHANGED <<topology_rx, listener, waiter, discoveryVars, etcdVars, manager, mailbox, jobVars, managerVars>>

\* machine_topology_tx.send(()).
bridge_notify ==
  /\ bridge = "notify"
  /\ topology_rx' = topology_rx + 1
  /\ bridge' = "recv"
  /\ UNCHANGED <<nodes, listener, waiter, discoveryVars, sharding_rx, etcdVars, manager, mailbox, jobVars, managerVars>>

\* Mutant of topology_listener: the notification is dropped if the mailbox is
\* full.
topology_listener_try_send ==
  /\ listener = "recv" /\ topology_rx > 0
  /\ topology_rx' = topology_rx - 1
  /\ \/ /\ alive /\ Len(mailbox) < MailboxCap
        /\ mailbox' = Append(mailbox, [type |-> "rebalance"])
        /\ listener' = "asking"
     \/ (~alive \/ Len(mailbox) = MailboxCap) /\ UNCHANGED <<mailbox, listener>>
  /\ UNCHANGED <<bridge, nodes, waiter, discoveryVars, sharding_rx, etcdVars, manager, jobVars, managerVars>>

\* Mutant of topology_listener: tell instead of ask, so nobody waits.
topology_listener_tells ==
  /\ listener = "recv" /\ topology_rx > 0
  /\ topology_rx' = topology_rx - 1
  /\ \/ /\ alive /\ Len(mailbox) < MailboxCap
        /\ mailbox' = Append(mailbox, [type |-> "rebalance"])
        /\ UNCHANGED listener
     \/ ~alive /\ UNCHANGED <<mailbox, listener>>
  /\ UNCHANGED <<bridge, nodes, waiter, discoveryVars, sharding_rx, etcdVars, manager, jobVars, managerVars>>

\* ask(RebalanceActors): the listener waits for the reply before it takes the
\* next notification; a stopped manager fails the ask at once.
topology_listener ==
  /\ listener = "recv" /\ topology_rx > 0
  /\ topology_rx' = topology_rx - 1
  /\ \/ /\ alive /\ Len(mailbox) < MailboxCap
        /\ mailbox' = Append(mailbox, [type |-> "rebalance"])
        /\ listener' = "asking"
     \/ ~alive /\ UNCHANGED <<mailbox, listener>>
  /\ UNCHANGED <<bridge, nodes, waiter, discoveryVars, sharding_rx, etcdVars, manager, jobVars, managerVars>>

convergence_waiter ==
  /\ waiter = "waiting"
  /\ \/ /\ convergence = "sent" /\ alive /\ Len(mailbox) < MailboxCap
        /\ mailbox' = Append(mailbox, [type |-> "sync"])
        /\ waiter' = "asking"
     \/ /\ convergence = "closed" \/ (convergence = "sent" /\ ~alive)
        /\ waiter' = "done"
        /\ UNCHANGED mailbox
  /\ UNCHANGED <<bridge, nodes, topology_rx, listener, discoveryVars, sharding_rx, etcdVars, manager, jobVars, managerVars>>

-----------------------------------------------------------------------------
(* The machine keys of etcd (written by the operator) and the watch loop.    *)

\* Mutant of Forwarded: the bytes are forwarded whether they are UTF-8 or not.
Forwarded_raw(m, s) == [type |-> IF s = NoSpec THEN "delete" ELSE "put", machine |-> m, spec |-> s]

\* The event of a write as the watch loop forwards it: value_str().ok().
Forwarded(m, s) ==
  [ type    |-> IF s = NoSpec THEN "delete" ELSE "put",
    machine |-> m,
    spec    |-> IF s \in Text THEN s ELSE NoSpec ]

\* External: a put (s a value) or a delete (s = NoSpec) of a machine key.
write_machine(m, s) ==
  /\ writes < MaxWrites /\ writes' = writes + 1
  /\ store[m] # s
  /\ store' = [store EXCEPT ![m] = s]
  /\ IF watch = "open"
       THEN stream' = Append(stream, Forwarded(m, s)) /\ missed' = missed \ {m}
       ELSE stream' = stream /\ missed' = missed \cup {m}
  /\ UNCHANGED <<watch, breaks, discoveryVars, sharding_rx, shardingVars, manager, mailbox, jobVars, managerVars>>

\* client.watch(..) without a start revision: only later events are seen.
watch_open ==
  /\ watch = "connecting"
  /\ watch' = "open"
  /\ UNCHANGED <<store, writes, breaks, stream, missed, discoveryVars, sharding_rx, shardingVars, manager, mailbox, jobVars, managerVars>>

\* Ok(None) or Err(_) from the stream: reconnect, without reading the keys.
watch_break ==
  /\ watch = "open" /\ breaks < MaxBreaks
  /\ watch' = "connecting" /\ breaks' = breaks + 1
  /\ missed' = missed \cup { e.machine : e \in ToSet(stream) }
  /\ stream' = <<>>
  /\ UNCHANGED <<store, writes, discoveryVars, sharding_rx, shardingVars, manager, mailbox, jobVars, managerVars>>

\* tell(etcd_event): waits for room in the mailbox, fails if the manager died.
watch_forward ==
  /\ watch = "open" /\ stream # <<>>
  /\ stream' = Tail(stream)
  /\ \/ alive /\ Len(mailbox) < MailboxCap /\ mailbox' = Append(mailbox, Head(stream))
     \/ ~alive /\ UNCHANGED mailbox
  /\ UNCHANGED <<store, writes, watch, breaks, missed, discoveryVars, sharding_rx, shardingVars, manager, jobVars, managerVars>>

-----------------------------------------------------------------------------
(* The manager's handlers.                                                   *)

environment == <<discoveryVars, sharding_rx, bridge, nodes, topology_rx, store, writes, watch, breaks, stream>>

Receives(type) == alive /\ job = "idle" /\ mailbox # <<>> /\ Head(mailbox).type = type

\* spawn_machine_actor: a spec that does not parse yields no actor.
spawn_machine_actor(m, s) ==
  IF s \in Parseable
    THEN /\ actors' = [actors EXCEPT ![m] = s]
         /\ restart_trackers' = restart_trackers \cup {m}
    ELSE UNCHANGED <<actors, restart_trackers>>

\* stop_machine_actor.
stop_machine_actor(m) ==
  /\ actors' = [actors EXCEPT ![m] = NoSpec]
  /\ restart_trackers' = restart_trackers \ {m}

\* Mutant of update_machine_spec: the running actor keeps its first spec.
update_machine_spec_ignored(m, s) == UNCHANGED <<actors, restart_trackers>>

\* UpdateMachineSpec at the actor: a spec that does not parse is refused.
update_machine_spec(m, s) ==
  /\ actors' = [actors EXCEPT ![m] = IF s \in Parseable THEN s ELSE @]
  /\ UNCHANGED restart_trackers

\* Mutant of handle_machine_put: a machine owned elsewhere is not cached.
handle_machine_put_owned_only(m, s) ==
  /\ machine_specs' = [machine_specs EXCEPT ![m] = IF Owner(m) = Local THEN s ELSE @]
  /\ \/ Owner(m) = Local /\ m \in Running /\ update_machine_spec(m, s)
     \/ Owner(m) = Local /\ m \notin Running /\ spawn_machine_actor(m, s)
     \/ Owner(m) \notin {Local, NoPeer} /\ m \in Running /\ stop_machine_actor(m)
     \/ Owner(m) # Local /\ m \notin Running /\ UNCHANGED <<actors, restart_trackers>>

\* handle_machine_put: cache, look up, then update, spawn, stop or ignore.
handle_machine_put(m, s) ==
  /\ machine_specs' = [machine_specs EXCEPT ![m] = s]
  /\ \/ Owner(m) = Local /\ m \in Running /\ update_machine_spec(m, s)
     \/ Owner(m) = Local /\ m \notin Running /\ spawn_machine_actor(m, s)
     \/ Owner(m) \notin {Local, NoPeer} /\ m \in Running /\ stop_machine_actor(m)
     \/ Owner(m) # Local /\ m \notin Running /\ UNCHANGED <<actors, restart_trackers>>

\* The one path of handle_machine_put that is not in it: with a running actor
\* and no owner, "unknown"[46..] is out of range.  The actor system drops the
\* panicked manager with its actors and mailbox, and its callers get an error.
put_panics(m) == Owner(m) = NoPeer /\ m \in Running

manager_stops ==
  /\ manager' = "stopped" /\ mailbox' = <<>>
  /\ job' = "idle" /\ todo' = {} /\ fetched' = Nothing /\ to_stop' = {} /\ to_spawn' = {}
  /\ machine_specs' = Nothing /\ actors' = Nothing /\ restart_trackers' = {}
  /\ listener' = "recv"
  /\ waiter' = IF waiter = "asking" THEN "done" ELSE waiter
  /\ UNCHANGED <<environment, missed>>

\* EtcdMachineEvent, Put: an event without text is ignored.
handle_put ==
  /\ Receives("put")
  /\ LET e == Head(mailbox) IN
       \/ e.spec # NoSpec /\ put_panics(e.machine) /\ manager_stops
       \/ /\ mailbox' = Tail(mailbox)
          /\ \/ e.spec # NoSpec /\ handle_machine_put(e.machine, e.spec)
             \/ e.spec = NoSpec /\ UNCHANGED managerVars
          /\ UNCHANGED <<environment, listener, waiter, missed, manager, jobVars>>

\* Mutant of handle_delete: the actor survives the machine.
handle_delete_keeps_actor ==
  /\ Receives("delete")
  /\ mailbox' = Tail(mailbox)
  /\ machine_specs' = [machine_specs EXCEPT ![Head(mailbox).machine] = NoSpec]
  /\ UNCHANGED <<actors, restart_trackers, environment, listener, waiter, missed, manager, jobVars>>

\* EtcdMachineEvent, Delete: handle_machine_delete.
handle_delete ==
  /\ Receives("delete")
  /\ mailbox' = Tail(mailbox)
  /\ LET m == Head(mailbox).machine IN
       /\ machine_specs' = [machine_specs EXCEPT ![m] = NoSpec]
       /\ stop_machine_actor(m)
  /\ UNCHANGED <<environment, listener, waiter, missed, manager, jobVars>>

\* rebalance_actors starts: the ids of the cached specs are collected.
rebalance_start ==
  /\ Receives("rebalance")
  /\ mailbox' = Tail(mailbox)
  /\ job' = "rebalance" /\ todo' = Cached /\ to_stop' = {} /\ to_spawn' = {}
  /\ UNCHANGED <<environment, listener, waiter, missed, manager, fetched, managerVars>>

\* Mutant of rebalance_lookup: every running actor is stopped.
rebalance_lookup_stops_all(m) ==
  /\ job = "rebalance" /\ m \in todo
  /\ todo' = todo \ {m}
  /\ to_spawn' = IF Owner(m) = Local /\ m \notin Running THEN to_spawn \cup {m} ELSE to_spawn
  /\ to_stop'  = IF m \in Running THEN to_stop \cup {m} ELSE to_stop
  /\ UNCHANGED <<environment, listener, waiter, missed, manager, mailbox, job, fetched, managerVars>>

\* One lookup of rebalance_actors; a hash map is iterated in any order.
rebalance_lookup(m) ==
  /\ job = "rebalance" /\ m \in todo
  /\ todo' = todo \ {m}
  /\ to_spawn' = IF Owner(m) = Local /\ m \notin Running THEN to_spawn \cup {m} ELSE to_spawn
  /\ to_stop'  = IF Owner(m) # Local /\ m \in Running THEN to_stop \cup {m} ELSE to_stop
  /\ UNCHANGED <<environment, listener, waiter, missed, manager, mailbox, job, fetched, managerVars>>

\* The end of rebalance_actors: stops, then spawns; the listener's ask returns.
rebalance_apply ==
  /\ job = "rebalance" /\ todo = {}
  /\ LET spawned == { m \in to_spawn : machine_specs[m] \in Parseable } IN
       /\ actors' = [m \in Machines |-> IF m \in spawned THEN machine_specs[m]
                                        ELSE IF m \in to_stop THEN NoSpec
                                        ELSE actors[m]]
       /\ restart_trackers' = (restart_trackers \ to_stop) \cup spawned
  /\ job' = "idle" /\ to_stop' = {} /\ to_spawn' = {}
  /\ listener' = "recv"
  /\ UNCHANGED <<environment, waiter, missed, manager, mailbox, todo, fetched, machine_specs>>

\* Mutant of sync_get: a value that is not text is skipped, not an error.
sync_get_skips_bad ==
  /\ Receives("sync")
  /\ mailbox' = Tail(mailbox)
  /\ job' = "sync" /\ fetched' = [m \in Machines |-> IF store[m] \in Text THEN store[m] ELSE NoSpec]
  /\ todo' = { m \in Machines : store[m] \in Text }
  /\ UNCHANGED <<environment, listener, waiter, missed, manager, to_stop, to_spawn, managerVars>>

\* sync_all_machines reads all machine keys; it fails as a whole if the GET
\* fails or if one value is not text.  A machine whose lost event the GET makes
\* good is no longer missed: it is in the reply and no older event is queued.
sync_get ==
  /\ Receives("sync")
  /\ mailbox' = Tail(mailbox)
  /\ \/ /\ \A m \in Machines : store[m] \in Text \cup {NoSpec}
        /\ job' = "sync" /\ fetched' = store
        /\ todo' = { m \in Machines : store[m] # NoSpec }
        /\ missed' = { m \in missed : \/ store[m] = NoSpec
                                       \/ Queued(m, Tail(mailbox)) }
        /\ UNCHANGED waiter
     \/ /\ waiter' = "done"
        /\ UNCHANGED <<job, fetched, todo, missed>>
  /\ UNCHANGED <<environment, listener, manager, to_stop, to_spawn, managerVars>>

\* One iteration of the loop of sync_all_machines.
sync_put(m) ==
  /\ job = "sync" /\ m \in todo
  /\ \/ put_panics(m) /\ manager_stops
     \/ /\ handle_machine_put(m, fetched[m])
        /\ todo' = todo \ {m}
        /\ UNCHANGED <<environment, listener, waiter, missed, manager, mailbox, job, fetched, to_stop, to_spawn>>

\* SyncAllMachines replies.
sync_done ==
  /\ job = "sync" /\ todo = {}
  /\ job' = "idle" /\ fetched' = Nothing /\ waiter' = "done"
  /\ UNCHANGED <<environment, listener, missed, manager, mailbox, todo, to_stop, to_spawn, managerVars>>

-----------------------------------------------------------------------------
DiscoveryNext == \/ \E found \in SUBSET Peers : converge(found)
                 \/ signal_convergence
                 \/ discovery_fails
                 \/ process_watch_event

EtcdNext == \/ \E m \in Machines, s \in Specs \cup {NoSpec} : write_machine(m, s)
            \/ watch_break

BridgeNext == bridge_update \/ bridge_notify
WatchNext  == watch_open \/ watch_forward

ManagerNext == \/ handle_put
               \/ handle_delete
               \/ rebalance_start
               \/ \E m \in Machines : rebalance_lookup(m)
               \/ rebalance_apply
               \/ sync_get
               \/ \E m \in Machines : sync_put(m)
               \/ sync_done

Next == \/ DiscoveryNext
        \/ BridgeNext
        \/ topology_listener
        \/ convergence_waiter
        \/ EtcdNext
        \/ WatchNext
        \/ ManagerNext

Spec == Init /\ [][Next]_vars

\* Every task is polled again while it can proceed (tokio), and etcd accepts a
\* watch sooner or later.  Peers and machines need not change, nothing need
\* break, and discovery need not converge.
Fairness == /\ WF_vars(BridgeNext)
            /\ WF_vars(topology_listener)
            /\ WF_vars(convergence_waiter)
            /\ WF_vars(WatchNext)
            /\ WF_vars(ManagerNext)

FairSpec == Spec /\ Fairness

-----------------------------------------------------------------------------
(* Properties.                                                               *)

\* m runs here although another node owns it, or is owned here and does not run.
Misplaced(m) ==
  \/ m \in Running /\ Owner(m) # Local
  \/ m \notin Running /\ Owner(m) = Local /\ machine_specs[m] \in Parseable

\* No topology change is on its way from the coordinator to the manager.
TopologyAtRest == bridge = "recv" /\ topology_rx = 0 /\ listener = "recv"

(* manager.rs "Handle topology changes (rebalancing)": lookups of one        *)
(* rebalance, put or sync may see different topologies, and actors are       *)
(* stopped and spawned after the last lookup, from answers that may be stale *)
(* by then.  Still, once no notification is pending and no rebalance is      *)
(* queued or running, every cached machine runs here exactly if the          *)
(* coordinator's current topology says so.                                   *)
PlacementAtRest ==
  alive /\ TopologyAtRest => \A m \in Machines : ~Misplaced(m)

(* rebalance_actors walks machine_specs only (manager.rs:309-310 speaks of   *)
(* actors and specs): a running actor must therefore always have a cached    *)
(* spec, and, for handle_actor_failure, a restart tracker of its own.        *)
ActorsAreTracked ==
  /\ Running \subseteq Cached
  /\ restart_trackers = Running

(* The actor runs the spec the manager has cached for it, on every path: put *)
(* of a running machine, respawn after rebalance, sync against queued events.*)
(* Only a spec that does not parse leaves the actor with an older one.       *)
ActorRunsCachedSpec ==
  \A m \in Running : machine_specs[m] \in Parseable => actors[m] = machine_specs[m]

(* manager.rs:4 "Watches etcd for machine changes": with the watch stream    *)
(* forwarded and its events handled, the cache holds what etcd holds for     *)
(* every machine whose latest event was not lost, although the GET of the    *)
(* sync overtakes older events that are still queued.                        *)
CacheFollowsStore ==
  alive =>
    \A m \in Machines :
      (/\ m \notin missed /\ store[m] \in Text \cup {NoSpec}
       /\ ~Queued(m, stream) /\ ~Queued(m, mailbox)
       /\ ~(job = "sync" /\ m \in todo))
      => machine_specs[m] = store[m]

(* sync_all_machines is all or nothing.  A sync goes ahead only on a reply   *)
(* without a bad value, works on that one reply until it ends, and then has  *)
(* cached every machine of it, however many lookups and topology changes lay *)
(* between.  A sync that does not go ahead, because the GET failed or one    *)
(* value is not text, leaves the cache and the actors as they were.  Either  *)
(* way there is no second one: after the answer no sync goes ahead.          *)
(* (sync_all_machines, SyncAllMachines, the convergence waiter)              *)
SyncIsAllOrNothing ==
  [][ /\ job # "sync" /\ job' = "sync" =>
           /\ store \in [Machines -> Text \cup {NoSpec}] /\ fetched' = store
           /\ waiter = "asking"
      /\ job = "sync" /\ job' = "sync" => fetched' = fetched
      /\ job = "sync" /\ job' # "sync" /\ alive' =>
           \A m \in Machines : fetched[m] # NoSpec => machine_specs'[m] = fetched[m]
      /\ job # "sync" /\ waiter = "asking" /\ waiter' = "done" /\ alive' =>
           UNCHANGED managerVars
      /\ waiter = "done" => waiter' = "done" ]_vars

(* Once peers and machines stop changing, the last topology discovery sent   *)
(* reaches the coordinator, the sync is answered and the actors are the ones *)
(* that topology asks for, for good.                                         *)
EventuallyPlaced ==
  <>[](alive => /\ ToSet(nodes) = known_peers
                /\ phase = "running" => waiter = "done"
                /\ TopologyAtRest
                /\ \A m \in Machines : ~Misplaced(m))

(* A stop or spawn by rebalance is decided by a lookup: an actor that starts *)
(* or stops in a step is never one whose placement was, and stays, right by  *)
(* the current topology with no newer one behind it.                         *)
NoSpuriousMove ==
  [][ \A m \in Machines :
        (/\ alive' /\ machine_specs'[m] = machine_specs[m] /\ nodes' = nodes
         /\ bridge = "recv" /\ topology_rx = 0
         /\ (m \in Running) # (m \in Running)')
        => Misplaced(m) ]_vars

-----------------------------------------------------------------------------
(* What the node promises the cluster.                                       *)

\* This node as the cluster sees it.
Node == [specs |-> machine_specs, actors |-> actors, settled |-> TopologyAtRest, alive |-> alive]

Abstract == INSTANCE Placement WITH peers <- ToSet(nodes), node <- Node

(* However the tasks interleave, the node is a node of NodePlacement: puts   *)
(* and deletes act by the owner of their moment, actors move otherwise only  *)
(* while a topology change is on its way, and when the last one has arrived  *)
(* nothing is astray.  (bridge, rebalance_actors, handle_machine_put)        *)
RefinesPlacement == Abstract!Spec

-----------------------------------------------------------------------------
(* The inductive invariant behind PlacementAtRest.                           *)

RebalanceQueued == \E i \in 1..Len(mailbox) : mailbox[i].type = "rebalance"

\* The listener has at most one RebalanceActors with the manager: it waits for
\* the reply, so a later notification stays in topology_rx.
OneRebalance ==
  /\ \A i, j \in 1..Len(mailbox) :
       mailbox[i].type = "rebalance" /\ mailbox[j].type = "rebalance" => i = j
  /\ RebalanceQueued => listener = "asking" /\ job # "rebalance"
  /\ job = "rebalance" => listener = "asking"

\* What a rebalance has still to look up is cached and not yet decided.
RebalanceTodo ==
  job = "rebalance" => /\ todo \subseteq Cached
                       /\ todo \cap (to_stop \cup to_spawn) = {}

\* The rebalance will do with m what the current topology asks for.
Decided(m) ==
  /\ m \in to_stop <=> m \in Running /\ Owner(m) # Local
  /\ m \in to_spawn <=> m \notin Running /\ Owner(m) = Local /\ m \in Cached

\* With no newer topology behind, every machine is placed, or the rebalance in
\* progress has still to look at it or has decided it by the current topology.
PlacedOrInHand ==
  alive /\ bridge = "recv" /\ topology_rx = 0 /\ ~RebalanceQueued =>
    \A m \in Machines :
      IF job = "rebalance" THEN m \in todo \/ Decided(m) ELSE ~Misplaced(m)

PlacementInv == OneRebalance /\ RebalanceTodo /\ ActorsAreTracked /\ PlacedOrInHand

-----------------------------------------------------------------------------
(* The inductive invariants behind the properties of the machine keys and    *)
(* the refinement.                                                           *)

\* A stopped manager has nothing left.
StoppedIsEmpty == ~alive => job = "idle" /\ machine_specs = Nothing /\ actors = Nothing

\* The waiter has at most one SyncAllMachines with the manager and waits for it.
SyncQueued == \E i \in 1..Len(mailbox) : mailbox[i].type = "sync"
OneSync ==
  /\ \A i, j \in 1..Len(mailbox) : mailbox[i].type = "sync" /\ mailbox[j].type = "sync" => i = j
  /\ SyncQueued => waiter = "asking" /\ job # "sync"
  /\ job = "sync" => waiter = "asking"

\* What a sync has fetched and has not to do any more is cached.
SyncInHand ==
  job = "sync" => \A m \in Machines : fetched[m] # NoSpec /\ m \notin todo => machine_specs[m] = fetched[m]

\* e is the last event of m among the messages q.
LastIs(m, q, e) ==
  \E i \in 1..Len(q) : q[i] = e /\ \A j \in 1..Len(q) : IsOf(q[j], m) => j <= i

\* Where the value of m in etcd is on its way to the cache, unless its event was
\* lost: last in the stream, else last in the mailbox, else in the reply of the
\* GET, else in the cache.
InHand(m) ==
  IF Queued(m, stream) THEN LastIs(m, stream, Forwarded(m, store[m]))
  ELSE IF Queued(m, mailbox) THEN LastIs(m, mailbox, Forwarded(m, store[m]))
  ELSE IF job = "sync" /\ m \in todo THEN fetched[m] = store[m]
  ELSE store[m] \in Text \cup {NoSpec} => machine_specs[m] = store[m]

CacheInv ==
  /\ watch = "connecting" => stream = <<>>
  /\ \A m \in missed : ~Queued(m, stream)
  /\ alive => \A m \in Machines \ missed : InHand(m)

-----------------------------------------------------------------------------
(* What the comments of the code say and the code does not do.               *)

(* manager.rs:5 "fault-tolerant actor management" and the fallback           *)
(* unwrap_or_else(|| "unknown") of handle_machine_put: the manager survives  *)
(* a machine event whatever topology the coordinator holds.                  *)
ManagerSurvives == alive

(* manager.rs:463-464 "Initial machine sync is deferred until after discovery*)
(* convergence completes, ensuring all nodes have the same topology view     *)
(* before spawning actors": no actor runs before the coordinator has applied *)
(* the topology found by converge().                                         *)
SpawnsOnConvergedTopology ==
  Running # {} => sent - Len(sharding_rx) > 0
=============================================================================
