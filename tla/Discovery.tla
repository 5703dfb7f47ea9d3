------------------------------ MODULE Discovery ------------------------------
(***************************************************************************)
(* The discovery controllers of a cluster (network/discovery) and the peer *)
(* keys of etcd they meet through.                                         *)
(*                                                                         *)
(* A process generates a fresh peer id when it starts, so a node is one    *)
(* run of one process: it is granted one lease, registers once, reads all  *)
(* peers, then watches.  Its key lives as long as its lease, which a       *)
(* keep-alive task renews and which etcd may let expire at any moment (a   *)
(* pause or partition longer than the lease's TTL).                        *)
(***************************************************************************)
EXTENDS Naturals, Sequences

CONSTANTS
  Nodes,         \* runs of the server process, by peer id
  MaxBreaks,     \* bound: losses of a node's watch stream
  Failures       \* the failures a run of the model allows

\* Failures the environment may inject.
ASSUME FailuresAssumption ==
  Failures \subseteq {"error", "crash", "sigterm", "expiry", "keepalive", "canceled", "ended"}
ASSUME MaxBreaksAssumption == MaxBreaks \in Nat

VARIABLES
  \* etcd
  registered,    \* the nodes whose peer key exists
  lease,         \* lease[n]: "none", "live" or "gone"
  \* the controller of each node
  phase,         \* where DiscoveryController::run is
  known_peers,   \* DiscoveryPhases::known_peers
  topology,      \* the peer list last sent to the ShardingCoordinator
  ready,         \* the nodes whose readiness flag is set
  stream,        \* the watch stream: "none", "open" or "ended"
  events,        \* events of the open stream not yet processed
  breaks,
  \* the keep-alive task and the process
  keepalive,     \* "off" or "on"
  internal,      \* nodes with an internal shutdown signal pending
  sigterm,       \* nodes told to shut down
  missed         \* history: missed[n]: peers whose latest event n never got

etcdVars == <<registered, lease>>
taskVars == <<keepalive, internal, sigterm>>
vars == <<registered, lease, phase, known_peers, topology, ready, stream, events, breaks,
          keepalive, internal, sigterm, missed>>

\* DiscoveryState, with the phases cut at the awaits others can see.
Phases == {"connecting", "initialization", "lease", "registration", "convergence", "watch",
           "maintenance", "reconnect", "returned", "exited"}

\* convergence_tx has fired: the first GET is done.
Converged(n) == phase[n] \in {"watch", "maintenance", "reconnect"}
Running(n)   == phase[n] # "exited"

Event == [type : {"put", "delete"}, peer : Nodes]

TypeOK ==
  /\ registered \in SUBSET Nodes
  /\ lease \in [Nodes -> {"none", "live", "gone"}]
  /\ phase \in [Nodes -> Phases]
  /\ known_peers \in [Nodes -> SUBSET Nodes]
  /\ topology \in [Nodes -> SUBSET Nodes]
  /\ ready \in SUBSET Nodes
  /\ stream \in [Nodes -> {"none", "open", "ended"}]
  /\ events \in [Nodes -> Seq(Event)]
  /\ breaks \in [Nodes -> Nat]
  /\ keepalive \in [Nodes -> {"off", "on"}]
  /\ internal \in SUBSET Nodes
  /\ sigterm \in SUBSET Nodes
  /\ missed \in [Nodes -> SUBSET Nodes]

\* The coordinator is created with the local peer only.
Init ==
  /\ registered = {} /\ lease = [n \in Nodes |-> "none"]
  /\ phase = [n \in Nodes |-> "connecting"]
  /\ known_peers = [n \in Nodes |-> {n}] /\ topology = [n \in Nodes |-> {n}]
  /\ ready = {}
  /\ stream = [n \in Nodes |-> "none"] /\ events = [n \in Nodes |-> <<>>]
  /\ breaks = [n \in Nodes |-> 0]
  /\ keepalive = [n \in Nodes |-> "off"] /\ internal = {} /\ sigterm = {}
  /\ missed = [n \in Nodes |-> {}]

-----------------------------------------------------------------------------
(* External: etcd.                                                           *)

\* A key changes: every stream opened before sees the event, nobody else does.
Publish(type, p) ==
  /\ events' = [n \in Nodes |-> IF stream[n] = "open"
                                  THEN Append(events[n], [type |-> type, peer |-> p])
                                  ELSE events[n]]
  /\ missed' = [n \in Nodes |-> IF stream[n] = "open" THEN missed[n] \ {p} ELSE missed[n] \cup {p}]

\* A lease ends: the key attached to it goes with it.
LeaseEnds(n) ==
  /\ lease' = [lease EXCEPT ![n] = "gone"]
  /\ IF n \in registered
       THEN registered' = registered \ {n} /\ Publish("delete", n)
       ELSE UNCHANGED <<registered, events, missed>>

\* Nobody renews the lease: the task ended, or the process or run() did.
Abandoned(n) == keepalive[n] = "off" /\ phase[n] # "registration"

\* The TTL runs out.  Nothing tells the keep-alive task: a renewal of a lease
\* that is gone is answered with TTL 0, which the task takes for success.
lease_expires(n) ==
  /\ lease[n] = "live"
  /\ Abandoned(n) \/ "expiry" \in Failures
  /\ LeaseEnds(n)
  /\ UNCHANGED <<phase, known_peers, topology, ready, stream, breaks, taskVars>>

-----------------------------------------------------------------------------
(* DiscoveryController::run, one action per await that others can see.       *)

\* Any `?` of run() before the event loop: the controller is gone, the process
\* and a keep-alive task already spawned are not.
run_fails(n) ==
  /\ "error" \in Failures
  /\ phase[n] \notin {"maintenance", "returned", "exited"}
  /\ phase' = [phase EXCEPT ![n] = "returned"]
  /\ stream' = [stream EXCEPT ![n] = "none"]
  /\ events' = [events EXCEPT ![n] = <<>>]
  /\ UNCHANGED <<etcdVars, known_peers, topology, ready, breaks, taskVars, missed>>

\* EtcdOperations::connect retries with a backoff until etcd accepts, or fails
\* for good after etcd_backoff_max_elapsed (run_fails).
connect(n) ==
  /\ phase[n] = "connecting"
  /\ phase' = [phase EXCEPT ![n] = "initialization"]
  /\ UNCHANGED <<etcdVars, known_peers, topology, ready, stream, events, breaks, taskVars, missed>>

\* initialize(): etcd answers.
initialize(n) ==
  /\ phase[n] = "initialization"
  /\ phase' = [phase EXCEPT ![n] = "lease"]
  /\ UNCHANGED <<etcdVars, known_peers, topology, ready, stream, events, breaks, taskVars, missed>>

\* register(): lease_grant and lease_keep_alive.
grant_lease(n) ==
  /\ phase[n] = "lease"
  /\ phase' = [phase EXCEPT ![n] = "registration"]
  /\ lease' = [lease EXCEPT ![n] = "live"]
  /\ UNCHANGED <<registered, known_peers, topology, ready, stream, events, breaks, taskVars, missed>>

\* register(): put with the lease, then spawn_keepalive_task.  The put fails if
\* the lease has expired meanwhile; if its answer is lost, run() returns and the
\* key is there with nobody to renew the lease.
put_peer(n) ==
  /\ phase[n] = "registration"
  /\ IF lease[n] = "live"
       THEN /\ registered' = registered \cup {n}
            /\ Publish("put", n)
            /\ \/ /\ keepalive' = [keepalive EXCEPT ![n] = "on"]
                  /\ phase' = [phase EXCEPT ![n] = "convergence"]
               \/ /\ "error" \in Failures
                  /\ phase' = [phase EXCEPT ![n] = "returned"]
                  /\ UNCHANGED keepalive
       ELSE /\ phase' = [phase EXCEPT ![n] = "returned"]
            /\ UNCHANGED <<registered, events, missed, keepalive>>
  /\ UNCHANGED <<lease, known_peers, topology, ready, stream, breaks, internal, sigterm>>

\* notify_sharding: the whole of known_peers is sent.
notify_sharding(n, peers) ==
  /\ known_peers' = [known_peers EXCEPT ![n] = peers]
  /\ topology' = [topology EXCEPT ![n] = peers]

\* Mutant of converge: peers are read but the local set is replaced by them.
converge_drops(n) ==
  /\ phase[n] = "convergence"
  /\ notify_sharding(n, {n})
  /\ ready' = ready \cup {n}
  /\ missed' = [missed EXCEPT ![n] = {}]
  /\ phase' = [phase EXCEPT ![n] = "watch"]
  /\ UNCHANGED <<etcdVars, stream, events, breaks, taskVars>>

\* converge(): read all peer keys, notify sharding, become ready.  run() then
\* fires convergence_tx.
converge(n) ==
  /\ phase[n] = "convergence"
  /\ notify_sharding(n, known_peers[n] \cup registered)
  /\ ready' = ready \cup {n}
  /\ missed' = [missed EXCEPT ![n] = {}]
  /\ phase' = [phase EXCEPT ![n] = "watch"]
  /\ UNCHANGED <<etcdVars, stream, events, breaks, taskVars>>

\* enter_maintenance(): a watch from now on; also the reconnect in run().
enter_maintenance(n) ==
  /\ phase[n] \in {"watch", "reconnect"}
  /\ phase' = [phase EXCEPT ![n] = "maintenance"]
  /\ stream' = [stream EXCEPT ![n] = "open"]
  /\ UNCHANGED <<etcdVars, known_peers, topology, ready, events, breaks, taskVars, missed>>

\* Mutant of process_watch_event: a departure does not reach sharding.
process_watch_event_silent(n) ==
  /\ phase[n] = "maintenance" /\ events[n] # <<>>
  /\ events' = [events EXCEPT ![n] = Tail(@)]
  /\ LET e == Head(events[n]) IN
       \/ e.type = "put" /\ e.peer # n /\ notify_sharding(n, known_peers[n] \cup {e.peer})
       \/ e.type = "put" /\ e.peer = n /\ UNCHANGED <<known_peers, topology>>
       \/ /\ e.type = "delete"
          /\ known_peers' = [known_peers EXCEPT ![n] = @ \ {e.peer}]
          /\ UNCHANGED topology
  /\ UNCHANGED <<etcdVars, phase, ready, stream, breaks, taskVars, missed>>

\* Mutant of process_watch_event: the key of a departed peer is kept unparsed.
process_watch_event_raw(n) ==
  /\ phase[n] = "maintenance" /\ events[n] # <<>>
  /\ events' = [events EXCEPT ![n] = Tail(@)]
  /\ notify_sharding(n, known_peers[n] \cup {Head(events[n])})
  /\ UNCHANGED <<etcdVars, phase, ready, stream, breaks, taskVars, missed>>

\* Mutant of process_watch_event: a departed peer stays known.
process_watch_event_puts_only(n) ==
  /\ phase[n] = "maintenance" /\ events[n] # <<>>
  /\ events' = [events EXCEPT ![n] = Tail(@)]
  /\ LET e == Head(events[n]) IN notify_sharding(n, known_peers[n] \cup {e.peer})
  /\ UNCHANGED <<etcdVars, phase, ready, stream, breaks, taskVars, missed>>

\* process_watch_event(): a PUT of the local peer is skipped, a DELETE of it is
\* not.
process_watch_event(n) ==
  /\ phase[n] = "maintenance" /\ events[n] # <<>>
  /\ events' = [events EXCEPT ![n] = Tail(@)]
  /\ LET e == Head(events[n]) IN
       \/ e.type = "put" /\ e.peer # n /\ notify_sharding(n, known_peers[n] \cup {e.peer})
       \/ e.type = "put" /\ e.peer = n /\ UNCHANGED <<known_peers, topology>>
       \/ e.type = "delete" /\ notify_sharding(n, known_peers[n] \ {e.peer})
  /\ UNCHANGED <<etcdVars, phase, ready, stream, breaks, taskVars, missed>>

\* The stream is canceled or fails: run() sleeps and reconnects.  What was in it
\* is lost.
stream_canceled(n) ==
  /\ "canceled" \in Failures /\ breaks[n] < MaxBreaks
  /\ phase[n] = "maintenance" /\ stream[n] = "open"
  /\ phase' = [phase EXCEPT ![n] = "reconnect"]
  /\ stream' = [stream EXCEPT ![n] = "none"]
  /\ events' = [events EXCEPT ![n] = <<>>]
  /\ breaks' = [breaks EXCEPT ![n] = @ + 1]
  /\ missed' = [missed EXCEPT ![n] = @ \cup { events[n][i].peer : i \in 1..Len(events[n]) }]
  /\ UNCHANGED <<etcdVars, known_peers, topology, ready, taskVars>>

\* The stream ends (message() is Ok(None)) after its last event: Ok(()) is
\* returned, and run() polls the ended stream for ever.
stream_ends(n) ==
  /\ "ended" \in Failures /\ breaks[n] < MaxBreaks
  /\ phase[n] = "maintenance" /\ stream[n] = "open" /\ events[n] = <<>>
  /\ stream' = [stream EXCEPT ![n] = "ended"]
  /\ breaks' = [breaks EXCEPT ![n] = @ + 1]
  /\ UNCHANGED <<etcdVars, phase, known_peers, topology, ready, events, taskVars, missed>>

\* The lease of n is revoked: its key goes, and all streams but its own, which
\* ends with run(), see the event.
Revoked(n) ==
  LET heard == { m \in Nodes \ {n} : stream[m] = "open" } IN
    /\ lease[n] = "live" /\ lease' = [lease EXCEPT ![n] = "gone"]
    /\ registered' = registered \ {n}
    /\ events' = [m \in Nodes |-> IF m = n THEN <<>>
                                  ELSE IF m \in heard THEN Append(events[m], [type |-> "delete", peer |-> n])
                                  ELSE events[m]]
    /\ missed' = [m \in Nodes |-> IF m \in heard THEN missed[m] \ {n} ELSE missed[m] \cup {n}]

\* shutdown(), by SIGTERM or after a keep-alive failure: the lease is revoked,
\* or the revocation fails and the error is only logged.  run() returns.
shutdown(n) ==
  /\ phase[n] = "maintenance" /\ n \in sigterm \cup internal
  /\ phase' = [phase EXCEPT ![n] = "returned"]
  /\ stream' = [stream EXCEPT ![n] = "none"]
  /\ \/ Revoked(n)
     \/ /\ lease[n] = "gone" \/ "error" \in Failures
        /\ events' = [events EXCEPT ![n] = <<>>]
        /\ UNCHANGED <<registered, lease, missed>>
  /\ UNCHANGED <<known_peers, topology, ready, breaks, taskVars>>

-----------------------------------------------------------------------------
(* The keep-alive task and the process.                                      *)

\* Mutant of keepalive_fails: the task reports the failure and tries again.
keepalive_fails_retries(n) ==
  /\ "keepalive" \in Failures
  /\ keepalive[n] = "on"
  /\ internal' = internal \cup {n}
  /\ UNCHANGED <<etcdVars, phase, known_peers, topology, ready, stream, events, breaks, keepalive, sigterm, missed>>

\* spawn_keepalive_task: a renewal fails to be sent or its stream ends or fails.
keepalive_fails(n) ==
  /\ "keepalive" \in Failures
  /\ keepalive[n] = "on"
  /\ keepalive' = [keepalive EXCEPT ![n] = "off"]
  /\ internal' = internal \cup {n}
  /\ UNCHANGED <<etcdVars, phase, known_peers, topology, ready, stream, events, breaks, sigterm, missed>>

\* main: SIGTERM or SIGINT.
signal(n) ==
  /\ "sigterm" \in Failures
  /\ Running(n) /\ n \notin sigterm
  /\ sigterm' = sigterm \cup {n}
  /\ UNCHANGED <<etcdVars, phase, known_peers, topology, ready, stream, events, breaks, keepalive, internal, missed>>

\* main returns seven seconds after the signal, wherever the controller is; or
\* the process is killed.  Its tasks end with it.
process_exits(n) ==
  /\ Running(n)
  /\ n \in sigterm \/ "crash" \in Failures
  /\ phase' = [phase EXCEPT ![n] = "exited"]
  /\ stream' = [stream EXCEPT ![n] = "none"]
  /\ events' = [events EXCEPT ![n] = <<>>]
  /\ keepalive' = [keepalive EXCEPT ![n] = "off"]
  /\ UNCHANGED <<etcdVars, known_peers, topology, ready, breaks, internal, sigterm, missed>>

-----------------------------------------------------------------------------
\* The steps of a controller that nothing holds up.
ControllerNext(n) == \/ connect(n)
                     \/ initialize(n)
                     \/ grant_lease(n)
                     \/ put_peer(n)
                     \/ converge(n)
                     \/ enter_maintenance(n)
                     \/ process_watch_event(n)
                     \/ shutdown(n)

EnvironmentNext(n) == \/ lease_expires(n)
                      \/ run_fails(n)
                      \/ stream_canceled(n)
                      \/ stream_ends(n)
                      \/ keepalive_fails(n)
                      \/ signal(n)
                      \/ process_exits(n)

Next == \E n \in Nodes : ControllerNext(n) \/ EnvironmentNext(n)

Spec == Init /\ [][Next]_vars

\* Controllers make progress while etcd answers; a lease nobody renews expires;
\* main exits after its sleep.  No failure is ever due.
Fairness == \A n \in Nodes : /\ WF_vars(ControllerNext(n))
                             /\ WF_vars(Abandoned(n) /\ lease_expires(n))
                             /\ WF_vars(n \in sigterm /\ process_exits(n))

FairSpec == Spec /\ Fairness

-----------------------------------------------------------------------------
(* Properties.                                                               *)

Queued(n, p) == \E i \in 1..Len(events[n]) : events[n][i].peer = p

\* What n was told of p is up to date: nothing is on its way, nothing was lost.
Informed(n, p) == p \notin missed[n] /\ ~Queued(n, p)

\* What a converged controller told sharding about a peer is what etcd holds,
\* once the events it was sent are processed and unless a change fell between
\* its GET and its WATCH, between two watches, or after its stream ended.
\* (process_watch_event, converge)
TopologyTracksEtcd ==
  \A n \in Nodes : Converged(n) =>
    /\ \A p \in Nodes \ {n} : Informed(n, p) => (p \in topology[n] <=> p \in registered)
    /\ n \in registered => n \in topology[n]

\* Two registered nodes that have both converged know of each other in at least
\* one direction, whatever was lost: each registers before it reads, so the
\* later reader sees the other, and forgets it only when its key is gone.
\* (the order register, converge, enter_maintenance of run)
MutualAwareness ==
  \A a, b \in registered :
    Converged(a) /\ Converged(b) => a \in known_peers[b] \/ b \in known_peers[a]

\* A process that is gone leaves the topology of every node that keeps watching
\* and missed nothing of it, whether it shut down, failed or was killed: its
\* lease ends with its keep-alive.  (shutdown, spawn_keepalive_task)
DepartedIsForgotten ==
  \A p \in Nodes : \A n \in Nodes \ {p} :
    <>[](phase[p] = "exited" /\ phase[n] = "maintenance" /\ stream[n] = "open" /\ p \notin missed[n])
    => <>[](p \notin topology[n])

\* A node whose keep-alive failed or whose process was told to end leaves etcd
\* for good, wherever its controller is: watching, reconnecting, still starting,
\* or gone after an error with nobody left to hear of it; and also when the
\* revocation fails.  (spawn_keepalive_task, DiscoveryController::run, main)
LeavesWhenTold ==
  \A n \in Nodes : (n \in internal \cup sigterm) ~> [](n \notin registered)

-----------------------------------------------------------------------------
(* The inductive invariant behind TopologyTracksEtcd and MutualAwareness.    *)

\* A key exists only under a live lease, and a process is granted one lease.
LeaseOrder ==
  \A n \in Nodes :
    /\ phase[n] \in {"connecting", "initialization", "lease"} => lease[n] = "none"
    /\ n \in registered => lease[n] = "live"

\* An event queued as "delete" is never out of date: its peer is gone for good.
DeletesAreFinal ==
  \A n \in Nodes : \A i \in 1..Len(events[n]) :
    events[n][i].type = "delete" => lease[events[n][i].peer] = "gone"

\* Before its GET a controller has heard of nobody.
FreshStart ==
  \A n \in Nodes :
    phase[n] \in {"connecting", "initialization", "lease", "registration", "convergence"}
    => known_peers[n] = {n} /\ stream[n] = "none" /\ events[n] = <<>>

\* i is the last event of peer p in the stream of n.
IsLatest(n, p, i) ==
  /\ events[n][i].peer = p
  /\ \A j \in 1..Len(events[n]) : j > i => events[n][j].peer # p

\* Of a peer nothing was lost of, the last event queued says what etcd holds;
\* with none queued, what n knows is what etcd holds.
FollowsStream ==
  \A n \in Nodes : Converged(n) =>
    \A p \in Nodes \ ({n} \cup missed[n]) :
      /\ \A i \in 1..Len(events[n]) :
           IsLatest(n, p, i) => (events[n][i].type = "put" <=> p \in registered)
      /\ ~Queued(n, p) => (p \in known_peers[n] <=> p \in registered)

\* A registered controller never drops itself.
KnowsItself == \A n \in registered : n \in known_peers[n]

DiscoveryInv ==
  /\ topology = known_peers
  /\ LeaseOrder /\ DeletesAreFinal /\ FreshStart
  /\ FollowsStream /\ KnowsItself /\ MutualAwareness

-----------------------------------------------------------------------------
\* "Contains the complete current peer list", "Complete list of currently active
\* peers": a node that stays in maintenance ends up with the registered peers in
\* its topology, all of them and no others, however its streams begin, break and
\* end.  Already without any failure a peer that registers between a node's GET
\* and its WATCH is never learnt.  (enter_maintenance watches from now, not from
\* the revision of the GET; reconnect reads nothing)
CompleteTopology ==
  \A n \in Nodes : <>[](phase[n] = "maintenance") => <>[](topology[n] = registered)

=============================================================================
