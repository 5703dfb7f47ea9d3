------------------------------- MODULE Cluster -------------------------------
(***************************************************************************)
(* The nodes of a cluster: each has a ShardingCoordinator and, next to it, *)
(* a machine actor manager that behaves as NodePlacement says.  Nodes meet *)
(* only through the topologies and machine events that reach them.  Those  *)
(* may be any: what discovery and the watch of the machine keys lose,      *)
(* delay or repeat is part of "any".                                       *)
(***************************************************************************)
EXTENDS ShardingCoordinator, NodePlacement

VARIABLE place   \* place[r]: the node next to coordinator r

clusterVars == <<score, nodes, place>>

ClusterTypeOK == TypeOK /\ place \in [Replicas -> NodeStates]

\* The peers r knows, and the owners its coordinator answers with.
View(r)   == ToSet(nodes[r])
Owner(r)  == [m \in Machines |-> LookupMachine(r, m).owner_peer]
AtRest(r) == place[r].alive /\ place[r].settled
Running(r, m) == Runs(place[r], m)

ClusterInit == Init /\ place = [r \in Replicas |-> Started]

-----------------------------------------------------------------------------
\* The bridge of initialize_p2p_network: TopologyChanged, and a rebalance to come.
topology_changes(r, peers) ==
  /\ TopologyChanged(r, peers)
  /\ place' = [place EXCEPT ![r] = Unsettled(@)]

Steps(r, next) ==
  /\ place[r].alive
  /\ \E x \in next : place' = [place EXCEPT ![r] = x]
  /\ UNCHANGED <<score, nodes>>

rebalance_actors(r)      == Steps(r, Moved(r, Owner(r), place[r]))
handle_machine_put(r)    == Steps(r, Puts(r, Owner(r), place[r]))
handle_machine_delete(r) == Steps(r, Deletes(place[r]))
manager_stops(r)         == Steps(r, Stopped(place[r]))

\* The rebalance that catches up with the last topology change.
settle(r) == rebalance_actors(r) /\ place'[r].settled

ClusterNext ==
  \E r \in Replicas :
    \/ \E S \in SUBSET Peers : \E peers \in SetToSeqs(S) : topology_changes(r, peers)
    \/ rebalance_actors(r)
    \/ handle_machine_put(r)
    \/ handle_machine_delete(r)
    \/ manager_stops(r)

ClusterSpec == ClusterInit /\ [][ClusterNext]_clusterVars

\* MachineManager's EventuallyPlaced: unless topologies go on changing, each
\* node catches up.
ClusterFairness == \A r \in Replicas : WF_clusterVars(settle(r))

ClusterFairSpec == ClusterSpec /\ ClusterFairness

-----------------------------------------------------------------------------
(* Properties.                                                               *)

(* Two nodes that know of each other and are at rest never both run a        *)
(* machine, whatever else their topologies disagree about and by whatever    *)
(* puts, deletes and rebalances they got there: one of the two loses to the  *)
(* other wherever both are known.  (RendezvousHasher::lookup under           *)
(* handle_machine_put and rebalance_actors)                                  *)
NoDoubleRun ==
  \A a, b \in Replicas, m \in Machines :
    (/\ a # b /\ AtRest(a) /\ AtRest(b)
     /\ a \in View(b) /\ b \in View(a))
    => ~(Running(a, m) /\ Running(b, m))

\* Every node of S is alive, knows exactly S and has a usable spec of m.
Agreed(S, m) ==
  \A r \in S : place[r].alive /\ View(r) = S /\ place[r].specs[m] \in Parseable

(* Nodes that know exactly each other and the machine run it once between    *)
(* them as soon as all are at rest: no history of topologies, lost events or *)
(* repeated puts leaves it running twice or nowhere.  (manager.rs:4          *)
(* "spawns/stops MachineActors based on ownership")                          *)
OneRunner ==
  \A m \in Machines, S \in (SUBSET Replicas) \ {{}} :
    Agreed(S, m) /\ (\A r \in S : AtRest(r))
    => Cardinality({ r \in S : Running(r, m) }) = 1

(* If from some point on the nodes of S agree and are sent no more           *)
(* topologies, the machine ends up on one of them and stays there.  (the     *)
(* topology listener's rebalance after every change)                         *)
EventuallyOneRunner ==
  \A m \in Machines, S \in (SUBSET Replicas) \ {{}} :
    /\ <>[]Agreed(S, m)
    /\ <>[][\A r \in S : place[r].settled => place'[r].settled]_clusterVars
    => \E r \in S : <>[](\A q \in S : Running(q, m) <=> q = r)

-----------------------------------------------------------------------------
(* The inductive invariant behind NoDoubleRun and OneRunner: on a node at    *)
(* rest nothing is astray by the nodes its coordinator holds.                *)
NothingAstray ==
  \A r \in Replicas : AtRest(r) => \A m \in Machines : ~Astray(r, Owner(r), place[r], m)
=============================================================================
