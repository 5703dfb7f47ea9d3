------------------------- MODULE ShardingCoordinator -------------------------
(***************************************************************************)
(* The ShardingCoordinator actors of a cluster (network/sharding/actor.rs),*)
(* one per node.  Each holds a RendezvousHasher and replaces its node      *)
(* vector whenever discovery sends a TopologyChanged message; it answers   *)
(* LookupMachine from the vector it holds at that moment.                  *)
(*                                                                         *)
(* The hash is a variable that no action changes: TLC then checks every    *)
(* order of the scores, ties included.                                     *)
(***************************************************************************)
EXTENDS Rendezvous

CONSTANTS
  Replicas,   \* the peers whose coordinators are modelled
  MaxScore    \* scores range over 0..MaxScore

ASSUME ReplicasAssumption == Replicas \subseteq Peers
ASSUME MaxScoreAssumption == MaxScore \in Nat

VARIABLES
  score,      \* score[m][p]: the value RendezvousHasher::score computes
  nodes       \* nodes[r]: hasher.nodes of replica r

vars == <<score, nodes>>

\* Of the score functions of one order, the one with the lowest values.
Scores ==
  { f \in [Peers -> 0..MaxScore] : \A p \in Peers : f[p] > 0 => \E q \in Peers : f[q] = f[p] - 1 }

TypeOK ==
  /\ score \in [Machines -> Scores]
  /\ nodes \in [Replicas -> NodeVectors]

-----------------------------------------------------------------------------
\* ShardingCoordinator::new, called with the local peer only.
Init ==
  /\ score \in [Machines -> Scores]
  /\ nodes = [r \in Replicas |-> rebuild(<<r>>)]

\* The TopologyChanged handler.  `peers` is the known-peers hash set of the
\* sender in its iteration order, so two replicas may be sent one set in two
\* orders.
TopologyChanged(r, peers) ==
  /\ nodes' = [nodes EXCEPT ![r] = rebuild(peers)]
  /\ UNCHANGED score

\* The reply of the LookupMachine handler; it changes nothing.
LookupMachine(r, m) ==
  [ owner_peer |-> lookup(score, nodes[r], m),
    is_local   |-> is_local(score, nodes[r], m, r) ]

Next ==
  \E r \in Replicas, S \in SUBSET Peers :
    \E peers \in SetToSeqs(S) : TopologyChanged(r, peers)

Spec == Init /\ [][Next]_vars

-----------------------------------------------------------------------------
\* p wins key m within the set S: highest score, then highest base58 text.
Wins(m, p, S) ==
  /\ p \in S
  /\ \A q \in S : \/ score[m][q] < score[m][p]
                  \/ score[m][q] = score[m][p] /\ Rank[q] <= Rank[p]

(* rendezvous.rs:31 "Returns the node with the highest hash(key, node)      *)
(* score": what a replica answers depends on the SET of its nodes alone and *)
(* is the winner of that set, None exactly when the set is empty.           *)
OwnerIsWinner ==
  \A r \in Replicas, m \in Machines :
    LET S == ToSet(nodes[r])
        o == LookupMachine(r, m).owner_peer
    IN IF S = {} THEN o = NoPeer ELSE Wins(m, o, S)

(* rendezvous.rs:8 "Minimal disruption: only keys from added/removed node   *)
(* move": when a replica's topology changes, a machine changes hands only   *)
(* if its owner left or its new owner has just joined, whatever else        *)
(* changed in the same step.                                                *)
MinimalDisruption ==
  [][ \A r \in Replicas, m \in Machines :
        LET old == lookup(score, nodes[r], m)
            new == lookup(score', nodes'[r], m)
        IN old # new => \/ old \notin ToSet(nodes'[r])
                        \/ new \notin ToSet(nodes[r]) ]_vars

=============================================================================
