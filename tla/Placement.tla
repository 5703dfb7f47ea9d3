------------------------------ MODULE Placement ------------------------------
(***************************************************************************)
(* The abstract specification of one node: its coordinator may be sent any *)
(* topology at any time, and the node takes the steps of NodePlacement.    *)
(* MachineManager implements it; Cluster is composed of such nodes.        *)
(***************************************************************************)
EXTENDS NodePlacement

CONSTANTS
  Local,   \* the peer id of the node
  Score    \* Score[m][p]: the rendezvous hash

VARIABLES
  peers,   \* what the coordinator knows
  node     \* the node's record

Init == peers = {Local} /\ node = Started

TopologyChanges ==
  /\ peers' \in SUBSET Peers
  /\ node' = Unsettled(node)

NodeActs ==
  /\ node' \in NodeSteps(Local, Owners(Score, peers), node)
  /\ UNCHANGED peers

Next == TopologyChanges \/ NodeActs

Spec == Init /\ [][Next]_<<peers, node>>
=============================================================================
