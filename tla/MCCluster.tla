------------------------------ MODULE MCCluster ------------------------------
(* Two nodes of a cluster of three peers: topologies with and without a      *)
(* third peer, every order of three scores, ties included.  One machine is   *)
(* enough: machines do not interact.                                         *)
EXTENDS Cluster

CONSTANTS p1, p2, p3, m1, good, garbled

MCRank == (p1 :> 1) @@ (p2 :> 2) @@ (p3 :> 3)
=============================================================================
