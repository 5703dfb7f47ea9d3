--------------------------- MODULE MCNetworkState ---------------------------
(* Instances of NetworkState for TLC.                                       *)
EXTENDS NetworkState, TLC

CONSTANTS p1, p2

\* Any part of the DHT may answer.
AnyLookup == SUBSET Peers

=============================================================================
