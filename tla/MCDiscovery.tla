----------------------------- MODULE MCDiscovery -----------------------------
(* Two nodes: each is the other's peer, so every order of one's              *)
(* registration, read and watch against the other's occurs.                  *)
EXTENDS Discovery

CONSTANTS d1, d2
=============================================================================
