--------------------------- MODULE MCMachineActor ---------------------------
(* Two clients and two incarnations of the actor: enough for a predecessor   *)
(* that still answers while its successor already does.                      *)
EXTENDS MachineActor

CONSTANTS b1, b2
=============================================================================
