-------------------------- MODULE MCMachineManager --------------------------
(* The local peer and one other, two machines that go to different owners    *)
(* while both peers are known.                                               *)
EXTENDS MachineManager

CONSTANTS n1, n2, m1, m2, good, newer, garbled, binary

MCRank  == (n1 :> 1) @@ (n2 :> 2)
MCScore ==
  [m \in Machines |-> IF m = m1 THEN (n1 :> 2) @@ (n2 :> 1) ELSE (n1 :> 1) @@ (n2 :> 2)]
=============================================================================
