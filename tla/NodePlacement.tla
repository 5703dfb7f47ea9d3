---------------------------- MODULE NodePlacement ----------------------------
(***************************************************************************)
(* What one node may do with the machine actors it runs, as seen from      *)
(* outside: the steps of its MachineActorManagerActor                      *)
(* (network/machines/manager.rs) without tasks, channels and lookups.      *)
(*                                                                         *)
(* A node is a record:                                                     *)
(*   specs    the cached machine specs                                     *)
(*   actors   the spec each running actor was given last                   *)
(*   settled  no topology change is on its way from coordinator to actors  *)
(*   alive    the manager has not stopped                                  *)
(* and owner[m] is what its coordinator answers for m at that moment.      *)
(***************************************************************************)
EXTENDS Rendezvous

CONSTANTS
  Text,         \* values under /neolaas/machines/ that are UTF-8
  Parseable,    \* those that MachineActor::with_node_id accepts
  NoSpec        \* no value, no actor

ASSUME TextAssumption == Parseable \subseteq Text /\ NoSpec \notin Text

Nothing == [m \in Machines |-> NoSpec]

NodeStates ==
  [ specs   : [Machines -> Text \cup {NoSpec}],
    actors  : [Machines -> Parseable \cup {NoSpec}],
    settled : BOOLEAN,
    alive   : BOOLEAN ]

NodeOf(specs, actors, settled, alive) ==
  [specs |-> specs, actors |-> actors, settled |-> settled, alive |-> alive]

\* MachineActorManagerActor::new, next to a coordinator nobody has told anything.
Started == NodeOf(Nothing, Nothing, TRUE, TRUE)

\* The coordinator's answers while it knows these peers.
Owners(score, peers) == [m \in Machines |-> lookup(score, rebuild(SetToSeq(peers)), m)]

Runs(x, m) == x.actors[m] # NoSpec

\* m runs here although another node owns it, or is owned here and does not run.
Astray(self, owner, x, m) ==
  IF owner[m] = self THEN ~Runs(x, m) /\ x.specs[m] \in Parseable ELSE Runs(x, m)

-----------------------------------------------------------------------------
\* The coordinator's peers change: the actors follow later.
Unsettled(x) == NodeOf(x.specs, x.actors, FALSE, x.alive)

\* The actors a rebalance may leave: each the old one, none, or a new one.
Rebalanced(x) ==
  { f \in [Machines -> Parseable \cup {NoSpec}] :
      \A m \in Machines : f[m] \in {x.actors[m], NoSpec, x.specs[m]} }

\* Mutant of Moved: the rebalance of the last change is by older lookups.
Moved_stale(self, owner, x) ==
  IF x.settled THEN {}
  ELSE { NodeOf(x.specs, f, b, x.alive) : f \in Rebalanced(x), b \in BOOLEAN }

\* Mutant of Moved: the notification of the last change is lost.
Moved_lost(self, owner, x) ==
  IF x.settled THEN {}
  ELSE { NodeOf(x.specs, f, FALSE, x.alive) : f \in Rebalanced(x) }

\* rebalance_actors.  While changes are on their way it may start and stop what
\* it likes, by lookups that are stale; the rebalance that catches up with the
\* last change leaves nothing astray.
Moved(self, owner, x) ==
  LET moves == { NodeOf(x.specs, f, b, x.alive) : f \in Rebalanced(x), b \in BOOLEAN }
  IN  IF x.settled THEN {}
      ELSE { y \in moves : y.settled => \A m \in Machines : ~Astray(self, owner, y, m) }

\* Mutant of Put: the owner is not looked at.
Put_unowned(self, owner, x, m, s) ==
  NodeOf([x.specs EXCEPT ![m] = s], [x.actors EXCEPT ![m] = IF s \in Parseable THEN s ELSE @],
         x.settled, x.alive)

\* handle_machine_put: by the owner at that moment.  Without an owner a running
\* actor makes it panic (Stopped).
Put(self, owner, x, m, s) ==
  NodeOf([x.specs EXCEPT ![m] = s],
         [x.actors EXCEPT ![m] = IF owner[m] = self THEN IF s \in Parseable THEN s ELSE @ ELSE NoSpec],
         x.settled, x.alive)

Puts(self, owner, x) ==
  { Put(self, owner, x, ms[1], ms[2]) :
      ms \in { k \in Machines \X Text : owner[k[1]] = NoPeer => ~Runs(x, k[1]) } }

\* handle_machine_delete.
Deletes(x) ==
  { NodeOf([x.specs EXCEPT ![m] = NoSpec], [x.actors EXCEPT ![m] = NoSpec], x.settled, x.alive) :
      m \in Machines }

\* The manager panics, or the process ends: nothing runs here any more.
Stopped(x) == { NodeOf(Nothing, Nothing, b, FALSE) : b \in BOOLEAN }

\* The states a node may be in after a step of its own.
NodeSteps(self, owner, x) ==
  Stopped(x) \cup IF x.alive THEN Moved(self, owner, x) \cup Puts(self, owner, x) \cup Deletes(x)
                  ELSE {}
=============================================================================
