---------------------------- MODULE ClusterProofs ----------------------------
(***************************************************************************)
(* Proofs about the cluster: for every finite set of peers, any of them    *)
(* replicas, every hash and every set of machines, no two nodes that know  *)
(* each other run a machine twice, and nodes that agree run it once.       *)
(***************************************************************************)
EXTENDS Cluster, RendezvousProofs

\* A record of NodePlacement, field by field.
LEMMA NodeFields ==
  ASSUME NEW s \in [Machines -> Text \cup {NoSpec}], NEW a \in [Machines -> Parseable \cup {NoSpec}],
         NEW b \in BOOLEAN, NEW l \in BOOLEAN, NEW x, x = NodeOf(s, a, b, l)
  PROVE  x \in NodeStates /\ x.specs = s /\ x.actors = a /\ x.settled = b /\ x.alive = l
  BY DEF NodeOf, NodeStates

LEMMA FieldTypes ==
  ASSUME NEW x \in NodeStates
  PROVE  /\ x.specs \in [Machines -> Text \cup {NoSpec}] /\ x.actors \in [Machines -> Parseable \cup {NoSpec}]
         /\ x.settled \in BOOLEAN /\ x.alive \in BOOLEAN
  BY DEF NodeStates

\* A node that starts or stops runs nothing.
LEMMA EmptyNode ==
  ASSUME NEW b \in BOOLEAN, NEW l \in BOOLEAN
  PROVE  LET x == NodeOf(Nothing, Nothing, b, l)
         IN  x \in NodeStates /\ x.specs = Nothing /\ x.actors = Nothing /\ x.settled = b /\ x.alive = l
<1>1. Nothing \in [Machines -> Text \cup {NoSpec}] /\ Nothing \in [Machines -> Parseable \cup {NoSpec}]
  BY DEF Nothing
<1>2. QED
  BY <1>1, NodeFields

\* What each kind of step leaves of a node's record.
LEMMA UnsettledNode ==
  ASSUME NEW x \in NodeStates PROVE Unsettled(x) \in NodeStates /\ ~Unsettled(x).settled
<1>1. PICK b \in BOOLEAN : ~b /\ Unsettled(x) = NodeOf(x.specs, x.actors, b, x.alive)
  BY DEF Unsettled
<1>2. /\ x.specs \in [Machines -> Text \cup {NoSpec}] /\ x.actors \in [Machines -> Parseable \cup {NoSpec}]
      /\ x.alive \in BOOLEAN
  BY FieldTypes
<1>3. Unsettled(x) \in NodeStates /\ Unsettled(x).settled = b
  BY <1>1, <1>2, NodeFields
<1>4. QED
  BY <1>1, <1>3

LEMMA StoppedNode ==
  ASSUME NEW x \in NodeStates, NEW y \in Stopped(x) PROVE y \in NodeStates /\ ~y.alive
<1>1. PICK b \in BOOLEAN : y = NodeOf(Nothing, Nothing, b, FALSE)
  BY DEF Stopped
<1>2. QED
  BY <1>1, EmptyNode

LEMMA MovedNode ==
  ASSUME NEW x \in NodeStates, NEW self, NEW owner, NEW y \in Moved(self, owner, x)
  PROVE  y \in NodeStates /\ (y.settled => \A m \in Machines : ~Astray(self, owner, y, m))
<1>1. /\ y \in { NodeOf(x.specs, f, b, x.alive) : f \in Rebalanced(x), b \in BOOLEAN }
      /\ y.settled => \A m \in Machines : ~Astray(self, owner, y, m)
  BY DEF Moved
<1>2. PICK f \in Rebalanced(x), b \in BOOLEAN : y = NodeOf(x.specs, f, b, x.alive)
  BY <1>1
<1>3. f \in [Machines -> Parseable \cup {NoSpec}]
  BY DEF Rebalanced
<1>4. QED
  BY <1>1, <1>2, <1>3, FieldTypes, NodeFields

LEMMA DeletedNode ==
  ASSUME NEW x \in NodeStates, NEW self, NEW owner, NEW y \in Deletes(x)
  PROVE  /\ y \in NodeStates /\ y.settled = x.settled /\ y.alive = x.alive
         /\ \A m \in Machines : Astray(self, owner, y, m) => Astray(self, owner, x, m)
<1>1. PICK m \in Machines :
        y = NodeOf([x.specs EXCEPT ![m] = NoSpec], [x.actors EXCEPT ![m] = NoSpec], x.settled, x.alive)
  BY DEF Deletes
<1>2. /\ [x.specs EXCEPT ![m] = NoSpec] \in [Machines -> Text \cup {NoSpec}]
      /\ [x.actors EXCEPT ![m] = NoSpec] \in [Machines -> Parseable \cup {NoSpec}]
  BY FieldTypes
<1>3. /\ y \in NodeStates /\ y.settled = x.settled /\ y.alive = x.alive
      /\ y.specs = [x.specs EXCEPT ![m] = NoSpec] /\ y.actors = [x.actors EXCEPT ![m] = NoSpec]
  <2>1. x.settled \in BOOLEAN /\ x.alive \in BOOLEAN
    BY FieldTypes
  <2>2. QED
    BY <1>1, <1>2, <2>1, NodeFields
<1>4. NoSpec \notin Parseable
  BY TextAssumption
<1>5. QED
  BY <1>3, <1>4, FieldTypes DEF Astray, Runs

LEMMA PutNode ==
  ASSUME NEW x \in NodeStates, NEW self, NEW owner, NEW y \in Puts(self, owner, x)
  PROVE  /\ y \in NodeStates /\ y.settled = x.settled /\ y.alive = x.alive
         /\ \A m \in Machines : Astray(self, owner, y, m) => Astray(self, owner, x, m)
<1>1. PICK ms \in Machines \X Text : y = Put(self, owner, x, ms[1], ms[2])
  BY DEF Puts
<1>2. PICK m \in Machines, s \in Text : y = Put(self, owner, x, m, s)
  BY <1>1
<1> DEFINE specs  == [x.specs EXCEPT ![m] = s]
           actor  == IF owner[m] = self THEN IF s \in Parseable THEN s ELSE x.actors[m] ELSE NoSpec
           actors == [x.actors EXCEPT ![m] = actor]
<1>3. specs \in [Machines -> Text \cup {NoSpec}] /\ actors \in [Machines -> Parseable \cup {NoSpec}]
  BY FieldTypes
<1>4. y = NodeOf(specs, actors, x.settled, x.alive)
  BY <1>2 DEF Put
<1>5. /\ y \in NodeStates /\ y.settled = x.settled /\ y.alive = x.alive
      /\ y.specs = specs /\ y.actors = actors
  <2> HIDE DEF specs, actors
  <2>1. x.settled \in BOOLEAN /\ x.alive \in BOOLEAN
    BY FieldTypes
  <2>2. QED
    BY <1>3, <1>4, <2>1, NodeFields
<1>6. NoSpec \notin Parseable
  BY TextAssumption
<1>7. QED
  BY <1>5, <1>6, FieldTypes DEF Astray, Runs

-----------------------------------------------------------------------------
(* The invariant.                                                            *)

\* A step of one node replaces its record and nothing else.
LEMMA OneNodeSteps ==
  ASSUME ClusterTypeOK, NothingAstray, NEW r \in Replicas, NEW x \in NodeStates,
         place' = [place EXCEPT ![r] = x], UNCHANGED <<score, nodes>>,
         x.alive /\ x.settled => \A m \in Machines : ~Astray(r, Owner(r), x, m)
  PROVE  ClusterTypeOK' /\ NothingAstray'
<1>1. ClusterTypeOK'
  BY DEF ClusterTypeOK, TypeOK
<1>2. \A q \in Replicas : Owner(q)' = Owner(q)
  BY DEF Owner, LookupMachine
<1>3. \A q \in Replicas : place'[q] = IF q = r THEN x ELSE place[q]
  BY DEF ClusterTypeOK
<1>4. NothingAstray'
  BY <1>2, <1>3 DEF NothingAstray, AtRest, Astray, Runs
<1>5. QED
  BY <1>1, <1>4

LEMMA TopologySteps ==
  ASSUME ClusterTypeOK, NothingAstray, NEW r \in Replicas, NEW S \in SUBSET Peers,
         NEW peers \in SetToSeqs(S), topology_changes(r, peers)
  PROVE  ClusterTypeOK' /\ NothingAstray'
<1>1. /\ nodes' = [nodes EXCEPT ![r] = rebuild(peers)] /\ score' = score
      /\ place' = [place EXCEPT ![r] = Unsettled(place[r])]
  BY DEF topology_changes, TopologyChanged
<1>2. rebuild(peers) \in NodeVectors
  BY RebuildSorts
<1>3. place[r] \in NodeStates /\ Unsettled(place[r]) \in NodeStates /\ ~Unsettled(place[r]).settled
  BY UnsettledNode DEF ClusterTypeOK
<1>4. ClusterTypeOK'
  BY <1>1, <1>2, <1>3 DEF ClusterTypeOK, TypeOK
<1>5. ASSUME NEW q \in Replicas, AtRest(q)', NEW m \in Machines PROVE ~Astray(q, Owner(q), place[q], m)'
  <2>1. q # r
    BY <1>1, <1>3, <1>5 DEF AtRest, ClusterTypeOK
  <2>2. place'[q] = place[q] /\ nodes'[q] = nodes[q]
    BY <1>1, <2>1 DEF ClusterTypeOK, TypeOK
  <2>3. Owner(q)' = Owner(q) /\ AtRest(q)
    BY <1>1, <1>5, <2>2 DEF Owner, LookupMachine, AtRest
  <2>4. QED
    BY <2>2, <2>3 DEF NothingAstray, Astray, Runs
<1>6. QED
  BY <1>4, <1>5 DEF NothingAstray

\* ClusterTypeOK and NothingAstray hold in every reachable state.
THEOREM ClusterInductive == ClusterSpec => [](ClusterTypeOK /\ NothingAstray)
<1>1. ASSUME ClusterInit PROVE ClusterTypeOK /\ NothingAstray
  <2>1. ASSUME NEW r \in Replicas PROVE rebuild(<<r>>) \in NodeVectors /\ ToSet(rebuild(<<r>>)) = {r}
    <3>1. Cardinality({r}) = 1 /\ {r} \in SUBSET Peers
      BY ReplicasAssumption, FS_Singleton
    <3>2. <<r>> \in SetToSeqs({r})
      BY <3>1 DEF SetToSeqs
    <3>3. QED
      BY <3>1, <3>2, RebuildSorts
  <2>2. Started \in NodeStates /\ Started.specs = Nothing /\ Started.actors = Nothing
    BY EmptyNode DEF Started
  <2>3. ClusterTypeOK
    BY <1>1, <2>1, <2>2 DEF ClusterInit, Init, ClusterTypeOK, TypeOK
  <2>4. NoSpec \notin Parseable
    BY TextAssumption
  <2>5. NothingAstray
    BY <1>1, <2>2, <2>4 DEF ClusterInit, NothingAstray, Astray, Runs, Nothing
  <2>6. QED
    BY <2>3, <2>5
<1>2. ASSUME ClusterTypeOK, NothingAstray, [ClusterNext]_clusterVars PROVE ClusterTypeOK' /\ NothingAstray'
  <2>1. CASE UNCHANGED clusterVars
    BY <1>2, <2>1 DEF clusterVars, ClusterTypeOK, TypeOK, NothingAstray, AtRest, Owner, LookupMachine, Astray, Runs
  <2>2. ASSUME NEW r \in Replicas,
               \/ rebalance_actors(r)
               \/ handle_machine_put(r)
               \/ handle_machine_delete(r)
               \/ manager_stops(r)
        PROVE  ClusterTypeOK' /\ NothingAstray'
    <3>1. place[r] \in NodeStates /\ place[r].alive
      BY <1>2, <2>2 DEF ClusterTypeOK, rebalance_actors, handle_machine_put, handle_machine_delete,
                        manager_stops, Steps
    <3>2. place[r].settled => \A m \in Machines : ~Astray(r, Owner(r), place[r], m)
      BY <1>2, <3>1 DEF NothingAstray, AtRest
    <3>3. CASE rebalance_actors(r)
      <4>1. PICK x \in Moved(r, Owner(r), place[r]) :
              place' = [place EXCEPT ![r] = x] /\ UNCHANGED <<score, nodes>>
        BY <3>3 DEF rebalance_actors, Steps
      <4>2. QED
        BY <1>2, <3>1, <4>1, MovedNode, OneNodeSteps
    <3>4. CASE handle_machine_put(r)
      <4>1. PICK x \in Puts(r, Owner(r), place[r]) :
              place' = [place EXCEPT ![r] = x] /\ UNCHANGED <<score, nodes>>
        BY <3>4 DEF handle_machine_put, Steps
      <4>2. /\ x \in NodeStates /\ x.settled = place[r].settled
            /\ \A m \in Machines : Astray(r, Owner(r), x, m) => Astray(r, Owner(r), place[r], m)
        BY <3>1, <4>1, PutNode
      <4>3. QED
        BY <1>2, <3>2, <4>1, <4>2, OneNodeSteps
    <3>5. CASE handle_machine_delete(r)
      <4>1. PICK x \in Deletes(place[r]) :
              place' = [place EXCEPT ![r] = x] /\ UNCHANGED <<score, nodes>>
        BY <3>5 DEF handle_machine_delete, Steps
      <4>2. /\ x \in NodeStates /\ x.settled = place[r].settled
            /\ \A m \in Machines : Astray(r, Owner(r), x, m) => Astray(r, Owner(r), place[r], m)
        BY <3>1, <4>1, DeletedNode
      <4>3. QED
        BY <1>2, <3>2, <4>1, <4>2, OneNodeSteps
    <3>6. CASE manager_stops(r)
      <4>1. PICK x \in Stopped(place[r]) :
              place' = [place EXCEPT ![r] = x] /\ UNCHANGED <<score, nodes>>
        BY <3>6 DEF manager_stops, Steps
      <4>2. QED
        BY <1>2, <3>1, <4>1, StoppedNode, OneNodeSteps
    <3>7. QED
      BY <2>2, <3>3, <3>4, <3>5, <3>6
  <2>3. QED
    BY <1>2, <2>1, <2>2, TopologySteps DEF ClusterNext
<1>3. QED
  BY <1>1, <1>2, PTL DEF ClusterSpec

(* Every replica holds a sorted vector of known peers and every node a       *)
(* record of specs and actors.  (RendezvousHasher, MachineActorManagerActor) *)
THEOREM ClusterTypeCorrect == ClusterSpec => []ClusterTypeOK
  BY ClusterInductive, PTL

-----------------------------------------------------------------------------
(* Owners.                                                                   *)

\* What a replica with these nodes answers, by the set of its nodes.
LEMMA OwnerOf ==
  ASSUME NEW sc \in [Machines -> Scores], NEW ns \in NodeVectors, NEW m \in Machines
  PROVE  LET S == ToSet(ns)
             o == lookup(sc, ns, m)
         IN  /\ S \in SUBSET Peers /\ sc[m] \in [Peers -> Nat]
             /\ IF S = {} THEN o = NoPeer ELSE Winner(sc[m], o, S)
<1>1. sc \in [Machines -> [Peers -> Nat]]
  <2>1. Scores \subseteq [Peers -> Nat]
    BY MaxScoreAssumption DEF Scores
  <2>2. QED
    BY <2>1
<1>2. PICK S \in SUBSET Peers : ns \in SetToSeqs(S)
  BY DEF NodeVectors
<1>3. ToSet(ns) \in SUBSET Peers
  BY <1>2, VectorOf
<1>4. QED
  BY <1>1, <1>3, LookupWins

(* OwnerIsWinner: in every reachable state what RendezvousHasher::lookup     *)
(* answers depends on the set of the replica's nodes alone, not on the order *)
(* in which the hash set of known peers was iterated.                        *)
THEOREM AnswersWin == ClusterSpec => []OwnerIsWinner
<1>1. ASSUME TypeOK PROVE OwnerIsWinner
  BY <1>1, OwnerOf DEF TypeOK, OwnerIsWinner, LookupMachine, Wins, Winner
<1>2. ClusterTypeOK => TypeOK
  BY DEF ClusterTypeOK
<1>3. QED
  BY <1>1, <1>2, ClusterTypeCorrect, PTL

(* MinimalDisruption: no TopologyChanged, however many peers join and leave  *)
(* in it, moves a machine between two peers the replica knew before and      *)
(* knows after.                                                              *)
THEOREM Disruption == ClusterSpec => MinimalDisruption
<1>1. ASSUME TypeOK, TypeOK', score' = score, NEW r \in Replicas, NEW m \in Machines,
             lookup(score, nodes[r], m) \in ToSet(nodes'[r]),
             lookup(score', nodes'[r], m) \in ToSet(nodes[r])
      PROVE  lookup(score, nodes[r], m) = lookup(score', nodes'[r], m)
  <2> DEFINE old == lookup(score, nodes[r], m)
             new == lookup(score', nodes'[r], m)
             S == ToSet(nodes[r])
             T == ToSet(nodes'[r])
  <2>1. S \in SUBSET Peers /\ score[m] \in [Peers -> Nat] /\ Winner(score[m], old, S)
    BY <1>1, OwnerOf DEF TypeOK
  <2>2. T \in SUBSET Peers /\ Winner(score[m], new, T)
    BY <1>1, OwnerOf DEF TypeOK
  <2>3. old \in S \cap T /\ new \in S \cap T
    BY <1>1, <2>1, <2>2 DEF Winner
  <2> HIDE DEF old, new, S, T
  <2>4. Winner(score[m], old, S \cap T) /\ Winner(score[m], new, S \cap T)
    BY <2>1, <2>2, <2>3, WinsAmongFewer
  <2>5. QED
    BY <2>1, <2>4, OneWinner DEF old, new
<1>2. [ClusterNext]_clusterVars => score' = score
  BY DEF ClusterNext, topology_changes, TopologyChanged, rebalance_actors, handle_machine_put,
         handle_machine_delete, manager_stops, Steps, clusterVars
<1>3. ASSUME ClusterTypeOK, ClusterTypeOK', [ClusterNext]_clusterVars
      PROVE  [ \A r \in Replicas, m \in Machines :
                 LET old == lookup(score, nodes[r], m)
                     new == lookup(score', nodes'[r], m)
                 IN old # new => \/ old \notin ToSet(nodes'[r])
                                 \/ new \notin ToSet(nodes[r]) ]_vars
  <2>1. TypeOK /\ TypeOK'
    BY <1>3 DEF ClusterTypeOK
  <2>2. QED
    BY <1>1, <1>2, <1>3, <2>1
<1>4. QED
  BY <1>3, ClusterTypeCorrect, PTL DEF ClusterSpec, MinimalDisruption

-----------------------------------------------------------------------------
(* Placement over the cluster.                                               *)

\* A machine that runs on a node at rest is won by that node among its peers.
LEMMA RunnerWins ==
  ASSUME ClusterTypeOK, NothingAstray, NEW r \in Replicas, NEW m \in Machines, AtRest(r), Running(r, m)
  PROVE  Winner(score[m], r, View(r))
<1>1. Owner(r)[m] = r
  BY DEF NothingAstray, Astray, Running
<1>2. lookup(score, nodes[r], m) = r /\ r # NoPeer
  BY <1>1, NoPeerAssumption, ReplicasAssumption DEF Owner, LookupMachine
<1>3. QED
  BY <1>2, OwnerOf DEF ClusterTypeOK, TypeOK, View

(* NoDoubleRun: two nodes at rest that know of each other never both run a   *)
(* machine, whatever the rest of their topologies is.  Each would have to    *)
(* win the machine against the other.  (lookup under handle_machine_put and  *)
(* rebalance_actors)                                                         *)
THEOREM OneOfTwo == ClusterSpec => []NoDoubleRun
<1>1. ASSUME ClusterTypeOK, NothingAstray, NEW a \in Replicas, NEW b \in Replicas, NEW m \in Machines,
             AtRest(a), AtRest(b), a \in View(b), b \in View(a), Running(a, m), Running(b, m)
      PROVE  a = b
  <2>1. Winner(score[m], a, View(a)) /\ Winner(score[m], b, View(b))
    BY <1>1, RunnerWins
  <2>2. Winner(score[m], a, {a, b}) /\ Winner(score[m], b, {a, b})
    BY <1>1, <2>1 DEF Winner
  <2>3. score[m] \in [Peers -> Nat] /\ {a, b} \in SUBSET Peers
    BY <1>1, OwnerOf, ReplicasAssumption DEF ClusterTypeOK, TypeOK
  <2>4. QED
    BY <2>2, <2>3, OneWinner
<1>2. ClusterTypeOK /\ NothingAstray => NoDoubleRun
  BY <1>1 DEF NoDoubleRun
<1>3. QED
  BY <1>2, ClusterInductive, PTL

(* OneRunner: nodes that know exactly each other and a usable spec run the   *)
(* machine on exactly one of them once all are at rest: all answer the same  *)
(* owner, which is one of them and has nothing astray.  (manager.rs:4)       *)
THEOREM OneOfAll == ClusterSpec => []OneRunner
<1>1. ASSUME ClusterTypeOK, NothingAstray, NEW m \in Machines, NEW S \in (SUBSET Replicas) \ {{}},
             Agreed(S, m), \A r \in S : AtRest(r)
      PROVE  Cardinality({ r \in S : Running(r, m) }) = 1
  <2>1. S \in SUBSET Peers /\ S \subseteq Replicas /\ S # {} /\ \A r \in S : View(r) = S /\ place[r].specs[m] \in Parseable
    BY <1>1, ReplicasAssumption DEF Agreed
  <2>2. \A r \in S : score[m] \in [Peers -> Nat] /\ Winner(score[m], Owner(r)[m], S)
    BY <1>1, <2>1, OwnerOf DEF ClusterTypeOK, TypeOK, View, Owner, LookupMachine
  <2>3. PICK w : \A r \in S : Owner(r)[m] = w
    <3>1. PICK q \in S : TRUE
      BY <2>1
    <3>2. \A r \in S : Owner(r)[m] = Owner(q)[m]
      BY <2>1, <2>2, <3>1, OneWinner
    <3>3. QED
      BY <3>2
  <2>4. w \in S
    BY <2>1, <2>2, <2>3 DEF Winner
  <2>5. \A r \in S : Running(r, m) <=> r = w
    BY <1>1, <2>1, <2>3 DEF NothingAstray, Astray, Running
  <2>6. { r \in S : Running(r, m) } = {w}
    BY <2>4, <2>5
  <2>7. QED
    BY <2>6, FS_Singleton
<1>2. ClusterTypeOK /\ NothingAstray => OneRunner
  BY <1>1 DEF OneRunner
<1>3. QED
  BY <1>2, ClusterInductive, PTL
=============================================================================
