------------------------- MODULE MachineManagerProofs -------------------------
(***************************************************************************)
(* Theorems about MachineManager for every set of peers and machines, every*)
(* hash, every capacity and every bound.                                   *)
(***************************************************************************)
EXTENDS MachineManager, RendezvousProofs

USE LocalAssumption, SpecsAssumption, BoundsAssumption

\* What the coordinator makes of a set of peers.
LEMMA Rebuilt ==
  /\ \A S \in SUBSET Peers : rebuild(SetToSeq(S)) \in NodeVectors /\ ToSet(rebuild(SetToSeq(S))) = S
  /\ rebuild(<<Local>>) \in NodeVectors /\ ToSet(rebuild(<<Local>>)) = {Local}
<1>1. ASSUME NEW S \in SUBSET Peers PROVE rebuild(SetToSeq(S)) \in NodeVectors /\ ToSet(rebuild(SetToSeq(S))) = S
  BY SomeVector, RebuildSorts
<1>2. <<Local>> \in SetToSeqs({Local}) /\ {Local} \in SUBSET Peers
  <2>1. Cardinality({Local}) = 1
    BY FS_Singleton
  <2>2. QED
    BY <2>1 DEF SetToSeqs
<1>3. QED
  BY <1>1, <1>2, RebuildSorts

LEMMA InitTyped == Init => TypeOK
  BY Rebuilt DEF Init, TypeOK, Nothing

\* The values that travel through the queues.
LEMMA MessageTypes ==
  /\ [type |-> "rebalance"] \in Message
  /\ [type |-> "sync"] \in Message
  /\ \A e \in Event : e \in Message
  /\ \A m \in Machines, s \in Specs \cup {NoSpec} : Forwarded(m, s) \in Event
<1>1. ASSUME NEW m \in Machines, NEW s \in Specs \cup {NoSpec} PROVE Forwarded(m, s) \in Event
  <2>1. CASE s = NoSpec
    BY <2>1 DEF Forwarded, Event
  <2>2. CASE s # NoSpec /\ s \in Text
    BY <2>2 DEF Forwarded, Event
  <2>3. CASE s # NoSpec /\ s \notin Text
    BY <2>3 DEF Forwarded, Event
  <2>4. QED
    BY <2>1, <2>2, <2>3
<1>2. QED
  BY <1>1 DEF Message

\* One case per action: discovery, the tasks around the manager, etcd.
LEMMA TasksTyped ==
  ASSUME TypeOK, DiscoveryNext \/ BridgeNext \/ topology_listener \/ convergence_waiter
  PROVE  TypeOK'
<1> USE DEF discoveryVars, shardingVars, etcdVars, jobVars, managerVars
<1>1. ASSUME NEW found \in SUBSET Peers, converge(found) PROVE TypeOK'
  BY <1>1 DEF TypeOK, converge, notify_sharding
<1>2. CASE signal_convergence
  BY <1>2 DEF TypeOK, signal_convergence
<1>3. CASE discovery_fails
  BY <1>3 DEF TypeOK, discovery_fails
<1>4. CASE process_watch_event
  <2>1. PICK peers \in SUBSET Peers : notify_sharding(peers)
    BY <1>4 DEF TypeOK, process_watch_event
  <2>2. QED
    BY <1>4, <2>1 DEF TypeOK, process_watch_event, notify_sharding
<1>5. CASE bridge_update
  <2>1. Head(sharding_rx) \in SUBSET Peers /\ Tail(sharding_rx) \in Seq(SUBSET Peers)
    BY <1>5 DEF TypeOK, bridge_update
  <2>2. nodes' \in NodeVectors
    BY <1>5, <2>1, Rebuilt DEF bridge_update
  <2>3. QED
    BY <1>5, <2>1, <2>2 DEF TypeOK, bridge_update
<1>6. CASE bridge_notify
  BY <1>6 DEF TypeOK, bridge_notify
<1>7. CASE topology_listener
  <2>1. Append(mailbox, [type |-> "rebalance"]) \in Seq(Message) /\ mailbox \in Seq(Message)
    BY MessageTypes DEF TypeOK
  <2>2. mailbox' \in Seq(Message)
    BY <1>7, <2>1 DEF topology_listener
  <2>3. listener' \in {"recv", "asking"} /\ topology_rx' \in Nat
    BY <1>7 DEF TypeOK, topology_listener
  <2>4. QED
    BY <1>7, <2>2, <2>3 DEF TypeOK, topology_listener
<1>8. CASE convergence_waiter
  <2>1. Append(mailbox, [type |-> "sync"]) \in Seq(Message) /\ mailbox \in Seq(Message)
    BY MessageTypes DEF TypeOK
  <2>2. mailbox' \in Seq(Message)
    BY <1>8, <2>1 DEF convergence_waiter
  <2>3. waiter' \in {"waiting", "asking", "done"}
    BY <1>8 DEF TypeOK, convergence_waiter
  <2>4. QED
    BY <1>8, <2>2, <2>3 DEF TypeOK, convergence_waiter
<1>9. QED
  BY <1>1, <1>2, <1>3, <1>4, <1>5, <1>6, <1>7, <1>8 DEF DiscoveryNext, BridgeNext

LEMMA EtcdTyped ==
  ASSUME TypeOK, EtcdNext \/ WatchNext
  PROVE  TypeOK'
<1> USE DEF discoveryVars, shardingVars, etcdVars, jobVars, managerVars
<1>1. ASSUME NEW m \in Machines, NEW s \in Specs \cup {NoSpec}, write_machine(m, s) PROVE TypeOK'
  <2>1. Forwarded(m, s) \in Event
    BY MessageTypes
  <2>2. QED
    <3>1. Append(stream, Forwarded(m, s)) \in Seq(Event) /\ stream \in Seq(Event)
      BY <2>1 DEF TypeOK
    <3>2. stream' \in Seq(Event) /\ missed' \in SUBSET Machines
      BY <1>1, <3>1 DEF TypeOK, write_machine
    <3>3. QED
      BY <1>1, <3>2 DEF TypeOK, write_machine
<1>2. CASE watch_break
  <2>1. { e.machine : e \in ToSet(stream) } \subseteq Machines
    <3>1. ASSUME NEW i \in DOMAIN stream PROVE stream[i].machine \in Machines
      <4>1. stream[i] \in Event
        BY <3>1 DEF TypeOK
      <4>2. QED
        BY <4>1 DEF Event
    <3>2. QED
      BY <3>1 DEF ToSet
  <2>2. QED
    BY <1>2, <2>1 DEF TypeOK, watch_break
<1>3. CASE watch_open
  BY <1>3 DEF TypeOK, watch_open
<1>4. CASE watch_forward
  <2>1. Head(stream) \in Message /\ Tail(stream) \in Seq(Event)
    BY <1>4, MessageTypes DEF TypeOK, watch_forward
  <2>2. Append(mailbox, Head(stream)) \in Seq(Message) /\ mailbox \in Seq(Message)
    BY <2>1 DEF TypeOK
  <2>3. mailbox' \in Seq(Message)
    BY <1>4, <2>2 DEF watch_forward
  <2>4. QED
    BY <1>4, <2>1, <2>3 DEF TypeOK, watch_forward
<1>5. QED
  BY <1>1, <1>2, <1>3, <1>4 DEF EtcdNext, WatchNext

\* The message a handler takes, and what is left.
LEMMA Received ==
  ASSUME TypeOK, mailbox # <<>>
  PROVE  /\ Head(mailbox) \in Message
         /\ Tail(mailbox) \in Seq(Message)
         /\ Head(mailbox).type \in {"put", "delete"} =>
              /\ Head(mailbox).machine \in Machines
              /\ Head(mailbox).spec \in Text \cup {NoSpec}
<1>1. mailbox \in Seq(Message)
  BY DEF TypeOK
<1>2. Head(mailbox) \in Message /\ Tail(mailbox) \in Seq(Message)
  BY <1>1
<1>3. QED
  BY <1>2 DEF Message, Event

\* handle_machine_put keeps the types of the three maps.
LEMMA PutTyped ==
  ASSUME TypeOK, NEW m \in Machines, NEW s \in Text, handle_machine_put(m, s)
  PROVE  /\ machine_specs' \in [Machines -> Text \cup {NoSpec}]
         /\ actors' \in [Machines -> Parseable \cup {NoSpec}]
         /\ restart_trackers' \in SUBSET Machines
  BY DEF TypeOK, handle_machine_put, update_machine_spec, spawn_machine_actor, stop_machine_actor

LEMMA StopTyped == ASSUME TypeOK, manager_stops PROVE TypeOK'
  BY DEF TypeOK, manager_stops, environment, discoveryVars, Nothing

LEMMA ManagerTyped ==
  ASSUME TypeOK, ManagerNext
  PROVE  TypeOK'
<1> USE DEF discoveryVars, environment, jobVars, managerVars
<1>1. CASE handle_put
  <2> DEFINE e == Head(mailbox)
  <2>1. e.machine \in Machines /\ e.spec \in Text \cup {NoSpec} /\ Tail(mailbox) \in Seq(Message)
    BY <1>1, Received DEF handle_put, Receives
  <2>2. CASE manager_stops
    BY <2>2, StopTyped
  <2>3. CASE mailbox' = Tail(mailbox) /\ e.spec # NoSpec /\ handle_machine_put(e.machine, e.spec)
             /\ UNCHANGED <<environment, listener, waiter, missed, manager, jobVars>>
    BY <2>1, <2>3, PutTyped DEF TypeOK
  <2>4. CASE mailbox' = Tail(mailbox) /\ UNCHANGED managerVars
             /\ UNCHANGED <<environment, listener, waiter, missed, manager, jobVars>>
    BY <2>1, <2>4 DEF TypeOK
  <2>5. QED
    BY <1>1, <2>2, <2>3, <2>4 DEF handle_put
<1>2. CASE handle_delete
  <2>1. Head(mailbox).machine \in Machines /\ Tail(mailbox) \in Seq(Message)
    BY <1>2, Received DEF handle_delete, Receives
  <2>2. QED
    BY <1>2, <2>1 DEF TypeOK, handle_delete, stop_machine_actor
<1>3. CASE rebalance_start
  <2>1. Tail(mailbox) \in Seq(Message)
    BY <1>3, Received DEF rebalance_start, Receives
  <2>2. QED
    BY <1>3, <2>1 DEF TypeOK, rebalance_start, Cached
<1>4. ASSUME NEW m \in Machines, rebalance_lookup(m) PROVE TypeOK'
  BY <1>4 DEF TypeOK, rebalance_lookup
<1>5. CASE rebalance_apply
  BY <1>5 DEF TypeOK, rebalance_apply
<1>6. CASE sync_get
  <2>1. Tail(mailbox) \in Seq(Message)
    BY <1>6, Received DEF sync_get, Receives
  <2>2. job' \in {"idle", "sync"} /\ todo' \in SUBSET Machines /\ missed' \in SUBSET Machines
        /\ fetched' \in [Machines -> Text \cup {NoSpec}] /\ waiter' \in {"waiting", "asking", "done"}
    BY <1>6 DEF TypeOK, sync_get, Receives
  <2>3. job' = "sync" => \A m \in todo' : fetched'[m] # NoSpec
    BY <1>6 DEF TypeOK, sync_get, Receives
  <2>4. QED
    BY <1>6, <2>1, <2>2, <2>3 DEF TypeOK, sync_get
<1>7. ASSUME NEW m \in Machines, sync_put(m) PROVE TypeOK'
  <2>1. CASE manager_stops
    BY <2>1, StopTyped
  <2>2. CASE ~manager_stops
    <3>1. fetched[m] \in Text
      BY <1>7, <2>2 DEF TypeOK, sync_put
    <3>2. QED
      BY <1>7, <2>2, <3>1, PutTyped DEF TypeOK, sync_put
  <2>3. QED
    BY <2>1, <2>2
<1>8. CASE sync_done
  BY <1>8 DEF TypeOK, sync_done, Nothing
<1>9. QED
  BY <1>1, <1>2, <1>3, <1>4, <1>5, <1>6, <1>7, <1>8 DEF ManagerNext

(* TypeOK holds in every reachable state: the queues carry only the messages *)
(* their readers expect and no map is ever undefined on a machine.           *)
THEOREM TypeCorrect == Spec => []TypeOK
<1>1. ASSUME TypeOK, [Next]_vars PROVE TypeOK'
  <2>1. CASE UNCHANGED vars
    BY <1>1, <2>1 DEF TypeOK, vars, discoveryVars, shardingVars, etcdVars, jobVars, managerVars
  <2>2. QED
    BY <1>1, <2>1, TasksTyped, EtcdTyped, ManagerTyped DEF Next
<1>2. QED
  BY <1>1, InitTyped, PTL DEF Spec

-----------------------------------------------------------------------------
(* Placement.  The facts below are about the parts of the state PlacementInv *)
(* reads.                                                                    *)

placementVars == <<mailbox, listener, job, todo, to_stop, to_spawn, machine_specs, actors,
                   restart_trackers, manager, bridge, topology_rx, nodes>>

LEMMA PlacementFrame == ASSUME PlacementInv, UNCHANGED placementVars PROVE PlacementInv'
  BY DEF PlacementInv, OneRebalance, RebalanceTodo, ActorsAreTracked, PlacedOrInHand, RebalanceQueued,
         Running, Cached, Decided, Misplaced, Owner, alive, placementVars

\* A message that is no rebalance request joins the queue.
LEMMA EnqueueOther ==
  ASSUME TypeOK, OneRebalance, NEW e \in Message, e.type # "rebalance",
         mailbox' = Append(mailbox, e), UNCHANGED <<listener, job>>
  PROVE  OneRebalance' /\ (RebalanceQueued' <=> RebalanceQueued)
<1>1. mailbox \in Seq(Message)
  BY DEF TypeOK
<1>2. /\ Len(mailbox') = Len(mailbox) + 1 /\ Len(mailbox) \in Nat
      /\ \A i \in 1..Len(mailbox) : mailbox'[i] = mailbox[i]
      /\ mailbox'[Len(mailbox) + 1] = e
  BY <1>1
<1>3. \A i \in 1..Len(mailbox') : mailbox'[i].type = "rebalance" => i \in 1..Len(mailbox)
  BY <1>2
<1>4. RebalanceQueued' <=> RebalanceQueued
  BY <1>2, <1>3 DEF RebalanceQueued
<1>5. QED
  BY <1>2, <1>3, <1>4 DEF OneRebalance

\* The head of the queue is taken.
LEMMA Dequeue ==
  ASSUME TypeOK, OneRebalance, mailbox # <<>>, mailbox' = Tail(mailbox)
  PROVE  /\ \A i, j \in 1..Len(mailbox') :
              mailbox'[i].type = "rebalance" /\ mailbox'[j].type = "rebalance" => i = j
         /\ IF Head(mailbox).type = "rebalance" THEN RebalanceQueued /\ ~RebalanceQueued'
                                                ELSE RebalanceQueued' <=> RebalanceQueued
<1>1. mailbox \in Seq(Message)
  BY DEF TypeOK
<1>2. /\ Len(mailbox) \in Nat \ {0} /\ Len(mailbox') = Len(mailbox) - 1
      /\ \A i \in 1..Len(mailbox') : mailbox'[i] = mailbox[i + 1]
      /\ Head(mailbox) = mailbox[1]
  BY <1>1
<1>3. \A i \in 1..Len(mailbox') : i + 1 \in 1..Len(mailbox) /\ i + 1 # 1
  BY <1>2
<1>4. \A i \in 1..Len(mailbox) : i # 1 => i - 1 \in 1..Len(mailbox') /\ mailbox'[i - 1] = mailbox[i]
  BY <1>2
<1>5. \A i, j \in 1..Len(mailbox') :
        mailbox'[i].type = "rebalance" /\ mailbox'[j].type = "rebalance" => i = j
  <2>1. ASSUME NEW i \in 1..Len(mailbox'), NEW j \in 1..Len(mailbox'),
               mailbox'[i].type = "rebalance", mailbox'[j].type = "rebalance"
        PROVE  i = j
    <3>1. i + 1 = j + 1
      BY <1>2, <1>3, <2>1 DEF OneRebalance
    <3>2. QED
      BY <1>2, <3>1
  <2>2. QED
    BY <2>1
<1>6. CASE Head(mailbox).type = "rebalance"
  <2>1. 1 \in 1..Len(mailbox) /\ mailbox[1].type = "rebalance"
    BY <1>2, <1>6
  <2>2. RebalanceQueued
    BY <2>1 DEF RebalanceQueued
  <2>3. ~RebalanceQueued'
    BY <1>2, <1>3, <2>1 DEF OneRebalance, RebalanceQueued
  <2>4. QED
    BY <1>5, <1>6, <2>2, <2>3
<1>7. CASE Head(mailbox).type # "rebalance"
  <2>1. RebalanceQueued' => RebalanceQueued
    BY <1>2, <1>3 DEF RebalanceQueued
  <2>2. RebalanceQueued => RebalanceQueued'
    BY <1>2, <1>4, <1>7 DEF RebalanceQueued
  <2>3. QED
    BY <1>5, <1>7, <2>1, <2>2
<1>8. QED
  BY <1>6, <1>7

\* handle_machine_put leaves its machine placed and the others alone.
LEMMA PutPlaces ==
  ASSUME TypeOK, ActorsAreTracked, NEW m \in Machines, NEW s \in Text, nodes' = nodes,
         handle_machine_put(m, s)
  PROVE  /\ ActorsAreTracked'
         /\ ~Misplaced(m)'
         /\ \A n \in Machines \ {m} : Misplaced(n)' <=> Misplaced(n)
<1> USE DEF TypeOK, Running, Cached
<1>1. CASE Owner(m) = Local /\ m \in Running /\ update_machine_spec(m, s)
  BY <1>1 DEF handle_machine_put, update_machine_spec, ActorsAreTracked, Misplaced, Owner
<1>2. CASE Owner(m) = Local /\ m \notin Running /\ spawn_machine_actor(m, s)
  BY <1>2 DEF handle_machine_put, spawn_machine_actor, ActorsAreTracked, Misplaced, Owner
<1>3. CASE Owner(m) \notin {Local, NoPeer} /\ m \in Running /\ stop_machine_actor(m)
  BY <1>3 DEF handle_machine_put, stop_machine_actor, ActorsAreTracked, Misplaced, Owner
<1>4. CASE Owner(m) # Local /\ m \notin Running /\ UNCHANGED <<actors, restart_trackers>>
  BY <1>4 DEF handle_machine_put, ActorsAreTracked, Misplaced, Owner
<1>5. QED
  BY <1>1, <1>2, <1>3, <1>4 DEF handle_machine_put

LEMMA StopPlaces == ASSUME manager_stops PROVE PlacementInv'
  BY DEF manager_stops, PlacementInv, OneRebalance, RebalanceTodo, ActorsAreTracked, PlacedOrInHand,
         RebalanceQueued, alive, Running, Cached, Nothing

\* Discovery, bridge, listener, waiter, etcd and watch loop.
LEMMA TasksPlace ==
  ASSUME TypeOK, PlacementInv,
         DiscoveryNext \/ BridgeNext \/ topology_listener \/ convergence_waiter \/ EtcdNext \/ WatchNext
  PROVE  PlacementInv'
<1> USE DEF discoveryVars, shardingVars, etcdVars, jobVars, managerVars
<1>1. CASE DiscoveryNext \/ EtcdNext \/ watch_open
  <2>1. UNCHANGED placementVars
    BY <1>1 DEF DiscoveryNext, converge, signal_convergence, discovery_fails, process_watch_event,
                EtcdNext, write_machine, watch_break, watch_open, placementVars
  <2>2. QED
    BY <2>1, PlacementFrame
<1>2. CASE bridge_update
  BY <1>2 DEF bridge_update, PlacementInv, OneRebalance, RebalanceTodo, ActorsAreTracked, PlacedOrInHand,
              RebalanceQueued, Running, Cached
<1>3. CASE bridge_notify
  <2>1. topology_rx' # 0
    BY <1>3 DEF bridge_notify, TypeOK
  <2>2. QED
    BY <1>3, <2>1 DEF bridge_notify, PlacementInv, OneRebalance, RebalanceTodo, ActorsAreTracked,
                      PlacedOrInHand, RebalanceQueued, Running, Cached
<1>4. CASE topology_listener
  <2>1. UNCHANGED <<manager, bridge, nodes, jobVars, managerVars>>
    BY <1>4 DEF topology_listener
  <2>2. CASE ~alive /\ UNCHANGED <<mailbox, listener>>
    BY <2>1, <2>2 DEF PlacementInv, OneRebalance, RebalanceTodo, ActorsAreTracked, PlacedOrInHand,
                      RebalanceQueued, Running, Cached, alive
  <2>3. CASE mailbox' = Append(mailbox, [type |-> "rebalance"]) /\ listener' = "asking"
    <3>1. ~RebalanceQueued /\ job # "rebalance"
      BY <1>4 DEF topology_listener, PlacementInv, OneRebalance
    <3>2. /\ Len(mailbox') = Len(mailbox) + 1 /\ Len(mailbox) \in Nat
          /\ \A i \in 1..Len(mailbox) : mailbox'[i] = mailbox[i]
          /\ mailbox'[Len(mailbox) + 1] = [type |-> "rebalance"]
      <4>1. mailbox \in Seq(Message)
        BY DEF TypeOK
      <4>2. QED
        BY <2>3, <4>1
    <3>3. \A i \in 1..Len(mailbox') : mailbox'[i].type = "rebalance" <=> i = Len(mailbox) + 1
      BY <3>1, <3>2 DEF RebalanceQueued
    <3>4. RebalanceQueued'
      BY <3>2, <3>3 DEF RebalanceQueued
    <3>5. OneRebalance'
      BY <2>1, <2>3, <3>1, <3>3 DEF OneRebalance
    <3>6. QED
      BY <2>1, <3>1, <3>4, <3>5 DEF PlacementInv, RebalanceTodo, ActorsAreTracked, PlacedOrInHand, Running, Cached
  <2>4. QED
    BY <1>4, <2>2, <2>3 DEF topology_listener
<1>5. ASSUME NEW e \in Message, e.type # "rebalance", mailbox' = Append(mailbox, e) \/ mailbox' = mailbox,
             UNCHANGED <<bridge, nodes, topology_rx, listener, manager, jobVars, managerVars>>
      PROVE  PlacementInv'
  <2>1. CASE mailbox' = mailbox
    BY <1>5, <2>1, PlacementFrame DEF placementVars
  <2>2. CASE mailbox' = Append(mailbox, e)
    <3>1. OneRebalance' /\ (RebalanceQueued' <=> RebalanceQueued)
      BY <1>5, <2>2, EnqueueOther DEF PlacementInv
    <3>2. QED
      BY <1>5, <3>1 DEF PlacementInv, RebalanceTodo, ActorsAreTracked, PlacedOrInHand, Running, Cached,
                        Decided, Misplaced, Owner, alive
  <2>3. QED
    BY <1>5, <2>1, <2>2
<1>6. CASE convergence_waiter
  <2>1. [type |-> "sync"] \in Message /\ [type |-> "sync"].type # "rebalance"
    BY MessageTypes
  <2>2. QED
    BY <1>5, <1>6, <2>1 DEF convergence_waiter
<1>7. CASE watch_forward
  <2>1. Head(stream) \in Event
    BY <1>7 DEF watch_forward, TypeOK
  <2>2. Head(stream) \in Message /\ Head(stream).type # "rebalance"
    BY <2>1, MessageTypes DEF Event
  <2>3. QED
    BY <1>5, <1>7, <2>2 DEF watch_forward
<1>8. QED
  BY <1>1, <1>2, <1>3, <1>4, <1>6, <1>7 DEF BridgeNext, WatchNext

\* The handlers of the manager.
LEMMA ManagerPlaces ==
  ASSUME TypeOK, PlacementInv, ManagerNext
  PROVE  PlacementInv'
<1> USE DEF discoveryVars, environment, jobVars, managerVars
\* A put outside a rebalance, by event or by sync.
<1>1. ASSUME NEW m \in Machines, NEW s \in Text, handle_machine_put(m, s), job # "rebalance", job' = job,
             OneRebalance', RebalanceQueued' <=> RebalanceQueued,
             UNCHANGED <<bridge, topology_rx, nodes, listener, manager>>
      PROVE  PlacementInv'
  <2>1. /\ ActorsAreTracked' /\ ~Misplaced(m)'
        /\ \A n \in Machines \ {m} : Misplaced(n)' <=> Misplaced(n)
    BY <1>1, PutPlaces DEF PlacementInv
  <2>2. QED
    BY <1>1, <2>1 DEF PlacementInv, RebalanceTodo, PlacedOrInHand, alive
<1>2. CASE handle_put
  <2> DEFINE e == Head(mailbox)
  <2>1. e.machine \in Machines /\ e.spec \in Text \cup {NoSpec} /\ mailbox # <<>> /\ e.type = "put" /\ job = "idle"
    BY <1>2, Received DEF handle_put, Receives
  <2>2. CASE manager_stops
    BY <2>2, StopPlaces
  <2>3. ASSUME mailbox' = Tail(mailbox), UNCHANGED <<environment, listener, waiter, missed, manager, jobVars>>
        PROVE  OneRebalance' /\ (RebalanceQueued' <=> RebalanceQueued)
    BY <2>1, <2>3, Dequeue DEF PlacementInv, OneRebalance
  <2>4. CASE mailbox' = Tail(mailbox) /\ e.spec # NoSpec /\ handle_machine_put(e.machine, e.spec)
             /\ UNCHANGED <<environment, listener, waiter, missed, manager, jobVars>>
    BY <1>1, <2>1, <2>3, <2>4
  <2>5. CASE mailbox' = Tail(mailbox) /\ UNCHANGED managerVars
             /\ UNCHANGED <<environment, listener, waiter, missed, manager, jobVars>>
    BY <2>3, <2>5 DEF PlacementInv, RebalanceTodo, ActorsAreTracked, PlacedOrInHand, Running, Cached,
                      Decided, Misplaced, Owner, alive
  <2>6. QED
    BY <1>2, <2>2, <2>4, <2>5 DEF handle_put
<1>3. CASE handle_delete
  <2> DEFINE m == Head(mailbox).machine
  <2>1. m \in Machines /\ mailbox # <<>> /\ Head(mailbox).type = "delete" /\ job = "idle"
    BY <1>3, Received DEF handle_delete, Receives
  <2>2. OneRebalance' /\ (RebalanceQueued' <=> RebalanceQueued)
    BY <1>3, <2>1, Dequeue DEF PlacementInv, OneRebalance, handle_delete
  <2>3. ActorsAreTracked'
    BY <1>3, <2>1 DEF PlacementInv, ActorsAreTracked, handle_delete, stop_machine_actor, Running, Cached, TypeOK
  <2>4. \A n \in Machines : Misplaced(n)' => Misplaced(n)
    BY <1>3, <2>1 DEF Misplaced, Running, Owner, handle_delete, stop_machine_actor, TypeOK
  <2>5. QED
    BY <1>3, <2>1, <2>2, <2>3, <2>4 DEF PlacementInv, RebalanceTodo, PlacedOrInHand, alive, handle_delete
<1>4. CASE rebalance_start
  <2>1. mailbox # <<>> /\ Head(mailbox).type = "rebalance" /\ mailbox' = Tail(mailbox)
    BY <1>4 DEF rebalance_start, Receives
  <2>2. RebalanceQueued /\ ~RebalanceQueued'
    BY <2>1, Dequeue DEF PlacementInv
  <2>3. OneRebalance'
    BY <1>4, <2>1, <2>2, Dequeue DEF PlacementInv, OneRebalance, rebalance_start
  <2>4. QED
    BY <1>4, <2>2, <2>3 DEF rebalance_start, PlacementInv, RebalanceTodo, ActorsAreTracked, PlacedOrInHand,
                            Running, Cached, Decided
<1>5. ASSUME NEW m \in Machines, rebalance_lookup(m) PROVE PlacementInv'
  <2>1. OneRebalance' /\ ActorsAreTracked' /\ (RebalanceQueued' <=> RebalanceQueued)
    BY <1>5 DEF rebalance_lookup, PlacementInv, OneRebalance, ActorsAreTracked, RebalanceQueued, Running, Cached
  <2>2. RebalanceTodo'
    BY <1>5 DEF rebalance_lookup, PlacementInv, RebalanceTodo, Cached
  <2>3. Decided(m)'
    BY <1>5 DEF rebalance_lookup, PlacementInv, RebalanceTodo, Decided, Running, Cached, Owner
  <2>4. \A n \in Machines \ {m} : (n \in todo' <=> n \in todo) /\ (Decided(n)' <=> Decided(n))
    BY <1>5 DEF rebalance_lookup, Decided, Running, Cached, Owner
  <2>5. QED
    BY <1>5, <2>1, <2>2, <2>3, <2>4 DEF rebalance_lookup, PlacementInv, PlacedOrInHand, alive
<1>6. CASE rebalance_apply
  <2>1. OneRebalance' /\ (RebalanceQueued' <=> RebalanceQueued) /\ ~RebalanceQueued
    BY <1>6 DEF rebalance_apply, PlacementInv, OneRebalance, RebalanceQueued
  <2>2. ActorsAreTracked'
    BY <1>6 DEF rebalance_apply, PlacementInv, ActorsAreTracked, Running, Cached, TypeOK
  <2>3. ASSUME NEW m \in Machines, Decided(m) PROVE ~Misplaced(m)'
    BY <1>6, <2>3 DEF rebalance_apply, Decided, Misplaced, Running, Cached, Owner, TypeOK
  <2>4. QED
    BY <1>6, <2>1, <2>2, <2>3 DEF rebalance_apply, PlacementInv, RebalanceTodo, PlacedOrInHand, alive
<1>7. CASE sync_get
  <2>1. mailbox # <<>> /\ Head(mailbox).type = "sync" /\ mailbox' = Tail(mailbox) /\ job = "idle" /\ job' # "rebalance"
    BY <1>7 DEF sync_get, Receives
  <2>2. OneRebalance' /\ (RebalanceQueued' <=> RebalanceQueued)
    BY <1>7, <2>1, Dequeue DEF PlacementInv, OneRebalance, sync_get
  <2>3. QED
    BY <1>7, <2>1, <2>2 DEF sync_get, PlacementInv, RebalanceTodo, ActorsAreTracked, PlacedOrInHand,
                            Running, Cached, Misplaced, Owner, alive
<1>8. ASSUME NEW m \in Machines, sync_put(m) PROVE PlacementInv'
  <2>1. CASE manager_stops
    BY <2>1, StopPlaces
  <2>2. CASE ~manager_stops
    <3>1. fetched[m] \in Text /\ handle_machine_put(m, fetched[m]) /\ job = "sync" /\ job' = job
      BY <1>8, <2>2 DEF TypeOK, sync_put
    <3>2. UNCHANGED <<bridge, topology_rx, nodes, listener, manager, mailbox>>
      BY <1>8, <2>2 DEF sync_put
    <3>3. OneRebalance' /\ (RebalanceQueued' <=> RebalanceQueued)
      BY <3>1, <3>2 DEF PlacementInv, OneRebalance, RebalanceQueued
    <3>4. QED
      BY <1>1, <3>1, <3>2, <3>3
  <2>3. QED
    BY <2>1, <2>2
<1>9. CASE sync_done
  BY <1>9 DEF sync_done, PlacementInv, OneRebalance, RebalanceTodo, ActorsAreTracked, PlacedOrInHand,
              RebalanceQueued, Running, Cached, Misplaced, Owner, alive
<1>10. QED
  BY <1>2, <1>3, <1>4, <1>5, <1>6, <1>7, <1>8, <1>9 DEF ManagerNext

LEMMA InitPlaces == Init => PlacementInv
  BY DEF Init, PlacementInv, OneRebalance, RebalanceTodo, ActorsAreTracked, PlacedOrInHand,
         RebalanceQueued, Running, Cached, Misplaced, Nothing

(* The invariant the placement argument rests on is inductive relative to    *)
(* the types: no notification is ever consumed before the topology it speaks *)
(* of can be seen by the rebalance it triggers.                              *)
THEOREM PlacementInductive == Spec => []PlacementInv
<1>1. ASSUME TypeOK, PlacementInv, [Next]_vars PROVE PlacementInv'
  <2>1. CASE UNCHANGED vars
    BY <1>1, <2>1, PlacementFrame
       DEF placementVars, vars, discoveryVars, shardingVars, etcdVars, jobVars, managerVars
  <2>2. QED
    BY <1>1, <2>1, TasksPlace, ManagerPlaces DEF Next
<1>2. QED
  BY <1>1, InitPlaces, TypeCorrect, PTL DEF Spec

(* PlacementAtRest: whatever topologies the lookups of a rebalance, a put or *)
(* a sync saw, once no notification or rebalance is pending every cached     *)
(* machine runs here exactly if the current topology says so.                *)
THEOREM Placement == Spec => []PlacementAtRest
<1>1. PlacementInv => PlacementAtRest
  BY DEF PlacementInv, OneRebalance, PlacedOrInHand, PlacementAtRest, TopologyAtRest
<1>2. QED
  BY <1>1, PlacementInductive, PTL

(* ActorsAreTracked: no running actor can be missed by rebalance_actors,     *)
(* which walks the cached specs only, and each has its restart tracker.      *)
THEOREM Tracking == Spec => []ActorsAreTracked
<1>1. PlacementInv => ActorsAreTracked
  BY DEF PlacementInv
<1>2. QED
  BY <1>1, PlacementInductive, PTL

-----------------------------------------------------------------------------
(* The machine keys: how the cached specs and the specs of the running       *)
(* actors follow etcd.                                                       *)

\* handle_machine_put caches the spec, and touches no other machine.
LEMMA PutCaches ==
  ASSUME TypeOK, NEW m \in Machines, NEW s \in Text, handle_machine_put(m, s)
  PROVE  /\ machine_specs'[m] = s /\ actors'[m] \in {actors[m], s, NoSpec}
         /\ s \in Parseable => actors'[m] \in {s, NoSpec}
         /\ \A n \in Machines \ {m} : machine_specs'[n] = machine_specs[n] /\ actors'[n] = actors[n]
<1> USE DEF TypeOK, Running
<1>1. machine_specs'[m] = s /\ \A n \in Machines \ {m} : machine_specs'[n] = machine_specs[n]
  BY DEF handle_machine_put
<1>2. CASE m \in Running /\ update_machine_spec(m, s)
  BY <1>1, <1>2 DEF update_machine_spec
<1>3. CASE m \notin Running /\ spawn_machine_actor(m, s)
  BY <1>1, <1>3 DEF spawn_machine_actor
<1>4. CASE stop_machine_actor(m)
  BY <1>1, <1>4 DEF stop_machine_actor
<1>5. CASE m \notin Running /\ UNCHANGED <<actors, restart_trackers>>
  BY <1>1, <1>5
<1>6. QED
  BY <1>2, <1>3, <1>4, <1>5 DEF handle_machine_put

\* What each action may do to the maps of the manager: the handlers of events
\* and of the sync change one machine, the end of a rebalance changes no spec.
LEMMA ManagerMaps ==
  ASSUME TypeOK, Next
  PROVE  \/ UNCHANGED <<machine_specs, actors>>
         \/ manager_stops
         \/ \E m \in Machines, s \in Text : handle_machine_put(m, s)
         \/ \E m \in Machines : machine_specs' = [machine_specs EXCEPT ![m] = NoSpec] /\ stop_machine_actor(m)
         \/ rebalance_apply
<1> USE DEF discoveryVars, shardingVars, etcdVars, jobVars, managerVars, environment
<1>1. CASE DiscoveryNext \/ BridgeNext \/ topology_listener \/ convergence_waiter \/ EtcdNext \/ WatchNext
  BY <1>1 DEF DiscoveryNext, converge, signal_convergence, discovery_fails, process_watch_event,
              BridgeNext, bridge_update, bridge_notify, topology_listener, convergence_waiter,
              EtcdNext, write_machine, watch_break, WatchNext, watch_open, watch_forward
<1>2. CASE handle_put
  <2>1. Head(mailbox).machine \in Machines /\ Head(mailbox).spec \in Text \cup {NoSpec}
    BY <1>2, Received DEF handle_put, Receives
  <2>2. QED
    BY <1>2, <2>1 DEF handle_put
<1>3. CASE handle_delete
  <2>1. Head(mailbox).machine \in Machines
    BY <1>3, Received DEF handle_delete, Receives
  <2>2. QED
    BY <1>3, <2>1 DEF handle_delete
<1>4. CASE rebalance_start \/ (\E m \in Machines : rebalance_lookup(m)) \/ sync_get \/ sync_done
  BY <1>4 DEF rebalance_start, rebalance_lookup, sync_get, sync_done
<1>5. ASSUME NEW m \in Machines, sync_put(m), ~manager_stops
      PROVE  \E s \in Text : handle_machine_put(m, s)
  <2>1. fetched[m] \in Text /\ handle_machine_put(m, fetched[m])
    BY <1>5 DEF sync_put, TypeOK
  <2>2. QED
    BY <2>1
<1>6. QED
  BY <1>1, <1>2, <1>3, <1>4, <1>5 DEF Next, ManagerNext

(* ActorRunsCachedSpec: on every path a running actor has the spec the       *)
(* manager has cached for it, unless that one does not parse.                *)
THEOREM CachedSpecRuns == Spec => []ActorRunsCachedSpec
<1>1. Init => ActorRunsCachedSpec
  BY DEF Init, ActorRunsCachedSpec, Running, Nothing
<1>2. ASSUME TypeOK, ActorRunsCachedSpec, [Next]_vars PROVE ActorRunsCachedSpec'
  <2> USE DEF ActorRunsCachedSpec, Running, TypeOK
  <2>1. CASE UNCHANGED <<machine_specs, actors>>
    BY <1>2, <2>1
  <2>2. CASE manager_stops
    BY <2>2 DEF manager_stops, Nothing
  <2>3. ASSUME NEW m \in Machines, NEW s \in Text, handle_machine_put(m, s) PROVE ActorRunsCachedSpec'
    BY <1>2, <2>3, PutCaches
  <2>4. ASSUME NEW m \in Machines, machine_specs' = [machine_specs EXCEPT ![m] = NoSpec], stop_machine_actor(m)
        PROVE  ActorRunsCachedSpec'
    BY <1>2, <2>4 DEF stop_machine_actor
  <2>5. CASE rebalance_apply
    BY <1>2, <2>5 DEF rebalance_apply
  <2>6. CASE UNCHANGED vars
    BY <2>1, <2>6 DEF vars, managerVars
  <2>7. QED
    BY <1>2, <2>1, <2>2, <2>3, <2>4, <2>5, <2>6, ManagerMaps
<1>3. QED
  BY <1>1, <1>2, TypeCorrect, PTL DEF Spec

\* StoppedIsEmpty holds in every reachable state: nothing runs after a panic.
LEMMA Stopping == Spec => []StoppedIsEmpty
<1>1. Init => StoppedIsEmpty
  BY DEF Init, StoppedIsEmpty, alive
<1>2. ASSUME TypeOK, StoppedIsEmpty, [Next]_vars PROVE StoppedIsEmpty'
  <2> USE DEF StoppedIsEmpty, alive, discoveryVars, shardingVars, etcdVars, jobVars, managerVars, environment
  <2>1. CASE UNCHANGED <<manager, job, machine_specs, actors>>
    BY <1>2, <2>1 DEF Nothing
  <2>2. CASE manager_stops
    BY <2>2 DEF manager_stops, Nothing
  <2>3. CASE manager = "alive" /\ manager' = manager
    BY <2>3
  <2>4. CASE DiscoveryNext \/ BridgeNext \/ topology_listener \/ convergence_waiter \/ EtcdNext \/ WatchNext
    <3>1. UNCHANGED <<manager, job, machine_specs, actors>>
      BY <2>4 DEF DiscoveryNext, converge, signal_convergence, discovery_fails, process_watch_event,
              BridgeNext, bridge_update, bridge_notify, topology_listener, convergence_waiter,
              EtcdNext, write_machine, watch_break, WatchNext, watch_open, watch_forward
    <3>2. QED
      BY <2>1, <3>1
  <2>5. CASE ManagerNext
    <3>1. manager_stops \/ manager' = manager
      BY <2>5 DEF ManagerNext, handle_put, handle_delete, rebalance_start, rebalance_lookup,
                  rebalance_apply, sync_get, sync_put, sync_done
    <3>2. manager = "alive"
      <4>1. manager = "alive" \/ job # "idle"
        BY <2>5 DEF ManagerNext, handle_put, handle_delete, rebalance_start, rebalance_lookup,
                    rebalance_apply, sync_get, sync_put, sync_done, Receives
      <4>2. QED
        BY <1>2, <4>1
    <3>3. QED
      BY <2>2, <2>3, <3>1, <3>2
  <2>6. CASE UNCHANGED vars
    BY <2>1, <2>6 DEF vars
  <2>7. QED
    BY <1>2, <2>4, <2>5, <2>6 DEF Next
<1>3. QED
  BY <1>1, <1>2, TypeCorrect, PTL DEF Spec

\* SyncInHand holds in every reachable state.
LEMMA Syncing == Spec => []SyncInHand
<1>1. Init => SyncInHand
  BY DEF Init, SyncInHand
<1>2. ASSUME TypeOK, SyncInHand, [Next]_vars PROVE SyncInHand'
  <2> USE DEF SyncInHand, discoveryVars, shardingVars, etcdVars, jobVars, managerVars, environment
  <2>1. CASE UNCHANGED <<job, todo, fetched, machine_specs>>
    BY <1>2, <2>1
  <2>2. CASE job' # "sync"
    BY <2>2
  <2>3. CASE DiscoveryNext \/ BridgeNext \/ topology_listener \/ convergence_waiter \/ EtcdNext \/ WatchNext
    <3>1. UNCHANGED <<job, todo, fetched, machine_specs>>
      BY <2>3 DEF DiscoveryNext, converge, signal_convergence, discovery_fails, process_watch_event,
              BridgeNext, bridge_update, bridge_notify, topology_listener, convergence_waiter,
              EtcdNext, write_machine, watch_break, WatchNext, watch_open, watch_forward
    <3>2. QED
      BY <2>1, <3>1
  <2>4. CASE manager_stops \/ handle_put \/ handle_delete \/ rebalance_start
             \/ (\E m \in Machines : rebalance_lookup(m)) \/ rebalance_apply \/ sync_done
    <3>1. job' # "sync"
      BY <2>4 DEF manager_stops, handle_put, handle_delete, rebalance_start, rebalance_lookup,
                  rebalance_apply, sync_done, Receives
    <3>2. QED
      BY <2>2, <3>1
  <2>5. CASE sync_get
    BY <2>5 DEF sync_get, Receives
  <2>6. ASSUME NEW m \in Machines, sync_put(m), ~manager_stops PROVE SyncInHand'
    <3>1. /\ fetched[m] \in Text /\ handle_machine_put(m, fetched[m])
          /\ job = "sync" /\ todo' = todo \ {m} /\ fetched' = fetched
      BY <1>2, <2>6 DEF sync_put, TypeOK
    <3>2. machine_specs'[m] = fetched[m] /\ \A n \in Machines \ {m} : machine_specs'[n] = machine_specs[n]
      BY <1>2, <3>1, PutCaches
    <3>3. QED
      BY <1>2, <3>1, <3>2
  <2>7. CASE UNCHANGED vars
    BY <2>1, <2>7 DEF vars
  <2>8. QED
    BY <1>2, <2>3, <2>4, <2>5, <2>6, <2>7 DEF Next, ManagerNext
<1>3. QED
  BY <1>1, <1>2, TypeCorrect, PTL DEF Spec

\* A message that is no sync request joins the queue.
LEMMA EnqueueNoSync ==
  ASSUME TypeOK, OneSync, NEW e \in Message, e.type # "sync",
         mailbox' = Append(mailbox, e), UNCHANGED <<waiter, job>>
  PROVE  OneSync'
<1>1. mailbox \in Seq(Message)
  BY DEF TypeOK
<1>2. /\ Len(mailbox') = Len(mailbox) + 1 /\ Len(mailbox) \in Nat
      /\ \A i \in 1..Len(mailbox) : mailbox'[i] = mailbox[i]
      /\ mailbox'[Len(mailbox) + 1] = e
  BY <1>1
<1>3. \A i \in 1..Len(mailbox') : mailbox'[i].type = "sync" => i \in 1..Len(mailbox)
  BY <1>2
<1>4. SyncQueued' => SyncQueued
  BY <1>2, <1>3 DEF SyncQueued
<1>5. QED
  BY <1>2, <1>3, <1>4 DEF OneSync

\* The waiter's request joins a queue without one.
LEMMA EnqueueSync ==
  ASSUME TypeOK, OneSync, waiter = "waiting",
         mailbox' = Append(mailbox, [type |-> "sync"]), waiter' = "asking", job' = job
  PROVE  OneSync'
<1>1. mailbox \in Seq(Message) /\ ~SyncQueued /\ job # "sync"
  BY DEF TypeOK, OneSync
<1>2. /\ Len(mailbox') = Len(mailbox) + 1 /\ Len(mailbox) \in Nat
      /\ \A i \in 1..Len(mailbox) : mailbox'[i] = mailbox[i]
  BY <1>1
<1>3. \A i \in 1..Len(mailbox') : mailbox'[i].type = "sync" => i = Len(mailbox')
  BY <1>1, <1>2 DEF SyncQueued
<1>4. QED
  BY <1>1, <1>3 DEF OneSync

\* The head of the queue is taken.
LEMMA DequeueSync ==
  ASSUME TypeOK, OneSync, mailbox # <<>>, mailbox' = Tail(mailbox)
  PROVE  /\ \A i, j \in 1..Len(mailbox') : mailbox'[i].type = "sync" /\ mailbox'[j].type = "sync" => i = j
         /\ SyncQueued' => SyncQueued
         /\ Head(mailbox).type = "sync" => SyncQueued /\ ~SyncQueued'
<1>1. mailbox \in Seq(Message)
  BY DEF TypeOK
<1>2. /\ Len(mailbox) \in Nat \ {0} /\ Len(mailbox') = Len(mailbox) - 1
      /\ \A i \in 1..Len(mailbox') : mailbox'[i] = mailbox[i + 1]
      /\ Head(mailbox) = mailbox[1]
  BY <1>1
<1>3. \A i \in 1..Len(mailbox') : i + 1 \in 1..Len(mailbox) /\ i + 1 # 1
  BY <1>2
<1>4. ASSUME NEW i \in 1..Len(mailbox'), NEW j \in 1..Len(mailbox'),
             mailbox'[i].type = "sync", mailbox'[j].type = "sync"
      PROVE  i = j
  <2>1. i + 1 = j + 1
    BY <1>2, <1>3, <1>4 DEF OneSync
  <2>2. QED
    BY <1>2, <2>1
<1>5. SyncQueued' => SyncQueued
  BY <1>2, <1>3 DEF SyncQueued
<1>6. ASSUME Head(mailbox).type = "sync" PROVE SyncQueued /\ ~SyncQueued'
  <2>1. 1 \in 1..Len(mailbox) /\ mailbox[1].type = "sync"
    BY <1>2, <1>6
  <2>2. SyncQueued
    BY <2>1 DEF SyncQueued
  <2>3. ~SyncQueued'
    BY <1>2, <1>3, <2>1 DEF OneSync, SyncQueued
  <2>4. QED
    BY <2>2, <2>3
<1>7. QED
  BY <1>4, <1>5, <1>6

\* OneSync holds in every reachable state: the waiter asks once and waits.
LEMMA SyncingOnce == Spec => []OneSync
<1>1. Init => OneSync
  BY DEF Init, OneSync, SyncQueued
<1>2. ASSUME TypeOK, OneSync, [Next]_vars PROVE OneSync'
  <2> USE DEF discoveryVars, shardingVars, etcdVars, jobVars, managerVars, environment
  <2>1. CASE UNCHANGED <<mailbox, waiter, job>>
    BY <1>2, <2>1 DEF OneSync, SyncQueued
  <2>2. CASE DiscoveryNext \/ BridgeNext \/ EtcdNext \/ watch_open
    <3>1. UNCHANGED <<mailbox, waiter, job>>
      BY <2>2 DEF DiscoveryNext, converge, signal_convergence, discovery_fails, process_watch_event,
                  BridgeNext, bridge_update, bridge_notify, EtcdNext, write_machine, watch_break, watch_open
    <3>2. QED
      BY <2>1, <3>1
  <2>3. CASE topology_listener
    <3>1. CASE UNCHANGED mailbox
      BY <2>1, <2>3, <3>1 DEF topology_listener
    <3>2. CASE mailbox' = Append(mailbox, [type |-> "rebalance"])
      BY <1>2, <2>3, <3>2, MessageTypes, EnqueueNoSync DEF topology_listener
    <3>3. QED
      BY <2>3, <3>1, <3>2 DEF topology_listener
  <2>4. CASE convergence_waiter
    <3>1. CASE UNCHANGED mailbox
      <4>1. waiter = "waiting" /\ job' = job /\ ~SyncQueued /\ job # "sync"
        BY <1>2, <2>4 DEF convergence_waiter, OneSync
      <4>2. QED
        BY <1>2, <3>1, <4>1 DEF OneSync, SyncQueued
    <3>2. CASE mailbox' = Append(mailbox, [type |-> "sync"]) /\ waiter' = "asking"
      BY <1>2, <2>4, <3>2, EnqueueSync DEF convergence_waiter
    <3>3. QED
      BY <2>4, <3>1, <3>2 DEF convergence_waiter
  <2>5. CASE watch_forward
    <3>1. CASE UNCHANGED mailbox
      BY <2>1, <2>5, <3>1 DEF watch_forward
    <3>2. CASE mailbox' = Append(mailbox, Head(stream))
      <4>1. Head(stream) \in Event
        BY <1>2, <2>5 DEF watch_forward, TypeOK
      <4>2. Head(stream) \in Message /\ Head(stream).type # "sync"
        BY <4>1 DEF Event, Message
      <4>3. QED
        BY <1>2, <2>5, <3>2, <4>2, EnqueueNoSync DEF watch_forward
    <3>3. QED
      BY <2>5, <3>1, <3>2 DEF watch_forward
  <2>6. CASE manager_stops
    BY <2>6 DEF manager_stops, OneSync, SyncQueued
  <2>7. CASE (handle_put /\ ~manager_stops) \/ handle_delete \/ rebalance_start
    <3>1. /\ mailbox # <<>> /\ mailbox' = Tail(mailbox) /\ waiter' = waiter
          /\ job = "idle" /\ job' # "sync"
      BY <2>7 DEF handle_put, handle_delete, rebalance_start, Receives
    <3>2. QED
      BY <1>2, <3>1, DequeueSync DEF OneSync
  <2>8. CASE sync_get
    <3>1. /\ mailbox # <<>> /\ mailbox' = Tail(mailbox) /\ Head(mailbox).type = "sync"
          /\ waiter' = waiter \/ (job = "idle" /\ job' = job)
      BY <2>8 DEF sync_get, Receives
    <3>2. QED
      BY <1>2, <3>1, DequeueSync DEF OneSync
  <2>9. CASE \/ \E m \in Machines : rebalance_lookup(m)
             \/ rebalance_apply
             \/ \E m \in Machines : sync_put(m) /\ ~manager_stops
    <3>1. UNCHANGED <<mailbox, waiter>> /\ (job' = job \/ (job # "sync" /\ job' # "sync"))
      BY <2>9 DEF rebalance_lookup, rebalance_apply, sync_put
    <3>2. QED
      BY <1>2, <3>1 DEF OneSync, SyncQueued
  <2>10. CASE sync_done
    BY <1>2, <2>10 DEF sync_done, OneSync, SyncQueued
  <2>11. CASE UNCHANGED vars
    BY <2>1, <2>11 DEF vars
  <2>12. QED
    BY <1>2, <2>2, <2>3, <2>4, <2>5, <2>6, <2>7, <2>8, <2>9, <2>10, <2>11 DEF Next, WatchNext, ManagerNext
<1>3. QED
  BY <1>1, <1>2, TypeCorrect, PTL DEF Spec

\* Every step but sync_get, sync_put, sync_done and a panic leaves a sync, its
\* reply and the answer to the waiter alone.
LEMMA SyncFrame ==
  ASSUME TypeOK, [Next]_vars, ~manager_stops, ~sync_get, ~sync_done, \A m \in Machines : ~sync_put(m)
  PROVE  /\ fetched' = fetched
         /\ job' = job \/ (job # "sync" /\ job' # "sync")
         /\ waiter' = waiter \/ waiter = "waiting"
<1> USE DEF discoveryVars, shardingVars, etcdVars, jobVars, managerVars, environment
<1>1. CASE DiscoveryNext \/ BridgeNext \/ topology_listener \/ EtcdNext \/ WatchNext
  BY <1>1 DEF DiscoveryNext, converge, signal_convergence, discovery_fails, process_watch_event,
              BridgeNext, bridge_update, bridge_notify, topology_listener,
              EtcdNext, write_machine, watch_break, WatchNext, watch_open, watch_forward
<1>2. CASE convergence_waiter
  BY <1>2 DEF convergence_waiter
<1>3. CASE ManagerNext
  BY <1>3 DEF ManagerNext, handle_put, handle_delete, rebalance_start, rebalance_lookup, rebalance_apply, Receives
<1>4. CASE UNCHANGED vars
  BY <1>4 DEF vars
<1>5. QED
  BY <1>1, <1>2, <1>3, <1>4 DEF Next

(* SyncIsAllOrNothing: a sync starts only on a reply whose every value is    *)
(* text, keeps to that reply and ends with all of it cached, whatever        *)
(* topologies its lookups saw; a sync that does not start leaves the cache   *)
(* and the actors as they were; and the one answer is the last.              *)
THEOREM SyncCompletes == Spec => SyncIsAllOrNothing
<1> DEFINE Starts   == job # "sync" /\ job' = "sync" =>
                         /\ store \in [Machines -> Text \cup {NoSpec}] /\ fetched' = store
                         /\ waiter = "asking"
           Goes     == job = "sync" /\ job' = "sync" => fetched' = fetched
           Ends     == job = "sync" /\ job' # "sync" /\ alive' =>
                         \A m \in Machines : fetched[m] # NoSpec => machine_specs'[m] = fetched[m]
           Fails    == job # "sync" /\ waiter = "asking" /\ waiter' = "done" /\ alive' =>
                         UNCHANGED managerVars
           Answered == waiter = "done" => waiter' = "done"
<1>1. ASSUME TypeOK, SyncInHand, OneSync, [Next]_vars
      PROVE  Starts /\ Goes /\ Ends /\ Fails /\ Answered
  <2> USE DEF discoveryVars, shardingVars, etcdVars, jobVars, managerVars, environment
  <2>1. CASE manager_stops
    BY <2>1 DEF manager_stops, alive
  <2>2. CASE sync_get
    <3>1. /\ mailbox # <<>> /\ mailbox' = Tail(mailbox) /\ Head(mailbox).type = "sync" /\ job = "idle"
          /\ UNCHANGED managerVars
          /\ \/ waiter' = "done" /\ job' = job
             \/ /\ waiter' = waiter /\ fetched' = store
                /\ \A m \in Machines : store[m] \in Text \cup {NoSpec}
      BY <2>2 DEF sync_get, Receives
    <3>2. waiter = "asking"
      BY <1>1, <3>1, DequeueSync DEF OneSync
    <3>3. QED
      BY <1>1, <3>1, <3>2 DEF TypeOK
  <2>3. ASSUME NEW m \in Machines, sync_put(m), ~manager_stops
        PROVE  Starts /\ Goes /\ Ends /\ Fails /\ Answered
    BY <2>3 DEF sync_put
  <2>4. CASE sync_done
    BY <1>1, <2>4 DEF sync_done, SyncInHand
  <2>5. CASE ~manager_stops /\ ~sync_get /\ ~sync_done /\ \A m \in Machines : ~sync_put(m)
    BY <1>1, <2>5, SyncFrame
  <2>6. QED
    BY <2>1, <2>2, <2>3, <2>4, <2>5
<1>2. [](TypeOK /\ SyncInHand /\ OneSync) /\ [][Next]_vars
      => [][Starts /\ Goes /\ Ends /\ Fails /\ Answered]_vars
  BY <1>1, PTL
<1>3. QED
  BY <1>2, TypeCorrect, Syncing, SyncingOnce, PTL DEF Spec, SyncIsAllOrNothing

-----------------------------------------------------------------------------
(* The cache and etcd.                                                       *)

\* The queue r holds events of m exactly if q does, and ends with the same one.
Kept(m, q, r) == /\ Queued(m, r) <=> Queued(m, q)
                 /\ \A f \in Event : IsOf(f, m) /\ LastIs(m, q, f) => LastIs(m, r, f)

LEMMA KeptItself == ASSUME NEW m, NEW q PROVE Kept(m, q, q)
  BY DEF Kept

\* What joins a queue is its last event, and is no event of other machines.
LEMMA Joins ==
  ASSUME NEW q \in Seq(Message), NEW e \in Message, NEW m \in Machines
  PROVE  IF IsOf(e, m) THEN Queued(m, Append(q, e)) /\ LastIs(m, Append(q, e), e)
                       ELSE Kept(m, q, Append(q, e))
<1> DEFINE r == Append(q, e)
<1>1. /\ Len(r) = Len(q) + 1 /\ Len(q) \in Nat /\ r[Len(r)] = e /\ Len(r) \in 1..Len(r)
      /\ \A i \in 1..Len(q) : r[i] = q[i] /\ i \in 1..Len(r)
      /\ \A i \in 1..Len(r) : i # Len(r) => i \in 1..Len(q)
  OBVIOUS
<1> HIDE DEF r
<1>2. CASE IsOf(e, m)
  <2>1. Queued(m, r)
    BY <1>1, <1>2 DEF Queued
  <2>2. \A j \in 1..Len(r) : IsOf(r[j], m) => j <= Len(r)
    BY <1>1
  <2>3. LastIs(m, r, e)
    BY <1>1, <2>2 DEF LastIs
  <2>4. QED
    BY <1>2, <2>1, <2>3 DEF r
<1>3. CASE ~IsOf(e, m)
  <2>1. \A j \in 1..Len(r) : IsOf(r[j], m) => j \in 1..Len(q) /\ r[j] = q[j]
    BY <1>1, <1>3
  <2>2. Queued(m, r) <=> Queued(m, q)
    BY <1>1, <2>1 DEF Queued
  <2>3. ASSUME NEW f \in Event, LastIs(m, q, f) PROVE LastIs(m, r, f)
    <3>1. PICK i \in 1..Len(q) : q[i] = f /\ \A j \in 1..Len(q) : IsOf(q[j], m) => j <= i
      BY <2>3 DEF LastIs
    <3>2. i \in 1..Len(r) /\ r[i] = f /\ \A j \in 1..Len(r) : IsOf(r[j], m) => j <= i
      BY <1>1, <2>1, <3>1
    <3>3. QED
      BY <3>2 DEF LastIs
  <2>4. QED
    BY <1>3, <2>2, <2>3 DEF Kept, r
<1>4. QED
  BY <1>2, <1>3

\* The queue loses its head: an event of m that is still queued is still last,
\* and the head was the last one otherwise.
LEMMA Leaves ==
  ASSUME NEW q \in Seq(Message), q # <<>>, NEW m \in Machines
  PROVE  /\ Queued(m, Tail(q)) => Queued(m, q)
         /\ ~IsOf(Head(q), m) => Kept(m, q, Tail(q))
         /\ IsOf(Head(q), m) => Queued(m, q)
         /\ \A f \in Event : LastIs(m, q, f) =>
              IF Queued(m, Tail(q)) THEN LastIs(m, Tail(q), f)
              ELSE IsOf(Head(q), m) /\ IsOf(f, m) => f = Head(q)
<1> DEFINE r == Tail(q)
           h == Head(q)
<1>1. /\ Len(q) \in Nat \ {0} /\ Len(r) = Len(q) - 1 /\ h = q[1] /\ 1 \in 1..Len(q)
      /\ \A i \in 1..Len(r) : r[i] = q[i + 1] /\ i + 1 \in 1..Len(q)
      /\ \A i \in 1..Len(q) : i # 1 => i - 1 \in 1..Len(r) /\ r[i - 1] = q[i]
  OBVIOUS
<1> HIDE DEF r, h
<1>2. Queued(m, r) => Queued(m, q)
  BY <1>1 DEF Queued
<1>3. IsOf(h, m) => Queued(m, q)
  BY <1>1 DEF Queued
<1>4. ~IsOf(h, m) => (Queued(m, q) => Queued(m, r))
  <2>1. ASSUME ~IsOf(h, m), NEW i \in 1..Len(q), IsOf(q[i], m) PROVE i - 1 \in 1..Len(r) /\ IsOf(r[i - 1], m)
    BY <1>1, <2>1
  <2>2. QED
    BY <2>1 DEF Queued
<1>5. ASSUME NEW f \in Event, NEW i \in 1..Len(q), q[i] = f, i # 1,
             \A j \in 1..Len(q) : IsOf(q[j], m) => j <= i
      PROVE  LastIs(m, r, f)
  <2>1. i - 1 \in 1..Len(r) /\ r[i - 1] = f
    BY <1>1, <1>5
  <2>2. ASSUME NEW j \in 1..Len(r), IsOf(r[j], m) PROVE j <= i - 1
    <3>1. j + 1 \in 1..Len(q) /\ IsOf(q[j + 1], m)
      BY <1>1, <2>2
    <3>2. j + 1 <= i
      BY <1>5, <3>1
    <3>3. QED
      BY <1>1, <3>2
  <2>3. QED
    BY <2>1, <2>2 DEF LastIs
<1>6. ASSUME NEW f \in Event, LastIs(m, q, f)
      PROVE  /\ Queued(m, r) => LastIs(m, r, f)
             /\ LastIs(m, r, f) \/ f = h
  <2>1. PICK i \in 1..Len(q) : q[i] = f /\ \A j \in 1..Len(q) : IsOf(q[j], m) => j <= i
    BY <1>6 DEF LastIs
  <2>2. CASE i # 1
    BY <1>5, <2>1, <2>2
  <2>3. CASE i = 1
    <3>1. ASSUME NEW j \in 1..Len(r) PROVE ~IsOf(r[j], m)
      <4>1. j + 1 \in 1..Len(q) /\ ~(j + 1 <= i) /\ r[j] = q[j + 1]
        BY <1>1, <2>3
      <4>2. QED
        BY <2>1, <4>1
    <3>2. ~Queued(m, r)
      BY <3>1 DEF Queued
    <3>3. QED
      BY <1>1, <2>1, <2>3, <3>2
  <2>4. QED
    BY <2>2, <2>3
<1>7. ASSUME NEW f \in Event, LastIs(m, r, f), ~Queued(m, r) PROVE ~IsOf(f, m)
  BY <1>7 DEF LastIs, Queued
<1>8. QED
  BY <1>2, <1>3, <1>4, <1>6, <1>7 DEF Kept, r, h

\* The event of a write names the machine.
LEMMA ForwardedIsOf ==
  ASSUME NEW m \in Machines, NEW n, NEW s PROVE IsOf(Forwarded(m, s), n) <=> n = m
  BY DEF IsOf, Forwarded

\* A step that leaves the events and the values of m alone keeps it in hand.
LEMMA InHandKept ==
  ASSUME TypeOK, NEW m \in Machines, InHand(m), store'[m] = store[m],
         Kept(m, stream, stream'), Kept(m, mailbox, mailbox'),
         (job' = "sync" /\ m \in todo') <=> (job = "sync" /\ m \in todo),
         job' = "sync" => fetched'[m] = fetched[m],
         machine_specs'[m] = machine_specs[m]
  PROVE  InHand(m)'
<1> DEFINE f == Forwarded(m, store[m])
<1>1. f \in Event /\ IsOf(f, m) /\ f = Forwarded(m, store'[m])
  <2>1. store[m] \in Specs \cup {NoSpec}
    BY DEF TypeOK
  <2>2. QED
    BY <2>1, MessageTypes, ForwardedIsOf
<1> HIDE DEF f
<1>2. InHand(m)' <=>
        IF Queued(m, stream') THEN LastIs(m, stream', f)
        ELSE IF Queued(m, mailbox') THEN LastIs(m, mailbox', f)
        ELSE IF job' = "sync" /\ m \in todo' THEN fetched'[m] = store'[m]
        ELSE store'[m] \in Text \cup {NoSpec} => machine_specs'[m] = store'[m]
  BY <1>1 DEF InHand, Queued, LastIs
<1>3. InHand(m) <=>
        IF Queued(m, stream) THEN LastIs(m, stream, f)
        ELSE IF Queued(m, mailbox) THEN LastIs(m, mailbox, f)
        ELSE IF job = "sync" /\ m \in todo THEN fetched[m] = store[m]
        ELSE store[m] \in Text \cup {NoSpec} => machine_specs[m] = store[m]
  BY DEF InHand, f
<1>4. QED
  BY <1>1, <1>2, <1>3 DEF Kept

\* The last event of m is handled: the cache has the value of etcd.
LEMMA InHandHandled ==
  ASSUME TypeOK, NEW m \in Machines, InHand(m), mailbox # <<>>, IsOf(Head(mailbox), m),
         job = "idle", mailbox' = Tail(mailbox), UNCHANGED <<job, stream, store>>,
         Head(mailbox).type = "put" /\ Head(mailbox).spec # NoSpec => machine_specs'[m] = Head(mailbox).spec,
         Head(mailbox).type = "delete" => machine_specs'[m] = NoSpec
  PROVE  InHand(m)'
<1> DEFINE f == Forwarded(m, store[m])
<1>1. f \in Event /\ IsOf(f, m) /\ f = Forwarded(m, store'[m]) /\ mailbox \in Seq(Message)
  <2>1. store[m] \in Specs \cup {NoSpec} /\ mailbox \in Seq(Message)
    BY DEF TypeOK
  <2>2. QED
    BY <2>1, MessageTypes, ForwardedIsOf
<1>2. ASSUME f = Head(mailbox), store[m] \in Text \cup {NoSpec} PROVE machine_specs'[m] = store[m]
  <2>1. CASE store[m] = NoSpec
    BY <1>2, <2>1 DEF Forwarded
  <2>2. CASE store[m] # NoSpec
    BY <1>2, <2>2 DEF Forwarded
  <2>3. QED
    BY <2>1, <2>2
<1> HIDE DEF f
<1>3. InHand(m)' <=>
        IF Queued(m, stream) THEN LastIs(m, stream, f)
        ELSE IF Queued(m, Tail(mailbox)) THEN LastIs(m, Tail(mailbox), f)
        ELSE store[m] \in Text \cup {NoSpec} => machine_specs'[m] = store[m]
  BY <1>1 DEF InHand, Queued, LastIs
<1>4. Queued(m, mailbox) /\ (InHand(m) => IF Queued(m, stream) THEN LastIs(m, stream, f) ELSE LastIs(m, mailbox, f))
  BY <1>1, Leaves DEF InHand, f
<1>5. LastIs(m, mailbox, f) => IF Queued(m, Tail(mailbox)) THEN LastIs(m, Tail(mailbox), f) ELSE f = Head(mailbox)
  BY <1>1, Leaves
<1>6. QED
  BY <1>2, <1>3, <1>4, <1>5

\* Discovery, bridge, listener and waiter: what they queue is no event.
LEMMA TasksCache ==
  ASSUME TypeOK, CacheInv, DiscoveryNext \/ BridgeNext \/ topology_listener \/ convergence_waiter
  PROVE  CacheInv'
<1> USE DEF discoveryVars, shardingVars, etcdVars, jobVars, managerVars
<1>1. UNCHANGED <<store, watch, stream, missed, manager, job, todo, fetched, machine_specs>>
  BY DEF DiscoveryNext, converge, signal_convergence, discovery_fails, process_watch_event,
         BridgeNext, bridge_update, bridge_notify, topology_listener, convergence_waiter
<1>2. \/ mailbox' = mailbox
      \/ mailbox' = Append(mailbox, [type |-> "rebalance"])
      \/ mailbox' = Append(mailbox, [type |-> "sync"])
  BY DEF DiscoveryNext, converge, signal_convergence, discovery_fails, process_watch_event,
         BridgeNext, bridge_update, bridge_notify, topology_listener, convergence_waiter
<1>3. ASSUME NEW m \in Machines PROVE Kept(m, mailbox, mailbox')
  <2>1. mailbox \in Seq(Message)
    BY DEF TypeOK
  <2>2. ~IsOf([type |-> "rebalance"], m) /\ ~IsOf([type |-> "sync"], m)
    BY DEF IsOf
  <2>3. QED
    BY <1>2, <2>1, <2>2, MessageTypes, Joins, KeptItself
<1>4. ASSUME NEW m \in Machines \ missed, alive PROVE InHand(m)'
  <2>1. InHand(m) /\ Kept(m, stream, stream')
    BY <1>1, <1>4, KeptItself DEF CacheInv
  <2>2. QED
    BY <1>1, <1>3, <2>1, InHandKept
<1>5. QED
  BY <1>1, <1>4 DEF CacheInv, Queued, alive

\* A write, and a break of the stream.
LEMMA EtcdCache ==
  ASSUME TypeOK, CacheInv, EtcdNext
  PROVE  CacheInv'
<1> USE DEF discoveryVars, shardingVars, jobVars, managerVars
<1>1. UNCHANGED <<manager, mailbox, job, todo, fetched, machine_specs>> /\ stream \in Seq(Event)
  BY DEF EtcdNext, write_machine, watch_break, TypeOK
<1>2. ASSUME NEW m \in Machines, NEW s \in Specs \cup {NoSpec}, write_machine(m, s), watch = "open" PROVE CacheInv'
  <2> DEFINE f == Forwarded(m, s)
  <2>1. f \in Event /\ f \in Message /\ stream \in Seq(Message)
    <3>1. f \in Event /\ f \in Message
      BY MessageTypes
    <3>2. \A i \in 1..Len(stream) : stream[i] \in Message
      BY <1>1, MessageTypes
    <3>3. QED
      BY <1>1, <3>1, <3>2
  <2>2. stream' = Append(stream, f) /\ missed' = missed \ {m} /\ watch' = watch /\ store' = [store EXCEPT ![m] = s]
    BY <1>2 DEF write_machine
  <2>3. IsOf(f, m) /\ \A n \in Machines \ {m} : ~IsOf(f, n)
    BY ForwardedIsOf
  <2> HIDE DEF f
  <2>4. Queued(m, stream') /\ LastIs(m, stream', f)
    BY <2>1, <2>2, <2>3, Joins
  <2>5. \A n \in Machines \ {m} : Kept(n, stream, stream')
    BY <2>1, <2>2, <2>3, Joins
  <2>6. InHand(m)'
    <3>1. Forwarded(m, store'[m]) = f
      BY <2>2 DEF f, TypeOK
    <3>2. QED
      BY <2>4, <3>1 DEF InHand, Queued, LastIs
  <2>7. ASSUME NEW n \in Machines \ missed', alive, n # m PROVE InHand(n)'
    <3>1. InHand(n) /\ Kept(n, stream, stream') /\ Kept(n, mailbox, mailbox') /\ store'[n] = store[n]
      BY <1>1, <2>2, <2>5, <2>7, KeptItself DEF CacheInv, TypeOK
    <3>2. QED
      BY <1>1, <3>1, InHandKept
  <2>8. \A n \in missed' : ~Queued(n, stream')
    BY <2>2, <2>5 DEF CacheInv, Kept, TypeOK
  <2>9. QED
    BY <1>1, <1>2, <2>2, <2>6, <2>7, <2>8 DEF CacheInv, alive, Queued
<1>3. ASSUME NEW m \in Machines, NEW s \in Specs \cup {NoSpec}, write_machine(m, s), watch = "connecting" PROVE CacheInv'
  <2>1. stream' = stream /\ missed' = missed \cup {m} /\ watch' = watch /\ store' = [store EXCEPT ![m] = s] /\ stream = <<>>
    BY <1>3 DEF write_machine, CacheInv
  <2>2. ASSUME NEW n \in Machines \ missed', alive PROVE InHand(n)'
    <3>1. InHand(n) /\ Kept(n, stream, stream') /\ Kept(n, mailbox, mailbox') /\ store'[n] = store[n]
      BY <1>1, <2>1, <2>2, KeptItself DEF CacheInv, TypeOK
    <3>2. QED
      BY <1>1, <3>1, InHandKept
  <2>3. \A n : ~Queued(n, stream')
    BY <2>1 DEF Queued
  <2>4. QED
    BY <1>1, <2>1, <2>2, <2>3 DEF CacheInv, alive, Queued
<1>4. CASE watch_break
  <2>1. UNCHANGED store /\ watch' = "connecting" /\ stream' = <<>>
        /\ missed' = missed \cup { e.machine : e \in ToSet(stream) }
    BY <1>4 DEF watch_break
  <2>2. \A n : ~Queued(n, stream')
    BY <2>1 DEF Queued
  <2>3. ASSUME NEW n \in Machines \ missed' PROVE ~Queued(n, stream)
    <3>1. \A i \in 1..Len(stream) : stream[i].machine \in missed'
      BY <1>1, <2>1 DEF ToSet
    <3>2. QED
      BY <2>3, <3>1 DEF Queued, IsOf
  <2>4. ASSUME NEW n \in Machines \ missed', alive PROVE InHand(n)'
    <3>1. InHand(n) /\ Kept(n, mailbox, mailbox')
      BY <1>1, <2>1, <2>4, KeptItself DEF CacheInv
    <3>2. Kept(n, stream, stream')
      <4>1. \A g : ~LastIs(n, stream, g) \/ ~IsOf(g, n)
        BY <2>3, <2>4 DEF Queued, LastIs
      <4>2. QED
        BY <2>2, <2>3, <2>4, <4>1 DEF Kept
    <3>3. QED
      BY <1>1, <2>1, <3>1, <3>2, InHandKept
  <2>5. QED
    BY <1>1, <2>1, <2>2, <2>4 DEF CacheInv, alive, Queued
<1>5. QED
  BY <1>2, <1>3, <1>4 DEF EtcdNext, TypeOK

\* The watch loop opens its stream and forwards what it receives.
LEMMA WatchCache ==
  ASSUME TypeOK, CacheInv, WatchNext
  PROVE  CacheInv'
<1> USE DEF discoveryVars, shardingVars, jobVars, managerVars
<1>1. UNCHANGED <<store, missed, manager, job, todo, fetched, machine_specs>> /\ stream \in Seq(Event) /\ mailbox \in Seq(Message)
  BY DEF WatchNext, watch_open, watch_forward, TypeOK
<1>2. CASE watch_open
  <2>1. UNCHANGED <<stream, mailbox>> /\ watch' = "open"
    BY <1>2 DEF watch_open
  <2>2. ASSUME NEW n \in Machines \ missed, alive PROVE InHand(n)'
    <3>1. InHand(n) /\ Kept(n, stream, stream') /\ Kept(n, mailbox, mailbox')
      BY <2>1, <2>2, KeptItself DEF CacheInv
    <3>2. QED
      BY <1>1, <3>1, InHandKept
  <2>3. QED
    BY <1>1, <2>1, <2>2 DEF CacheInv, alive, Queued
<1>3. CASE watch_forward
  <2>1. stream # <<>> /\ stream' = Tail(stream) /\ watch' = watch /\ watch = "open"
    BY <1>3 DEF watch_forward
  <2>2. stream \in Seq(Message) /\ Head(stream) \in Event /\ Head(stream) \in Message
    <3>1. \A i \in 1..Len(stream) : stream[i] \in Message
      BY <1>1, MessageTypes
    <3>2. QED
      BY <1>1, <2>1, <3>1, MessageTypes
  <2>3. \A n \in missed : ~Queued(n, stream')
    BY <2>1, <2>2, Leaves DEF CacheInv, TypeOK
  <2>4. ASSUME NEW n \in Machines \ missed, alive PROVE InHand(n)'
    <3>1. InHand(n) /\ mailbox' = Append(mailbox, Head(stream))
      BY <1>3, <2>4 DEF CacheInv, watch_forward
    <3>2. CASE ~IsOf(Head(stream), n)
      <4>1. Kept(n, stream, stream') /\ Kept(n, mailbox, mailbox')
        BY <1>1, <2>1, <2>2, <3>1, <3>2, Leaves, Joins
      <4>2. QED
        BY <1>1, <3>1, <4>1, InHandKept
    <3>3. CASE IsOf(Head(stream), n)
      <4> DEFINE f == Forwarded(n, store[n])
      <4>1. f \in Event /\ IsOf(f, n) /\ f = Forwarded(n, store'[n])
        BY <1>1, MessageTypes, ForwardedIsOf DEF TypeOK
      <4>2. LastIs(n, stream, f)
        BY <2>1, <2>2, <3>1, <3>3, Leaves DEF InHand
      <4> HIDE DEF f
      <4>3. IF Queued(n, stream') THEN LastIs(n, stream', f) ELSE f = Head(stream)
        BY <2>1, <2>2, <3>3, <4>1, <4>2, Leaves
      <4>4. Queued(n, mailbox') /\ LastIs(n, mailbox', Head(stream))
        BY <1>1, <2>2, <3>1, <3>3, Joins
      <4>5. QED
        BY <4>1, <4>3, <4>4 DEF InHand, Queued, LastIs
    <3>4. QED
      BY <3>2, <3>3
  <2>5. QED
    BY <1>1, <2>1, <2>3, <2>4 DEF CacheInv, alive, Queued
<1>4. QED
  BY <1>2, <1>3 DEF WatchNext

\* The handlers of the manager.
LEMMA ManagerCache ==
  ASSUME TypeOK, CacheInv, ManagerNext
  PROVE  CacheInv'
<1> USE DEF discoveryVars, environment, jobVars, managerVars
<1>1. UNCHANGED <<store, watch, stream>> /\ mailbox \in Seq(Message) /\ missed' \subseteq missed
  BY DEF ManagerNext, handle_put, handle_delete, rebalance_start, rebalance_lookup, rebalance_apply,
         sync_get, sync_put, sync_done, manager_stops, TypeOK
<1>2. SUFFICES ASSUME alive', NEW n \in Machines \ missed' PROVE InHand(n)'
  BY <1>1 DEF CacheInv, Queued
<1>3. ~manager_stops /\ alive /\ Kept(n, stream, stream')
  <2>1. ~manager_stops
    BY <1>2 DEF manager_stops, alive
  <2>2. manager' = manager
    BY <2>1 DEF ManagerNext, handle_put, handle_delete, rebalance_start, rebalance_lookup, rebalance_apply,
                sync_get, sync_put, sync_done
  <2>3. QED
    BY <1>1, <1>2, <2>1, <2>2, KeptItself DEF alive
<1>4. n \notin missed => InHand(n)
  BY <1>2, <1>3 DEF CacheInv
\* A step that takes no event of n and leaves its values alone.
<1>5. ASSUME missed' = missed, Kept(n, mailbox, mailbox'), UNCHANGED fetched \/ job' # "sync",
             (job' = "sync" /\ n \in todo') <=> (job = "sync" /\ n \in todo), machine_specs'[n] = machine_specs[n]
      PROVE  InHand(n)'
  BY <1>1, <1>2, <1>3, <1>4, <1>5, InHandKept
<1>6. CASE handle_put
  <2> DEFINE e == Head(mailbox)
  <2>1. /\ mailbox # <<>> /\ e.type = "put" /\ e.machine \in Machines /\ e.spec \in Text \cup {NoSpec}
        /\ job = "idle" /\ mailbox' = Tail(mailbox) /\ UNCHANGED <<job, fetched, todo, missed>>
        /\ \/ e.spec # NoSpec /\ handle_machine_put(e.machine, e.spec)
           \/ e.spec = NoSpec /\ machine_specs' = machine_specs
    BY <1>3, <1>6, Received DEF handle_put, Receives
  <2>2. /\ e.spec # NoSpec => machine_specs'[e.machine] = e.spec
        /\ n # e.machine => machine_specs'[n] = machine_specs[n]
    BY <2>1, PutCaches
  <2>3. CASE IsOf(e, n)
    <3>1. n = e.machine /\ (e.spec # NoSpec => machine_specs'[n] = e.spec) /\ InHand(n)
      BY <1>2, <1>4, <2>1, <2>2, <2>3 DEF IsOf
    <3>2. QED
      BY <1>1, <2>1, <2>3, <3>1, InHandHandled
  <2>4. CASE ~IsOf(e, n)
    <3>1. n # e.machine /\ Kept(n, mailbox, mailbox')
      BY <1>1, <2>1, <2>4, Leaves DEF IsOf
    <3>2. QED
      BY <1>5, <2>1, <2>2, <3>1
  <2>5. QED
    BY <2>3, <2>4
<1>7. CASE handle_delete
  <2> DEFINE e == Head(mailbox)
  <2>1. /\ mailbox # <<>> /\ e.type = "delete" /\ e.machine \in Machines
        /\ job = "idle" /\ mailbox' = Tail(mailbox) /\ UNCHANGED <<job, fetched, todo, missed>>
        /\ machine_specs' = [machine_specs EXCEPT ![e.machine] = NoSpec]
    BY <1>7, Received DEF handle_delete, Receives
  <2>2. machine_specs'[e.machine] = NoSpec /\ (n # e.machine => machine_specs'[n] = machine_specs[n])
    BY <2>1 DEF TypeOK
  <2>3. CASE IsOf(e, n)
    <3>1. machine_specs'[n] = NoSpec /\ InHand(n)
      BY <1>2, <1>4, <2>1, <2>2, <2>3 DEF IsOf
    <3>2. QED
      BY <1>1, <2>1, <2>3, <3>1, InHandHandled
  <2>4. CASE ~IsOf(e, n)
    <3>1. n # e.machine /\ Kept(n, mailbox, mailbox')
      BY <1>1, <2>1, <2>4, Leaves DEF IsOf
    <3>2. QED
      BY <1>5, <2>1, <2>2, <3>1
  <2>5. QED
    BY <2>3, <2>4
<1>8. CASE rebalance_start
  <2>1. mailbox # <<>> /\ ~IsOf(Head(mailbox), n) /\ mailbox' = Tail(mailbox) /\ job = "idle" /\ job' = "rebalance"
        /\ UNCHANGED <<fetched, missed, machine_specs>>
    BY <1>8 DEF rebalance_start, Receives, IsOf
  <2>2. Kept(n, mailbox, mailbox')
    BY <1>1, <2>1, Leaves
  <2>3. QED
    BY <1>5, <2>1, <2>2
<1>9. ASSUME UNCHANGED <<mailbox, fetched, missed, machine_specs>>, job \in {"rebalance"}, job' # "sync"
      PROVE  InHand(n)'
  BY <1>5, <1>9, KeptItself
<1>10. CASE \E m \in Machines : rebalance_lookup(m)
  BY <1>9, <1>10 DEF rebalance_lookup
<1>11. CASE rebalance_apply
  BY <1>9, <1>11 DEF rebalance_apply
<1>12. CASE sync_get
  <2>1. mailbox # <<>> /\ ~IsOf(Head(mailbox), n) /\ mailbox' = Tail(mailbox) /\ job = "idle" /\ UNCHANGED machine_specs
    BY <1>12 DEF sync_get, Receives, IsOf
  <2>2. Kept(n, mailbox, mailbox')
    BY <1>1, <2>1, Leaves
  <2>3. CASE UNCHANGED <<job, fetched, todo, missed>>
    BY <1>5, <2>1, <2>2, <2>3
  <2>4. CASE /\ job' = "sync" /\ fetched' = store /\ todo' = { m \in Machines : store[m] # NoSpec }
             /\ missed' = { m \in missed : store[m] = NoSpec \/ Queued(m, Tail(mailbox)) }
    <3>1. InHand(n)' <=>
            IF Queued(n, stream) THEN LastIs(n, stream, Forwarded(n, store[n]))
            ELSE IF Queued(n, Tail(mailbox)) THEN LastIs(n, Tail(mailbox), Forwarded(n, store[n]))
            ELSE IF store[n] # NoSpec THEN TRUE
            ELSE store[n] \in Text \cup {NoSpec} => machine_specs[n] = store[n]
      BY <1>1, <1>2, <2>1, <2>4 DEF InHand, Queued, LastIs, Forwarded
    <3>2. CASE n \in missed
      <4>1. store[n] # NoSpec /\ ~Queued(n, Tail(mailbox)) /\ ~Queued(n, stream)
        BY <1>2, <2>4, <3>2 DEF CacheInv
      <4>2. QED
        BY <3>1, <4>1
    <3>3. CASE n \notin missed
      <4>1. InHand(n) <=>
              IF Queued(n, stream) THEN LastIs(n, stream, Forwarded(n, store[n]))
              ELSE IF Queued(n, mailbox) THEN LastIs(n, mailbox, Forwarded(n, store[n]))
              ELSE store[n] \in Text \cup {NoSpec} => machine_specs[n] = store[n]
        BY <2>1 DEF InHand
      <4>2. Forwarded(n, store[n]) \in Event /\ IsOf(Forwarded(n, store[n]), n)
        BY MessageTypes, ForwardedIsOf DEF TypeOK
      <4>3. QED
        BY <1>4, <2>1, <2>2, <3>1, <3>3, <4>1, <4>2 DEF Kept
    <3>4. QED
      BY <3>2, <3>3
  <2>5. QED
    BY <1>12, <2>3, <2>4 DEF sync_get
<1>13. ASSUME NEW m \in Machines, sync_put(m) PROVE InHand(n)'
  <2>1. /\ fetched[m] \in Text /\ handle_machine_put(m, fetched[m])
        /\ job = "sync" /\ m \in todo /\ todo' = todo \ {m} /\ UNCHANGED <<fetched, job, mailbox, missed>>
    BY <1>3, <1>13 DEF sync_put, TypeOK
  <2>2. machine_specs'[m] = fetched[m] /\ \A k \in Machines \ {m} : machine_specs'[k] = machine_specs[k]
    BY <2>1, PutCaches
  <2>3. CASE n # m
    BY <1>5, <2>1, <2>2, <2>3, KeptItself
  <2>4. CASE n = m
    <3>1. InHand(n)
      BY <1>2, <1>4, <2>1
    <3>2. QED
      BY <1>1, <2>1, <2>2, <2>4, <3>1 DEF InHand, Queued, LastIs, Forwarded
  <2>5. QED
    BY <2>3, <2>4
<1>14. CASE sync_done
  <2>1. todo = {} /\ job' = "idle" /\ UNCHANGED <<mailbox, missed, machine_specs>>
    BY <1>14 DEF sync_done
  <2>2. QED
    BY <1>5, <2>1, KeptItself
<1>15. QED
  BY <1>6, <1>7, <1>8, <1>10, <1>11, <1>12, <1>13, <1>14 DEF ManagerNext

(* CacheInv is inductive relative to the types: the value of a machine key   *)
(* whose event was not lost is always the last one on its way to the cache.  *)
THEOREM CacheInductive == Spec => []CacheInv
<1>1. Init => CacheInv
  BY DEF Init, CacheInv, InHand, Queued, Nothing
<1>2. ASSUME TypeOK, CacheInv, [Next]_vars PROVE CacheInv'
  <2>1. CASE UNCHANGED vars
    BY <1>2, <2>1 DEF CacheInv, InHand, Queued, LastIs, Forwarded, alive, vars, discoveryVars, shardingVars,
                      etcdVars, jobVars, managerVars
  <2>2. QED
    BY <1>2, <2>1, TasksCache, EtcdCache, WatchCache, ManagerCache DEF Next
<1>3. QED
  BY <1>1, <1>2, TypeCorrect, PTL DEF Spec

(* CacheFollowsStore: with its events handled, the manager has cached what   *)
(* etcd holds for every machine whose latest event was not lost, although    *)
(* the GET of sync_all_machines overtakes queued events.                     *)
THEOREM CacheCatchesUp == Spec => []CacheFollowsStore
<1>1. CacheInv => CacheFollowsStore
  BY DEF CacheInv, InHand, CacheFollowsStore
<1>2. QED
  BY <1>1, CacheInductive, PTL

-----------------------------------------------------------------------------
(* What may move an actor.                                                   *)

(* NoSpuriousMove: with no newer topology behind, an actor whose spec does   *)
(* not change starts or stops only if its placement was wrong.               *)
THEOREM MovesAreDue == Spec => NoSpuriousMove
<1> DEFINE Moves(m) == /\ alive' /\ machine_specs'[m] = machine_specs[m] /\ nodes' = nodes
                       /\ bridge = "recv" /\ topology_rx = 0
                       /\ (m \in Running) # (m \in Running)'
<1>1. ASSUME TypeOK, PlacementInv, [Next]_vars, NEW m \in Machines, Moves(m) PROVE Misplaced(m)
  <2> USE DEF Running, Misplaced
  <2>1. ~UNCHANGED actors /\ Next /\ ~manager_stops
    BY <1>1 DEF vars, managerVars, manager_stops, alive
  <2>2. ASSUME NEW n \in Machines, NEW s \in Text, handle_machine_put(n, s) PROVE Misplaced(m)
    <3>1. n = m /\ machine_specs[m] = s
      BY <1>1, <2>2, PutCaches
    <3>2. \/ Owner(m) = Local /\ m \in Running /\ update_machine_spec(m, s)
          \/ Owner(m) = Local /\ m \notin Running /\ s \in Parseable
          \/ Owner(m) # Local /\ m \in Running
      BY <2>1, <2>2, <3>1 DEF handle_machine_put, spawn_machine_actor
    <3>3. ASSUME m \in Running, update_machine_spec(m, s) PROVE FALSE
      <4>1. actors'[m] = NoSpec
        BY <1>1, <3>3
      <4>2. actors'[m] \in {s, actors[m]}
        BY <1>1, <3>3 DEF update_machine_spec, TypeOK
      <4>3. QED
        BY SpecsAssumption, <3>3, <4>1, <4>2
    <3>4. QED
      BY <3>1, <3>2, <3>3
  <2>3. ASSUME NEW n \in Machines, machine_specs' = [machine_specs EXCEPT ![n] = NoSpec], stop_machine_actor(n)
        PROVE  Misplaced(m)
    <3>1. n = m /\ m \in Running /\ machine_specs[m] = NoSpec
      BY <1>1, <2>3 DEF stop_machine_actor, TypeOK
    <3>2. QED
      BY <1>1, <3>1 DEF PlacementInv, ActorsAreTracked, Cached
  <2>4. CASE rebalance_apply
    <3>1. ~RebalanceQueued /\ alive /\ job = "rebalance" /\ todo = {}
      BY <1>1, <2>4 DEF rebalance_apply, PlacementInv, OneRebalance, alive
    <3>2. Decided(m)
      BY <1>1, <3>1 DEF PlacementInv, PlacedOrInHand
    <3>3. QED
      BY <1>1, <2>4, <3>2 DEF rebalance_apply, Decided, TypeOK
  <2>5. QED
    BY <1>1, <2>1, <2>2, <2>3, <2>4, ManagerMaps
<1>2. ASSUME TypeOK, PlacementInv, [Next]_vars PROVE [\A m \in Machines : Moves(m) => Misplaced(m)]_vars
  BY <1>1, <1>2
<1>3. QED
  BY <1>2, TypeCorrect, PlacementInductive, PTL DEF Spec, NoSpuriousMove

-----------------------------------------------------------------------------
(* The refinement.                                                           *)

\* The operators of Rendezvous mean in Placement what they mean here.
LEMMA AbstractRendezvous ==
  /\ \A S : Abstract!SetToSeq(S) = SetToSeq(S)
  /\ \A v : Abstract!rebuild(v) = rebuild(v)
  /\ \A v, m : Abstract!lookup(Score, v, m) = lookup(Score, v, m)
<1>1. ASSUME NEW S PROVE Abstract!Cardinality(S) = Cardinality(S)
  BY DEF Abstract!Cardinality, Cardinality, Abstract!IsFiniteSet, IsFiniteSet
<1>2. ASSUME NEW S PROVE Abstract!SetToSeq(S) = SetToSeq(S)
  BY <1>1 DEF Abstract!SetToSeq, SetToSeq, Abstract!IsInjective, IsInjective
<1>3. ASSUME NEW S PROVE Abstract!SetToSeqs(S) = SetToSeqs(S)
  BY <1>1 DEF Abstract!SetToSeqs, SetToSeqs
<1>4. ASSUME NEW v PROVE Abstract!ToSet(v) = ToSet(v) /\ (Abstract!InOrder(v) <=> InOrder(v))
  BY DEF Abstract!ToSet, ToSet, Abstract!InOrder, InOrder
<1>5. ASSUME NEW v PROVE Abstract!rebuild(v) = rebuild(v)
  BY <1>3, <1>4 DEF Abstract!rebuild, rebuild
<1>6. ASSUME NEW v, NEW m PROVE Abstract!lookup(Score, v, m) = lookup(Score, v, m)
  BY DEF Abstract!lookup, lookup, Abstract!IsLastMax, IsLastMax
<1>7. QED
  BY <1>2, <1>5, <1>6

\* The coordinator answers as Placement says, though Placement knows only the
\* set of its nodes: the winner of a set is unique.
LEMMA OwnersAre ==
  ASSUME TypeOK, NEW m \in Machines PROVE Abstract!Owners(Score, ToSet(nodes))[m] = Owner(m)
<1> DEFINE S == ToSet(nodes)
           v == rebuild(SetToSeq(S))
<1>1. nodes \in NodeVectors /\ S \in SUBSET Peers
  <2>1. PICK T \in SUBSET Peers : nodes \in SetToSeqs(T)
    BY DEF TypeOK, NodeVectors
  <2>2. QED
    BY <2>1, VectorOf DEF TypeOK
<1>2. v \in NodeVectors /\ ToSet(v) = S
  BY <1>1, Rebuilt
<1>3. Abstract!Owners(Score, S)[m] = lookup(Score, v, m)
  BY AbstractRendezvous DEF Abstract!Owners
<1> HIDE DEF S, v
<1>4. CASE S = {}
  <2>1. lookup(Score, v, m) = NoPeer /\ lookup(Score, nodes, m) = NoPeer
    BY <1>1, <1>2, <1>4, ScoreAssumption, LookupWins DEF S
  <2>2. QED
    BY <1>3, <2>1 DEF Owner, S
<1>5. CASE S # {}
  <2>1. Winner(Score[m], lookup(Score, v, m), S) /\ Winner(Score[m], lookup(Score, nodes, m), S)
    BY <1>1, <1>2, <1>5, ScoreAssumption, LookupWins DEF S
  <2>2. lookup(Score, v, m) = lookup(Score, nodes, m)
    BY <1>1, <2>1, ScoreAssumption, OneWinner
  <2>3. QED
    BY <1>3, <2>2 DEF Owner, S
<1>6. QED
  BY <1>4, <1>5

\* What NodePlacement lets a node become, field by field.
LEMMA AbstractFields ==
  ASSUME NEW s, NEW a, NEW b, NEW l
  PROVE  LET x == Abstract!NodeOf(s, a, b, l)
         IN  x.specs = s /\ x.actors = a /\ x.settled = b /\ x.alive = l
  BY DEF Abstract!NodeOf

LEMMA AbstractSteps ==
  ASSUME NEW s \in [Machines -> Text \cup {NoSpec}], NEW a \in [Machines -> Parseable \cup {NoSpec}],
         NEW b, NEW l, NEW x, x = Abstract!NodeOf(s, a, b, l)
  PROVE  /\ \A y : y = Abstract!NodeOf(s, a, FALSE, l) => y = Abstract!Unsettled(x)
         /\ \A c \in BOOLEAN : Abstract!NodeOf(Nothing, Nothing, c, FALSE) \in Abstract!Stopped(x)
         /\ \A m \in Machines :
              Abstract!NodeOf([s EXCEPT ![m] = NoSpec], [a EXCEPT ![m] = NoSpec], b, l) \in Abstract!Deletes(x)
<1>1. x.specs = s /\ x.actors = a /\ x.settled = b /\ x.alive = l
  BY AbstractFields
<1>2. Abstract!Unsettled(x) = Abstract!NodeOf(s, a, FALSE, l)
  BY <1>1 DEF Abstract!Unsettled
<1>3. Abstract!Nothing = Nothing
  BY DEF Abstract!Nothing, Nothing
<1>4. ASSUME NEW c \in BOOLEAN PROVE Abstract!NodeOf(Nothing, Nothing, c, FALSE) \in Abstract!Stopped(x)
  BY <1>3 DEF Abstract!Stopped
<1>5. ASSUME NEW m \in Machines
      PROVE  Abstract!NodeOf([s EXCEPT ![m] = NoSpec], [a EXCEPT ![m] = NoSpec], b, l) \in Abstract!Deletes(x)
  BY <1>1 DEF Abstract!Deletes
<1>6. QED
  BY <1>2, <1>4, <1>5

\* A put may end in this state.
LEMMA AbstractPuts ==
  ASSUME NEW s \in [Machines -> Text \cup {NoSpec}], NEW a \in [Machines -> Parseable \cup {NoSpec}],
         NEW b, NEW l, NEW owner, NEW m \in Machines, NEW t \in Text,
         owner[m] = NoPeer => a[m] = NoSpec,
         NEW s2, s2 = [s EXCEPT ![m] = t],
         NEW a2, a2 = [a EXCEPT ![m] = IF owner[m] = Local THEN IF t \in Parseable THEN t ELSE a[m] ELSE NoSpec],
         NEW x, x = Abstract!NodeOf(s, a, b, l), NEW y, y = Abstract!NodeOf(s2, a2, b, l)
  PROVE  y \in Abstract!Puts(Local, owner, x)
<1>1. x.specs = s /\ x.actors = a /\ x.settled = b /\ x.alive = l
  BY AbstractFields
<1>2. y = Abstract!Put(Local, owner, x, m, t)
  BY <1>1 DEF Abstract!Put
<1>3. <<m, t>> \in { k \in Machines \X Text : owner[k[1]] = NoPeer => ~Abstract!Runs(x, k[1]) }
  BY <1>1 DEF Abstract!Runs
<1>4. <<m, t>>[1] = m /\ <<m, t>>[2] = t
  OBVIOUS
<1>5. QED
  BY <1>2, <1>3, <1>4, Zenon DEF Abstract!Puts

\* A rebalance may end in any of these states.
LEMMA AbstractMoves ==
  ASSUME NEW s \in [Machines -> Text \cup {NoSpec}], NEW a \in [Machines -> Parseable \cup {NoSpec}],
         NEW b, ~b, NEW l, NEW owner, NEW f \in [Machines -> Parseable \cup {NoSpec}], NEW c \in BOOLEAN,
         NEW x, x = Abstract!NodeOf(s, a, b, l), NEW y, y = Abstract!NodeOf(s, f, c, l),
         \A m \in Machines : f[m] \in {a[m], NoSpec, s[m]},
         c => \A m \in Machines :
                IF owner[m] = Local THEN f[m] = NoSpec => s[m] \notin Parseable ELSE f[m] = NoSpec
  PROVE  y \in Abstract!Moved(Local, owner, x)
<1>1. x.specs = s /\ x.actors = a /\ x.settled = b /\ x.alive = l
  BY AbstractFields
<1>2. y.specs = s /\ y.actors = f /\ y.settled = c
  BY AbstractFields
<1>3. c => \A m \in Machines : ~Abstract!Astray(Local, owner, y, m)
  BY <1>2 DEF Abstract!Astray, Abstract!Runs
<1>4. f \in Abstract!Rebalanced(x)
  BY <1>1 DEF Abstract!Rebalanced
<1>5. y \in { Abstract!NodeOf(x.specs, g, d, x.alive) : g \in Abstract!Rebalanced(x), d \in BOOLEAN }
  BY <1>1, <1>4
<1>6. ~x.settled /\ (y.settled => \A m \in Machines : ~Abstract!Astray(Local, owner, y, m))
  BY <1>1, <1>2, <1>3
<1>7. QED
  BY <1>5, <1>6 DEF Abstract!Moved

\* The node of this module as a record of NodePlacement.
LEMMA NodeIs ==
  /\ Node = Abstract!NodeOf(machine_specs, actors, TopologyAtRest, alive)
  /\ Node' = Abstract!NodeOf(machine_specs', actors', TopologyAtRest', alive')
  /\ TopologyAtRest \in BOOLEAN /\ TopologyAtRest' \in BOOLEAN /\ alive \in BOOLEAN
  BY DEF Node, Abstract!NodeOf, TopologyAtRest, alive

\* A step of the abstract node.
LEMMA NodeActs ==
  ASSUME nodes' = nodes,
         LET owner == Abstract!Owners(Score, ToSet(nodes))
         IN  \/ Node' \in Abstract!Stopped(Node)
             \/ alive /\ \/ Node' \in Abstract!Moved(Local, owner, Node)
                         \/ Node' \in Abstract!Puts(Local, owner, Node)
                         \/ Node' \in Abstract!Deletes(Node)
  PROVE  Abstract!Next
<1> DEFINE owner == Abstract!Owners(Score, ToSet(nodes))
<1>1. alive => Node.alive
  BY DEF Node
<1>2. Node' \in Abstract!NodeSteps(Local, owner, Node)
  <2> HIDE DEF owner
  <2>1. \/ Node' \in Abstract!Stopped(Node)
        \/ alive /\ \/ Node' \in Abstract!Moved(Local, owner, Node)
                    \/ Node' \in Abstract!Puts(Local, owner, Node)
                    \/ Node' \in Abstract!Deletes(Node)
    BY DEF owner
  <2>2. QED
    BY <1>1, <2>1 DEF Abstract!NodeSteps
<1>3. ToSet(nodes)' = ToSet(nodes)
  BY DEF ToSet
<1>4. QED
  BY <1>2, <1>3 DEF Abstract!Next, Abstract!NodeActs

\* Puts, by event or by sync, and deletes.
LEMMA PutRefines ==
  ASSUME TypeOK, alive, NEW m \in Machines, NEW s \in Text, handle_machine_put(m, s),
         UNCHANGED <<nodes, bridge, topology_rx, listener, manager>>
  PROVE  Abstract!Next
<1> DEFINE owner == Abstract!Owners(Score, ToSet(nodes))
           at == TopologyAtRest
<1>1. owner[m] = Owner(m) /\ Local # NoPeer
  BY OwnersAre, NoPeerAssumption, LocalAssumption
<1>2. TopologyAtRest' = at /\ alive' = alive
  BY DEF TopologyAtRest, alive
<1> HIDE DEF owner, at
<1>3. machine_specs' = [machine_specs EXCEPT ![m] = s]
  BY DEF handle_machine_put
<1>4. owner[m] = NoPeer => actors[m] = NoSpec
  BY <1>1 DEF handle_machine_put, Running
<1>5. actors' = [actors EXCEPT ![m] = IF owner[m] = Local THEN IF s \in Parseable THEN s ELSE actors[m] ELSE NoSpec]
  <2> USE DEF TypeOK, Running
  <2>1. CASE Owner(m) = Local /\ m \in Running /\ update_machine_spec(m, s)
    BY <1>1, <2>1 DEF update_machine_spec
  <2>2. CASE Owner(m) = Local /\ m \notin Running /\ spawn_machine_actor(m, s)
    BY <1>1, <2>2 DEF spawn_machine_actor
  <2>3. CASE Owner(m) \notin {Local, NoPeer} /\ m \in Running /\ stop_machine_actor(m)
    BY <1>1, <2>3 DEF stop_machine_actor
  <2>4. CASE Owner(m) # Local /\ m \notin Running /\ UNCHANGED <<actors, restart_trackers>>
    BY <1>1, <2>4
  <2>5. QED
    BY <2>1, <2>2, <2>3, <2>4 DEF handle_machine_put
<1>6. Node' \in Abstract!Puts(Local, owner, Node)
  <2>1. machine_specs \in [Machines -> Text \cup {NoSpec}] /\ actors \in [Machines -> Parseable \cup {NoSpec}]
    BY DEF TypeOK
  <2>2. PICK b, l : /\ Node = Abstract!NodeOf(machine_specs, actors, b, l)
                    /\ Node' = Abstract!NodeOf(machine_specs', actors', b, l)
    BY <1>2, NodeIs DEF at
  <2>3. QED
    BY <1>3, <1>4, <1>5, <2>1, <2>2, AbstractPuts
<1>7. QED
  BY <1>6, NodeActs DEF owner

LEMMA DeleteRefines ==
  ASSUME TypeOK, alive, NEW m \in Machines, machine_specs' = [machine_specs EXCEPT ![m] = NoSpec],
         stop_machine_actor(m), UNCHANGED <<nodes, bridge, topology_rx, listener, manager>>
  PROVE  Abstract!Next
<1> DEFINE at == TopologyAtRest
<1>1. TopologyAtRest' = at /\ alive' = alive
  BY DEF TopologyAtRest, alive
<1>2. Node = Abstract!NodeOf(machine_specs, actors, at, alive) /\ Node' = Abstract!NodeOf(machine_specs', actors', at, alive)
  BY <1>1, NodeIs
<1> HIDE DEF at
<1>3. Node' \in Abstract!Deletes(Node)
  <2>1. machine_specs \in [Machines -> Text \cup {NoSpec}] /\ actors \in [Machines -> Parseable \cup {NoSpec}]
    BY DEF TypeOK
  <2>2. actors' = [actors EXCEPT ![m] = NoSpec]
    BY DEF stop_machine_actor
  <2>3. QED
    BY <1>2, <2>1, <2>2, AbstractSteps
<1>4. QED
  BY <1>3, NodeActs

\* The manager is gone, or a notification reaches it no more.
LEMMA StopRefines ==
  ASSUME TypeOK, ~alive', machine_specs' = Nothing, actors' = Nothing, nodes' = nodes
  PROVE  Abstract!Next
<1>1. Node' \in Abstract!Stopped(Node)
  <2>1. machine_specs \in [Machines -> Text \cup {NoSpec}] /\ actors \in [Machines -> Parseable \cup {NoSpec}]
    BY DEF TypeOK
  <2>2. alive' = FALSE
    BY DEF alive
  <2>3. Node' = Abstract!NodeOf(Nothing, Nothing, TopologyAtRest', FALSE)
    BY <2>2, NodeIs
  <2>4. PICK c \in BOOLEAN : Node' = Abstract!NodeOf(Nothing, Nothing, c, FALSE)
    BY <2>3, NodeIs
  <2>5. PICK b, l : Node = Abstract!NodeOf(machine_specs, actors, b, l)
    BY NodeIs
  <2>6. QED
    BY <2>1, <2>4, <2>5, AbstractSteps
<1>2. QED
  BY <1>1, NodeActs

\* Steps the cluster does not see.
LEMMA Stutters ==
  ASSUME UNCHANGED <<nodes, machine_specs, actors, manager>>, TopologyAtRest' <=> TopologyAtRest
  PROVE  UNCHANGED <<ToSet(nodes), Node>>
<1>1. TopologyAtRest' = TopologyAtRest
  BY DEF TopologyAtRest
<1>2. alive' = alive
  BY DEF alive
<1>3. Node' = Node
  BY <1>1, <1>2, NodeIs
<1>4. ToSet(nodes)' = ToSet(nodes)
  BY DEF ToSet
<1>5. QED
  BY <1>3, <1>4

\* The coordinator is told of a topology.
LEMMA BridgeRefines ==
  ASSUME TypeOK, bridge_update PROVE Abstract!Next
<1> USE DEF discoveryVars, etcdVars, jobVars, managerVars
<1>1. ToSet(nodes)' \in SUBSET Peers
  <2>1. Head(sharding_rx) \in SUBSET Peers
    BY DEF TypeOK, bridge_update
  <2>2. nodes' = rebuild(SetToSeq(Head(sharding_rx)))
    BY DEF bridge_update
  <2>3. ToSet(nodes)' = ToSet(nodes')
    BY DEF ToSet
  <2>4. QED
    BY <2>1, <2>2, <2>3, Rebuilt
<1>2. Node' = Abstract!Unsettled(Node)
  <2>1. machine_specs \in [Machines -> Text \cup {NoSpec}] /\ actors \in [Machines -> Parseable \cup {NoSpec}]
    BY DEF TypeOK
  <2>2. TopologyAtRest' = FALSE /\ alive' = alive /\ machine_specs' = machine_specs /\ actors' = actors
    BY DEF bridge_update, TopologyAtRest, alive
  <2>3. PICK b, l : /\ Node = Abstract!NodeOf(machine_specs, actors, b, l)
                    /\ Node' = Abstract!NodeOf(machine_specs, actors, FALSE, l)
    BY <2>2, NodeIs
  <2>4. QED
    BY <2>1, <2>3, AbstractSteps
<1>3. QED
  BY <1>1, <1>2 DEF Abstract!Next, Abstract!TopologyChanges

\* A rebalance ends.
LEMMA RebalanceRefines ==
  ASSUME TypeOK, TypeOK', PlacementInv, PlacementAtRest', StoppedIsEmpty, rebalance_apply
  PROVE  Abstract!Next
<1> DEFINE owner == Abstract!Owners(Score, ToSet(nodes))
           c == TopologyAtRest'
<1>1. alive /\ ~TopologyAtRest /\ alive' = alive /\ nodes' = nodes /\ machine_specs' = machine_specs
  BY DEF rebalance_apply, environment, PlacementInv, OneRebalance, StoppedIsEmpty, alive, TopologyAtRest
<1>2. \A m \in Machines : owner[m] = Owner(m) /\ Owner(m)' = Owner(m)
  BY <1>1, OwnersAre DEF Owner
<1>3. c \in BOOLEAN
  BY DEF TopologyAtRest
<1>4. c => \A m \in Machines : ~Misplaced(m)'
  BY <1>1 DEF PlacementAtRest
<1>5. c => \A m \in Machines :
             IF owner[m] = Local THEN actors'[m] = NoSpec => machine_specs[m] \notin Parseable
             ELSE actors'[m] = NoSpec
  BY <1>1, <1>2, <1>4 DEF Misplaced, Running
<1>6. PICK b, l : /\ ~b
                  /\ Node = Abstract!NodeOf(machine_specs, actors, b, l)
                  /\ Node' = Abstract!NodeOf(machine_specs, actors', c, l)
  BY <1>1, NodeIs
<1> HIDE DEF owner, c
<1>7. \A m \in Machines : actors'[m] \in {actors[m], NoSpec, machine_specs[m]}
  BY DEF rebalance_apply, TypeOK
<1>8. /\ machine_specs \in [Machines -> Text \cup {NoSpec}]
      /\ actors \in [Machines -> Parseable \cup {NoSpec}]
      /\ actors' \in [Machines -> Parseable \cup {NoSpec}]
  BY DEF TypeOK
<1>9. Node' \in Abstract!Moved(Local, owner, Node)
  BY <1>3, <1>5, <1>6, <1>7, <1>8, AbstractMoves
<1>10. QED
  BY <1>1, <1>9, NodeActs DEF owner

\* The handlers that touch specs or actors.
LEMMA HandlersRefine ==
  ASSUME TypeOK, TypeOK', PlacementInv, PlacementAtRest', StoppedIsEmpty, ManagerNext
  PROVE  Abstract!Next \/ UNCHANGED <<ToSet(nodes), Node>>
<1> USE DEF environment, shardingVars, discoveryVars, etcdVars, jobVars, managerVars
<1>1. CASE manager_stops
  <2>1. ~alive' /\ machine_specs' = Nothing /\ actors' = Nothing /\ nodes' = nodes
    BY <1>1 DEF manager_stops, alive
  <2>2. QED
    BY <2>1, StopRefines
<1>2. CASE UNCHANGED <<nodes, machine_specs, actors, manager, bridge, topology_rx, listener>>
  <2>1. TopologyAtRest' <=> TopologyAtRest
    BY <1>2 DEF TopologyAtRest
  <2>2. QED
    BY <1>2, <2>1, Stutters
<1>3. CASE handle_put
  <2>1. alive /\ Head(mailbox) \in Message /\ Head(mailbox).type = "put"
    BY <1>3 DEF handle_put, Receives, TypeOK
  <2>2. Head(mailbox).machine \in Machines /\ Head(mailbox).spec \in Text \cup {NoSpec}
    BY <2>1 DEF Message, Event
  <2>3. CASE /\ Head(mailbox).spec # NoSpec /\ handle_machine_put(Head(mailbox).machine, Head(mailbox).spec)
             /\ UNCHANGED <<environment, listener, waiter, missed, manager, jobVars>>
    BY <2>1, <2>2, <2>3, PutRefines
  <2>4. CASE UNCHANGED managerVars /\ UNCHANGED <<environment, listener, waiter, missed, manager, jobVars>>
    BY <1>2, <2>4
  <2>5. QED
    BY <1>1, <1>3, <2>3, <2>4 DEF handle_put
<1>4. CASE handle_delete
  <2>1. alive /\ Head(mailbox) \in Message /\ Head(mailbox).type = "delete"
    BY <1>4 DEF handle_delete, Receives, TypeOK
  <2>2. Head(mailbox).machine \in Machines
    BY <2>1 DEF Message, Event
  <2>3. /\ machine_specs' = [machine_specs EXCEPT ![Head(mailbox).machine] = NoSpec]
        /\ stop_machine_actor(Head(mailbox).machine)
        /\ UNCHANGED <<nodes, bridge, topology_rx, listener, manager>>
    BY <1>4 DEF handle_delete
  <2>4. QED
    BY <2>1, <2>2, <2>3, DeleteRefines
<1>5. CASE rebalance_apply
  BY <1>5, RebalanceRefines
<1>6. ASSUME NEW m \in Machines, sync_put(m) PROVE Abstract!Next \/ UNCHANGED <<ToSet(nodes), Node>>
  <2>1. alive /\ fetched[m] \in Text
    BY <1>6 DEF sync_put, StoppedIsEmpty, TypeOK
  <2>2. CASE handle_machine_put(m, fetched[m]) /\ UNCHANGED <<environment, listener, manager>>
    BY <2>1, <2>2, PutRefines
  <2>3. QED
    BY <1>1, <1>6, <2>2 DEF sync_put
<1>7. CASE rebalance_start \/ sync_get \/ sync_done
  BY <1>2, <1>7 DEF rebalance_start, sync_get, sync_done
<1>8. ASSUME NEW m \in Machines, rebalance_lookup(m) PROVE Abstract!Next \/ UNCHANGED <<ToSet(nodes), Node>>
  BY <1>2, <1>8 DEF rebalance_lookup
<1>9. QED
  BY <1>3, <1>4, <1>5, <1>6, <1>7, <1>8 DEF ManagerNext

\* Every step of the node is one of NodePlacement, or the cluster does not see it.
LEMMA StepRefines ==
  ASSUME TypeOK, TypeOK', PlacementInv, PlacementAtRest', StoppedIsEmpty, [Next]_vars
  PROVE  [Abstract!Next]_<<ToSet(nodes), Node>>
<1> USE DEF discoveryVars, shardingVars, etcdVars, jobVars, managerVars
<1>1. CASE UNCHANGED <<nodes, machine_specs, actors, manager, bridge, topology_rx, listener>>
  <2>1. TopologyAtRest' <=> TopologyAtRest
    BY <1>1 DEF TopologyAtRest
  <2>2. QED
    BY <1>1, <2>1, Stutters
<1>2. CASE DiscoveryNext \/ convergence_waiter \/ EtcdNext \/ WatchNext \/ UNCHANGED vars
  BY <1>1, <1>2 DEF DiscoveryNext, converge, signal_convergence, discovery_fails, process_watch_event,
                    convergence_waiter, EtcdNext, write_machine, watch_break, WatchNext, watch_open, watch_forward, vars
<1>3. CASE bridge_update
  BY <1>3, BridgeRefines
<1>4. CASE bridge_notify
  <2>1. ~TopologyAtRest /\ ~TopologyAtRest'
    BY <1>4 DEF bridge_notify, TopologyAtRest, TypeOK
  <2>2. UNCHANGED <<nodes, machine_specs, actors, manager>>
    BY <1>4 DEF bridge_notify
  <2>3. QED
    BY <2>1, <2>2, Stutters
<1>5. CASE topology_listener
  <2>1. CASE alive
    <3>1. ~TopologyAtRest /\ ~TopologyAtRest'
      BY <1>5, <2>1 DEF topology_listener, TopologyAtRest
    <3>2. UNCHANGED <<nodes, machine_specs, actors, manager>>
      BY <1>5 DEF topology_listener
    <3>3. QED
      BY <3>1, <3>2, Stutters
  <2>2. CASE ~alive
    <3>1. ~alive' /\ machine_specs' = Nothing /\ actors' = Nothing /\ nodes' = nodes
      BY <1>5, <2>2 DEF topology_listener, alive, StoppedIsEmpty
    <3>2. QED
      BY <3>1, StopRefines
  <2>3. QED
    BY <2>1, <2>2
<1>6. CASE ManagerNext
  BY <1>6, HandlersRefine
<1>7. QED
  BY <1>2, <1>3, <1>4, <1>5, <1>6 DEF Next, BridgeNext

(* RefinesPlacement: however the bridge, the listener, the watch and the     *)
(* manager interleave, and whatever the mailbox holds, the node does to its  *)
(* actors what the abstract node of Placement may do.  It rests on           *)
(* PlacementAtRest for the rebalance that catches up, on StoppedIsEmpty for  *)
(* a manager that has panicked, and on LookupWins: the owner the coordinator *)
(* answers with depends on the set of its nodes alone.                       *)
THEOREM Refinement == Spec => RefinesPlacement
<1>1. Init => Abstract!Init
  <2>1. SUFFICES ASSUME Init PROVE Abstract!Init
    OBVIOUS
  <2>2. ToSet(nodes) = {Local}
    BY <2>1, Rebuilt DEF Init
  <2>3. machine_specs = Nothing /\ actors = Nothing /\ TopologyAtRest = TRUE /\ alive = TRUE
    BY <2>1 DEF Init, TopologyAtRest, alive
  <2>4. Abstract!Nothing = Nothing
    BY DEF Abstract!Nothing, Nothing
  <2>5. Node = Abstract!Started
    BY <2>3, <2>4, NodeIs DEF Abstract!Started
  <2>6. QED
    BY <2>2, <2>5 DEF Abstract!Init
<1>2. QED
  BY <1>1, StepRefines, TypeCorrect, PlacementInductive, Placement, Stopping, PTL
  DEF Spec, RefinesPlacement, Abstract!Spec
=============================================================================
