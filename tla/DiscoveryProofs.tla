---------------------------- MODULE DiscoveryProofs ----------------------------
(***************************************************************************)
(* Theorems about Discovery for every set of nodes, every choice of        *)
(* failures and any number of lost streams.                                *)
(***************************************************************************)
EXTENDS Discovery, TLAPS

USE MaxBreaksAssumption

LEMMA InitTyped == Init => TypeOK
  BY DEF Init, TypeOK, Phases

\* The event of a key reaches queues of the right type.
LEMMA PublishTyped ==
  ASSUME TypeOK, NEW type \in {"put", "delete"}, NEW p \in Nodes, Publish(type, p)
  PROVE  events' \in [Nodes -> Seq(Event)] /\ missed' \in [Nodes -> SUBSET Nodes]
<1>1. [type |-> type, peer |-> p] \in Event
  BY DEF Event
<1>2. \A n \in Nodes : Append(events[n], [type |-> type, peer |-> p]) \in Seq(Event) /\ events[n] \in Seq(Event)
  BY <1>1 DEF TypeOK
<1>3. QED
  BY <1>2 DEF TypeOK, Publish

LEMMA ControllerTyped ==
  ASSUME TypeOK, NEW n \in Nodes, ControllerNext(n)
  PROVE  TypeOK'
<1> USE DEF etcdVars, taskVars, Phases
<1>0. CASE connect(n)
  BY <1>0 DEF TypeOK, connect
<1>1. CASE initialize(n)
  BY <1>1 DEF TypeOK, initialize
<1>2. CASE grant_lease(n)
  BY <1>2 DEF TypeOK, grant_lease
<1>3. CASE put_peer(n)
  <2>1. CASE lease[n] = "live"
    <3>1. Publish("put", n)
      BY <1>3, <2>1 DEF put_peer
    <3>2. events' \in [Nodes -> Seq(Event)] /\ missed' \in [Nodes -> SUBSET Nodes]
      BY <3>1, PublishTyped
    <3>3. /\ registered' \in SUBSET Nodes
          /\ phase' \in [Nodes -> Phases]
          /\ keepalive' \in [Nodes -> {"off", "on"}]
          /\ UNCHANGED <<lease, known_peers, topology, ready, stream, breaks, internal, sigterm>>
      BY <1>3, <2>1 DEF TypeOK, put_peer, Phases
    <3>4. QED
      BY <3>2, <3>3 DEF TypeOK
  <2>2. CASE lease[n] # "live"
    BY <1>3, <2>2 DEF TypeOK, put_peer
  <2>3. QED
    BY <2>1, <2>2
<1>4. CASE converge(n)
  BY <1>4 DEF TypeOK, converge, notify_sharding
<1>5. CASE enter_maintenance(n)
  BY <1>5 DEF TypeOK, enter_maintenance
<1>6. CASE process_watch_event(n)
  <2>1. events[n] \in Seq(Event) /\ events[n] # <<>>
    BY <1>6 DEF TypeOK, process_watch_event
  <2>2. Tail(events[n]) \in Seq(Event) /\ Head(events[n]) \in Event
    BY <2>1
  <2>3. Head(events[n]).peer \in Nodes
    BY <2>2 DEF Event
  <2>4. PICK peers \in SUBSET Nodes : notify_sharding(n, peers) \/ UNCHANGED <<known_peers, topology>>
    BY <1>6, <2>3 DEF TypeOK, process_watch_event
  <2>5. events' \in [Nodes -> Seq(Event)]
    BY <1>6, <2>2 DEF TypeOK, process_watch_event
  <2>6. QED
    BY <1>6, <2>4, <2>5 DEF TypeOK, process_watch_event, notify_sharding
<1>7. CASE shutdown(n)
  <2>1. [type |-> "delete", peer |-> n] \in Event
    BY DEF Event
  <2>2. \A m \in Nodes : Append(events[m], [type |-> "delete", peer |-> n]) \in Seq(Event)
    BY <2>1 DEF TypeOK
  <2>3. <<>> \in Seq(Event) /\ \A m \in Nodes : events[m] \in Seq(Event)
    BY DEF TypeOK
  <2>4. CASE Revoked(n)
    <3>1. events' \in [Nodes -> Seq(Event)] /\ missed' \in [Nodes -> SUBSET Nodes]
      BY <2>2, <2>3, <2>4 DEF TypeOK, Revoked
    <3>2. /\ registered' \in SUBSET Nodes
          /\ lease' \in [Nodes -> {"none", "live", "gone"}]
      BY <2>4 DEF TypeOK, Revoked
    <3>3. QED
      BY <1>7, <3>1, <3>2 DEF TypeOK, shutdown
  <2>5. CASE events' = [events EXCEPT ![n] = <<>>] /\ UNCHANGED <<registered, lease, missed>>
    BY <1>7, <2>5 DEF TypeOK, shutdown
  <2>6. QED
    BY <1>7, <2>4, <2>5 DEF shutdown
<1>8. QED
  BY <1>0, <1>1, <1>2, <1>3, <1>4, <1>5, <1>6, <1>7 DEF ControllerNext

LEMMA EnvironmentTyped ==
  ASSUME TypeOK, NEW n \in Nodes, EnvironmentNext(n)
  PROVE  TypeOK'
<1> USE DEF etcdVars, taskVars, Phases
<1>1. CASE lease_expires(n)
  <2>1. CASE n \in registered
    <3>1. Publish("delete", n)
      BY <1>1, <2>1 DEF lease_expires, LeaseEnds
    <3>2. events' \in [Nodes -> Seq(Event)] /\ missed' \in [Nodes -> SUBSET Nodes]
      BY <3>1, PublishTyped
    <3>3. QED
      BY <1>1, <2>1, <3>2 DEF TypeOK, lease_expires, LeaseEnds
  <2>2. CASE n \notin registered
    BY <1>1, <2>2 DEF TypeOK, lease_expires, LeaseEnds
  <2>3. QED
    BY <2>1, <2>2
<1>2. CASE run_fails(n)
  BY <1>2 DEF TypeOK, run_fails
<1>3. CASE stream_canceled(n)
  <2>1. { events[n][i].peer : i \in 1..Len(events[n]) } \subseteq Nodes
    <3>1. ASSUME NEW i \in 1..Len(events[n]) PROVE events[n][i] \in Event
      BY <3>1 DEF TypeOK
    <3>2. QED
      BY <3>1 DEF Event
  <2>2. QED
    BY <1>3, <2>1 DEF TypeOK, stream_canceled
<1>4. CASE stream_ends(n)
  BY <1>4 DEF TypeOK, stream_ends
<1>5. CASE keepalive_fails(n) \/ signal(n)
  BY <1>5 DEF TypeOK, keepalive_fails, signal
<1>6. CASE process_exits(n)
  BY <1>6 DEF TypeOK, process_exits
<1>7. QED
  BY <1>1, <1>2, <1>3, <1>4, <1>5, <1>6 DEF EnvironmentNext

(* Every reachable state is type correct: in particular a watch event never  *)
(* brings anything but a peer id into known_peers or into the list sent to   *)
(* sharding.                                                                 *)
THEOREM TypeCorrect == Spec => []TypeOK
<1>1. ASSUME TypeOK, [Next]_vars PROVE TypeOK'
  <2>1. CASE UNCHANGED vars
    BY <1>1, <2>1 DEF TypeOK, vars
  <2>2. QED
    BY <1>1, <2>1, ControllerTyped, EnvironmentTyped DEF Next
<1>2. QED
  BY <1>1, InitTyped, PTL DEF Spec

-----------------------------------------------------------------------------
(* What discovery tells sharding.                                            *)

LEMMA InitTracks == Init => DiscoveryInv
  BY DEF Init, DiscoveryInv, LeaseOrder, DeletesAreFinal, FreshStart, FollowsStream, KnowsItself,
         MutualAwareness, Converged

\* What DiscoveryInv reads.
discoveryVars == <<registered, lease, phase, known_peers, topology, stream, events, missed>>

LEMMA DiscoveryFrame == ASSUME DiscoveryInv, UNCHANGED discoveryVars PROVE DiscoveryInv'
  BY DEF discoveryVars, DiscoveryInv, LeaseOrder, DeletesAreFinal, FreshStart, FollowsStream, KnowsItself,
         MutualAwareness, Converged, IsLatest, Queued

\* A controller ends: it promises nothing any more, and nobody else notices.
LEMMA LeavingTracks ==
  ASSUME TypeOK, DiscoveryInv, NEW n \in Nodes,
         phase' = [phase EXCEPT ![n] = "returned"] \/ phase' = [phase EXCEPT ![n] = "exited"],
         stream' = [stream EXCEPT ![n] = "none"], events' = [events EXCEPT ![n] = <<>>],
         UNCHANGED <<registered, lease, known_peers, topology, missed>>
  PROVE  DiscoveryInv'
<1>1. /\ phase'[n] \in {"returned", "exited"} /\ events'[n] = <<>>
      /\ \A m \in Nodes \ {n} : phase'[m] = phase[m] /\ events'[m] = events[m] /\ stream'[m] = stream[m]
  BY DEF TypeOK
<1>2. LeaseOrder'
  BY <1>1 DEF DiscoveryInv, LeaseOrder
<1>3. DeletesAreFinal'
  BY <1>1 DEF DiscoveryInv, DeletesAreFinal
<1>4. FreshStart'
  BY <1>1 DEF DiscoveryInv, FreshStart
<1>5. FollowsStream'
  BY <1>1 DEF DiscoveryInv, FollowsStream, Converged, IsLatest, Queued
<1>6. KnowsItself' /\ MutualAwareness'
  BY <1>1 DEF DiscoveryInv, KnowsItself, MutualAwareness, Converged, TypeOK
<1>7. QED
  BY <1>2, <1>3, <1>4, <1>5, <1>6 DEF DiscoveryInv

\* A key comes or goes: a converged node either queues the event behind the ones
\* it has, or has missed it.
LEMMA KeyEventTracks ==
  ASSUME TypeOK, DiscoveryInv, NEW p \in Nodes, NEW n \in Nodes, NEW type \in {"put", "delete"},
         Converged(n), UNCHANGED known_peers,
         registered' = IF type = "put" THEN registered \cup {p} ELSE registered \ {p},
         \/ events'[n] = Append(events[n], [type |-> type, peer |-> p]) /\ missed'[n] = missed[n] \ {p}
         \/ events'[n] = events[n] /\ missed'[n] = missed[n] \cup {p},
         NEW q \in Nodes \ {n}, q \notin missed'[n]
  PROVE  /\ \A i \in 1..Len(events'[n]) :
              IsLatest(n, q, i)' => (events'[n][i].type = "put" <=> q \in registered')
         /\ ~Queued(n, q)' => (q \in known_peers'[n] <=> q \in registered')
<1> DEFINE e == [type |-> type, peer |-> p]
<1>1. events[n] \in Seq(Event) /\ Len(events[n]) \in Nat
  BY DEF TypeOK
<1>2. q # p => /\ \A i \in 1..Len(events[n]) :
                    IsLatest(n, q, i) => (events[n][i].type = "put" <=> q \in registered)
               /\ ~Queued(n, q) => (q \in known_peers[n] <=> q \in registered)
  BY DEF DiscoveryInv, FollowsStream
<1>3. q # p => (q \in registered' <=> q \in registered)
  OBVIOUS
<1>4. CASE events'[n] = events[n] /\ missed'[n] = missed[n] \cup {p}
  BY <1>2, <1>3, <1>4 DEF IsLatest, Queued
<1>5. CASE events'[n] = Append(events[n], e) /\ missed'[n] = missed[n] \ {p}
  <2>1. /\ Len(events'[n]) = Len(events[n]) + 1
        /\ \A i \in 1..Len(events[n]) : events'[n][i] = events[n][i]
        /\ events'[n][Len(events[n]) + 1] = e
    BY <1>1, <1>5
  <2>2. e.peer = p /\ e.type = type
    OBVIOUS
  <2> HIDE DEF e
  <2>3. CASE q = p
    <3>1. Queued(n, q)'
      BY <1>1, <2>1, <2>2, <2>3 DEF Queued
    <3>2. ASSUME NEW i \in 1..Len(events'[n]), IsLatest(n, q, i)'
          PROVE  i = Len(events[n]) + 1
      BY <1>1, <2>1, <2>2, <2>3, <3>2 DEF IsLatest
    <3>3. type = "put" <=> q \in registered'
      BY <2>3
    <3>4. QED
      BY <2>1, <2>2, <3>1, <3>2, <3>3
  <2>4. CASE q # p
    <3>1. ASSUME NEW i \in 1..Len(events'[n]), IsLatest(n, q, i)'
          PROVE  i \in 1..Len(events[n]) /\ IsLatest(n, q, i)
      <4>1. i \in 1..Len(events[n])
        BY <1>1, <2>1, <2>2, <2>4, <3>1 DEF IsLatest
      <4>2. \A j \in 1..Len(events[n]) : j \in 1..Len(events'[n]) /\ events'[n][j] = events[n][j]
        BY <1>1, <2>1
      <4>3. QED
        BY <3>1, <4>1, <4>2 DEF IsLatest
    <3>2. Queued(n, q)' <=> Queued(n, q)
      <4>1. \A j \in 1..Len(events[n]) : j \in 1..Len(events'[n]) /\ events'[n][j] = events[n][j]
        BY <1>1, <2>1
      <4>2. \A j \in 1..Len(events'[n]) : events'[n][j].peer = q => j \in 1..Len(events[n])
        BY <1>1, <2>1, <2>2, <2>4
      <4>3. QED
        BY <4>1, <4>2 DEF Queued
    <3>3. QED
      BY <1>2, <1>3, <2>1, <2>4, <3>1, <3>2
  <2>5. QED
    BY <2>3, <2>4
<1>6. QED
  BY <1>4, <1>5

\* A lease ends and the key with it, by expiry or revocation: the event goes to
\* converged nodes as KeyEventTracks has it, and no node starts or converges.
LEMMA DepartureTracks ==
  ASSUME TypeOK, DiscoveryInv, NEW p \in Nodes, lease[p] = "live",
         lease' = [lease EXCEPT ![p] = "gone"], registered' = registered \ {p},
         UNCHANGED <<known_peers, topology>>,
         \A n \in Nodes :
           \/ /\ phase'[n] = phase[n] /\ stream'[n] = stream[n]
              /\ \/ /\ stream[n] = "open"
                    /\ events'[n] = Append(events[n], [type |-> "delete", peer |-> p])
                    /\ missed'[n] = missed[n] \ {p}
                 \/ /\ stream[n] # "open"
                    /\ events'[n] = events[n] /\ missed'[n] = missed[n] \cup {p}
           \/ phase'[n] = "returned" /\ events'[n] = <<>>
  PROVE  DiscoveryInv'
<1> DEFINE e == [type |-> "delete", peer |-> p]
<1>1. \A n \in Nodes : events[n] \in Seq(Event) /\ Len(events[n]) \in Nat
  BY DEF TypeOK
<1>2. \A n \in Nodes : lease'[n] = IF n = p THEN "gone" ELSE lease[n]
  BY DEF TypeOK
<1>3. \A n \in Nodes : phase'[n] # phase[n] => phase'[n] = "returned"
  OBVIOUS
<1>4. LeaseOrder'
  BY <1>2, <1>3 DEF DiscoveryInv, LeaseOrder
<1>5. DeletesAreFinal'
  <2>1. SUFFICES ASSUME NEW n \in Nodes, NEW i \in 1..Len(events'[n]), events'[n][i].type = "delete"
                 PROVE  lease'[events'[n][i].peer] = "gone"
    BY DEF DeletesAreFinal
  <2>2. CASE i \in 1..Len(events[n]) /\ events'[n][i] = events[n][i]
    <3>1. lease[events[n][i].peer] = "gone"
      BY <2>1, <2>2 DEF DiscoveryInv, DeletesAreFinal
    <3>2. events[n][i].peer \in Nodes
      <4>1. events[n][i] \in Event
        BY <1>1, <2>2
      <4>2. QED
        BY <4>1 DEF Event
    <3>3. QED
      BY <1>2, <2>2, <3>1, <3>2
  <2>3. CASE events'[n][i] = e
    BY <1>2, <2>3
  <2>4. QED
    <3>1. events'[n] = events[n] \/ events'[n] = <<>> \/ events'[n] = Append(events[n], e)
      OBVIOUS
    <3>2. CASE events'[n] = Append(events[n], e)
      BY <1>1, <2>2, <2>3, <3>2
    <3>3. QED
      BY <2>2, <3>1, <3>2
<1>6. FreshStart'
  BY <1>3 DEF DiscoveryInv, FreshStart
<1>7. FollowsStream'
  <2>1. SUFFICES ASSUME NEW n \in Nodes, Converged(n)', NEW q \in Nodes \ {n}, q \notin missed'[n]
                 PROVE  /\ \A i \in 1..Len(events'[n]) :
                             IsLatest(n, q, i)' => (events'[n][i].type = "put" <=> q \in registered')
                        /\ ~Queued(n, q)' => (q \in known_peers'[n] <=> q \in registered')
    BY DEF FollowsStream
  <2>2. phase'[n] # "returned" /\ Converged(n)
    BY <1>3, <2>1 DEF Converged
  <2>3. \/ events'[n] = Append(events[n], e) /\ missed'[n] = missed[n] \ {p}
        \/ events'[n] = events[n] /\ missed'[n] = missed[n] \cup {p}
    BY <2>2
  <2>4. QED
    BY <2>1, <2>2, <2>3, KeyEventTracks
<1>8. KnowsItself' /\ MutualAwareness'
  BY <1>3 DEF DiscoveryInv, KnowsItself, MutualAwareness, Converged, TypeOK
<1>9. QED
  BY <1>4, <1>5, <1>6, <1>7, <1>8 DEF DiscoveryInv

\* converge: what is read is what etcd holds, and nothing was lost since.
LEMMA ConvergeTracks ==
  ASSUME TypeOK, DiscoveryInv, NEW n \in Nodes, converge(n)
  PROVE  DiscoveryInv'
<1> USE DEF etcdVars, taskVars
<1>1. /\ phase[n] = "convergence" /\ known_peers[n] = {n} /\ events[n] = <<>>
      /\ UNCHANGED <<registered, lease, stream, events>>
  BY DEF converge, DiscoveryInv, FreshStart
<1>2. /\ phase'[n] = "watch" /\ known_peers'[n] = {n} \cup registered /\ missed'[n] = {}
      /\ \A m \in Nodes \ {n} : phase'[m] = phase[m] /\ known_peers'[m] = known_peers[m] /\ missed'[m] = missed[m]
  BY <1>1 DEF TypeOK, converge, notify_sharding
<1>3. topology' = known_peers'
  BY DEF TypeOK, converge, notify_sharding, DiscoveryInv
<1>4. LeaseOrder' /\ DeletesAreFinal' /\ FreshStart'
  BY <1>1, <1>2 DEF DiscoveryInv, LeaseOrder, DeletesAreFinal, FreshStart
<1>5. FollowsStream'
  BY <1>1, <1>2 DEF DiscoveryInv, FollowsStream, Converged, IsLatest, Queued
<1>6. KnowsItself' /\ MutualAwareness'
  BY <1>1, <1>2 DEF DiscoveryInv, KnowsItself, MutualAwareness, Converged, TypeOK
<1>7. QED
  BY <1>3, <1>4, <1>5, <1>6 DEF DiscoveryInv

\* put_peer: the key is new, and its owner has not converged.
LEMMA RegistrationTracks ==
  ASSUME TypeOK, DiscoveryInv, NEW p \in Nodes, put_peer(p), lease[p] = "live"
  PROVE  DiscoveryInv'
<1> DEFINE e == [type |-> "put", peer |-> p]
<1>1. /\ phase[p] = "registration" /\ stream[p] = "none" /\ events[p] = <<>> /\ known_peers[p] = {p}
      /\ Publish("put", p) /\ registered' = registered \cup {p}
      /\ UNCHANGED <<lease, known_peers, topology, stream>>
  BY DEF put_peer, DiscoveryInv, FreshStart
<1>2. /\ phase'[p] \in {"convergence", "returned"}
      /\ \A n \in Nodes \ {p} : phase'[n] = phase[n]
  BY DEF TypeOK, put_peer
<1>3. \A n \in Nodes :
        \/ stream[n] = "open" /\ events'[n] = Append(events[n], e) /\ missed'[n] = missed[n] \ {p}
        \/ stream[n] # "open" /\ events'[n] = events[n] /\ missed'[n] = missed[n] \cup {p}
  BY <1>1 DEF Publish
<1>4. \A n \in Nodes : events[n] \in Seq(Event) /\ Len(events[n]) \in Nat
  BY DEF TypeOK
<1>5. LeaseOrder'
  BY <1>1, <1>2 DEF DiscoveryInv, LeaseOrder
<1>6. DeletesAreFinal'
  <2>1. SUFFICES ASSUME NEW n \in Nodes, NEW i \in 1..Len(events'[n]), events'[n][i].type = "delete"
                 PROVE  lease'[events'[n][i].peer] = "gone"
    BY DEF DeletesAreFinal
  <2>2. i \in 1..Len(events[n]) /\ events'[n][i] = events[n][i]
    <3>1. CASE events'[n] = Append(events[n], e)
      BY <1>4, <2>1, <3>1
    <3>2. QED
      BY <1>3, <3>1
  <2>3. QED
    BY <1>1, <2>1, <2>2 DEF DiscoveryInv, DeletesAreFinal
<1>7. FreshStart'
  BY <1>1, <1>2, <1>3 DEF DiscoveryInv, FreshStart
<1>8. FollowsStream'
  <2>1. SUFFICES ASSUME NEW n \in Nodes, Converged(n)', NEW q \in Nodes \ {n}, q \notin missed'[n]
                 PROVE  /\ \A i \in 1..Len(events'[n]) :
                             IsLatest(n, q, i)' => (events'[n][i].type = "put" <=> q \in registered')
                        /\ ~Queued(n, q)' => (q \in known_peers'[n] <=> q \in registered')
    BY DEF FollowsStream
  <2>2. Converged(n)
    BY <1>2, <2>1 DEF Converged
  <2>3. \/ events'[n] = Append(events[n], e) /\ missed'[n] = missed[n] \ {p}
        \/ events'[n] = events[n] /\ missed'[n] = missed[n] \cup {p}
    BY <1>3
  <2>4. QED
    BY <1>1, <2>1, <2>2, <2>3, KeyEventTracks
<1>9. KnowsItself' /\ MutualAwareness'
  BY <1>1, <1>2 DEF DiscoveryInv, KnowsItself, MutualAwareness, Converged, TypeOK
<1>10. QED
  BY <1>1, <1>5, <1>6, <1>7, <1>8, <1>9 DEF DiscoveryInv

\* process_watch_event: the first event is applied.  A peer it drops has no key
\* any more, for its lease is gone.
LEMMA WatchTracks ==
  ASSUME TypeOK, DiscoveryInv, NEW n \in Nodes, process_watch_event(n)
  PROVE  DiscoveryInv'
<1> DEFINE e == Head(events[n])
<1> USE DEF etcdVars, taskVars
<1>1. events[n] \in Seq(Event) /\ events[n] # <<>>
  BY DEF TypeOK, process_watch_event
<1>2. /\ Len(events[n]) \in Nat \ {0} /\ e = events[n][1] /\ e \in Event
      /\ Len(Tail(events[n])) = Len(events[n]) - 1
      /\ \A i \in 1..Len(Tail(events[n])) : Tail(events[n])[i] = events[n][i + 1]
  BY <1>1
<1>3. e.peer \in Nodes /\ e.type \in {"put", "delete"}
  BY <1>2 DEF Event
<1>4. /\ events'[n] = Tail(events[n]) /\ phase[n] = "maintenance"
      /\ \A m \in Nodes \ {n} : events'[m] = events[m]
      /\ UNCHANGED <<registered, lease, phase, stream, missed>>
  BY DEF TypeOK, process_watch_event
<1>5. /\ topology' = known_peers'
      /\ \A m \in Nodes \ {n} : known_peers'[m] = known_peers[m]
      /\ known_peers'[n] = IF e.type = "delete" THEN known_peers[n] \ {e.peer}
                           ELSE IF e.peer = n THEN known_peers[n] ELSE known_peers[n] \cup {e.peer}
  BY <1>3 DEF TypeOK, process_watch_event, notify_sharding, DiscoveryInv
<1>6. e.type = "delete" => e.peer \notin registered
  BY <1>2, <1>3 DEF DiscoveryInv, DeletesAreFinal, LeaseOrder
<1>7. /\ \A i \in 1..Len(events'[n]) : i + 1 \in 1..Len(events[n]) /\ events'[n][i] = events[n][i + 1]
      /\ \A i \in 1..Len(events[n]) : i # 1 => i - 1 \in 1..Len(events'[n]) /\ events'[n][i - 1] = events[n][i]
  BY <1>2, <1>4
<1> HIDE DEF e
<1>8. LeaseOrder'
  BY <1>4 DEF DiscoveryInv, LeaseOrder
<1>9. DeletesAreFinal'
  <2>1. SUFFICES ASSUME NEW m \in Nodes, NEW i \in 1..Len(events'[m]), events'[m][i].type = "delete"
                 PROVE  lease'[events'[m][i].peer] = "gone"
    BY DEF DeletesAreFinal
  <2>2. CASE m = n
    <3>1. i + 1 \in 1..Len(events[n]) /\ events'[n][i] = events[n][i + 1]
      BY <1>7, <2>1, <2>2
    <3>2. events[n][i + 1].type = "delete"
      BY <2>1, <2>2, <3>1
    <3>3. lease[events[n][i + 1].peer] = "gone"
      BY <3>1, <3>2 DEF DiscoveryInv, DeletesAreFinal
    <3>4. QED
      BY <1>4, <2>2, <3>1, <3>3
  <2>3. CASE m # n
    BY <1>4, <2>1, <2>3 DEF DiscoveryInv, DeletesAreFinal
  <2>4. QED
    BY <2>2, <2>3
<1>10. FreshStart'
  BY <1>4, <1>5 DEF DiscoveryInv, FreshStart
<1>11. FollowsStream'
  <2>1. SUFFICES ASSUME NEW m \in Nodes, Converged(m)', NEW q \in Nodes \ {m}, q \notin missed'[m]
                 PROVE  /\ \A i \in 1..Len(events'[m]) :
                             IsLatest(m, q, i)' => (events'[m][i].type = "put" <=> q \in registered')
                        /\ ~Queued(m, q)' => (q \in known_peers'[m] <=> q \in registered')
    BY DEF FollowsStream
  <2>2. /\ \A i \in 1..Len(events[m]) :
             IsLatest(m, q, i) => (events[m][i].type = "put" <=> q \in registered)
        /\ ~Queued(m, q) => (q \in known_peers[m] <=> q \in registered)
    BY <1>4, <2>1 DEF DiscoveryInv, FollowsStream, Converged
  <2>3. CASE m # n
    BY <1>4, <1>5, <2>2, <2>3 DEF IsLatest, Queued
  <2>4. CASE m = n
    <3>1. ASSUME NEW i \in 1..Len(events'[n]), IsLatest(n, q, i)'
          PROVE  IsLatest(n, q, i + 1)
      <4>1. ASSUME NEW j \in 1..Len(events[n]), j > i + 1 PROVE events[n][j].peer # q
        <5>1. j - 1 \in 1..Len(events'[n]) /\ j - 1 > i /\ events'[n][j - 1] = events[n][j]
          BY <1>2, <1>7, <3>1, <4>1
        <5>2. QED
          BY <3>1, <5>1 DEF IsLatest
      <4>2. QED
        BY <1>7, <3>1, <4>1 DEF IsLatest
    <3>2. \A i \in 1..Len(events'[n]) :
            IsLatest(n, q, i)' => (events'[n][i].type = "put" <=> q \in registered')
      BY <1>4, <1>7, <2>2, <2>4, <3>1
    <3>3. ASSUME ~Queued(n, q)', e.peer = q PROVE q \in known_peers'[n] <=> q \in registered'
      <4>1. 1 \in 1..Len(events[n])
        BY <1>2
      <4>2. IsLatest(n, q, 1)
        <5>1. ASSUME NEW j \in 1..Len(events[n]), j > 1 PROVE events[n][j].peer # q
          <6>1. j - 1 \in 1..Len(events'[n]) /\ events'[n][j - 1] = events[n][j]
            BY <1>7, <5>1
          <6>2. QED
            BY <3>3, <6>1 DEF Queued
        <5>2. QED
          BY <1>2, <3>3, <5>1 DEF IsLatest
      <4>3. e.type = "put" <=> q \in registered
        BY <1>2, <2>2, <2>4, <4>1, <4>2
      <4>4. QED
        BY <1>3, <1>4, <1>5, <2>1, <2>4, <3>3, <4>3
    <3>4. ASSUME ~Queued(n, q)', e.peer # q PROVE q \in known_peers'[n] <=> q \in registered'
      <4>1. ~Queued(n, q)
        BY <1>2, <1>7, <3>4 DEF Queued
      <4>2. QED
        BY <1>4, <1>5, <2>2, <2>4, <3>4, <4>1
    <3>5. QED
      BY <2>4, <3>2, <3>3, <3>4
  <2>5. QED
    BY <2>3, <2>4
<1>12. KnowsItself' /\ MutualAwareness'
  <2>1. \A m \in Nodes, q \in registered : q \in known_peers[m] => q \in known_peers'[m]
    BY <1>5, <1>6
  <2>2. registered' = registered /\ registered \subseteq Nodes /\ phase' = phase
    BY <1>4 DEF TypeOK
  <2>3. KnowsItself'
    BY <2>1, <2>2 DEF DiscoveryInv, KnowsItself
  <2>4. MutualAwareness'
    BY <2>1, <2>2 DEF DiscoveryInv, MutualAwareness, Converged
  <2>5. QED
    BY <2>3, <2>4
<1>13. QED
  BY <1>5, <1>8, <1>9, <1>10, <1>11, <1>12 DEF DiscoveryInv

\* stream_canceled: the events thrown away are all accounted for as missed.
LEMMA CancelTracks ==
  ASSUME TypeOK, DiscoveryInv, NEW n \in Nodes, stream_canceled(n)
  PROVE  DiscoveryInv'
<1> USE DEF etcdVars, taskVars
<1>1. /\ phase[n] = "maintenance" /\ phase'[n] = "reconnect" /\ events'[n] = <<>>
      /\ missed'[n] = missed[n] \cup { events[n][i].peer : i \in 1..Len(events[n]) }
      /\ \A m \in Nodes \ {n} : /\ phase'[m] = phase[m] /\ events'[m] = events[m]
                                /\ missed'[m] = missed[m] /\ stream'[m] = stream[m]
      /\ UNCHANGED <<registered, lease, known_peers, topology>>
  BY DEF TypeOK, stream_canceled
<1>2. LeaseOrder' /\ DeletesAreFinal' /\ FreshStart'
  BY <1>1 DEF DiscoveryInv, LeaseOrder, DeletesAreFinal, FreshStart
<1>3. FollowsStream'
  BY <1>1 DEF DiscoveryInv, FollowsStream, Converged, IsLatest, Queued
<1>4. KnowsItself' /\ MutualAwareness'
  BY <1>1 DEF DiscoveryInv, KnowsItself, MutualAwareness, Converged, TypeOK
<1>5. QED
  BY <1>1, <1>2, <1>3, <1>4 DEF DiscoveryInv

\* Steps in which one controller moves on and no key, queue or peer set changes.
LEMMA PhaseTracks ==
  ASSUME TypeOK, DiscoveryInv, NEW n \in Nodes,
         connect(n) \/ initialize(n) \/ grant_lease(n) \/ enter_maintenance(n) \/ stream_ends(n)
  PROVE  DiscoveryInv'
<1> USE DEF etcdVars, taskVars
<1>1. /\ UNCHANGED <<registered, known_peers, topology, events, missed>>
      /\ \A m \in Nodes \ {n} : phase'[m] = phase[m] /\ lease'[m] = lease[m] /\ stream'[m] = stream[m]
  BY DEF TypeOK, connect, initialize, grant_lease, enter_maintenance, stream_ends
<1>2. /\ Converged(n)' <=> Converged(n)
      /\ lease'[n] = lease[n] \/ (phase[n] = "lease" /\ lease'[n] = "live" /\ lease[n] = "none")
      /\ \/ phase'[n] = phase[n]
         \/ phase[n] = "connecting" /\ phase'[n] = "initialization"
         \/ phase[n] = "initialization" /\ phase'[n] = "lease"
         \/ phase[n] = "lease" /\ phase'[n] = "registration"
         \/ phase[n] \in {"watch", "reconnect"} /\ phase'[n] = "maintenance"
      /\ stream'[n] = stream[n] \/ phase'[n] = "maintenance"
  BY DEF TypeOK, connect, initialize, grant_lease, enter_maintenance, stream_ends, Converged,
         DiscoveryInv, LeaseOrder
<1>3. \A m \in Nodes : Converged(m)' <=> Converged(m)
  BY <1>1, <1>2 DEF Converged
<1>4. phase'[n] = "registration" \/ lease'[n] = lease[n]
  BY DEF TypeOK, connect, initialize, grant_lease, enter_maintenance, stream_ends
<1>5. LeaseOrder'
  BY <1>1, <1>2, <1>4 DEF DiscoveryInv, LeaseOrder
<1>6. DeletesAreFinal'
  <2>1. SUFFICES ASSUME NEW m \in Nodes, NEW i \in 1..Len(events[m]), events[m][i].type = "delete"
                 PROVE  lease'[events[m][i].peer] = "gone"
    BY <1>1 DEF DeletesAreFinal
  <2>2. lease[events[m][i].peer] = "gone"
    BY <2>1 DEF DiscoveryInv, DeletesAreFinal
  <2>3. events[m][i].peer \in Nodes
    <3>1. events[m][i] \in Event
      BY <2>1 DEF TypeOK
    <3>2. QED
      BY <3>1 DEF Event
  <2>4. QED
    BY <1>1, <1>2, <2>2, <2>3
<1>7. FreshStart'
  BY <1>1, <1>2 DEF DiscoveryInv, FreshStart
<1>8. FollowsStream'
  BY <1>1, <1>3 DEF DiscoveryInv, FollowsStream, IsLatest, Queued
<1>9. KnowsItself' /\ MutualAwareness'
  BY <1>1, <1>3 DEF DiscoveryInv, KnowsItself, MutualAwareness, TypeOK
<1>10. QED
  BY <1>1, <1>5, <1>6, <1>7, <1>8, <1>9 DEF DiscoveryInv

LEMMA LeaseTracks ==
  ASSUME TypeOK, DiscoveryInv, NEW n \in Nodes, lease_expires(n)
  PROVE  DiscoveryInv'
<1>1. CASE n \in registered
  <2>1. /\ lease[n] = "live" /\ lease' = [lease EXCEPT ![n] = "gone"] /\ registered' = registered \ {n}
        /\ Publish("delete", n) /\ UNCHANGED <<phase, known_peers, topology, stream>>
    BY <1>1 DEF lease_expires, LeaseEnds
  <2>2. \A m \in Nodes :
          \/ /\ stream[m] = "open"
             /\ events'[m] = Append(events[m], [type |-> "delete", peer |-> n])
             /\ missed'[m] = missed[m] \ {n}
          \/ /\ stream[m] # "open"
             /\ events'[m] = events[m] /\ missed'[m] = missed[m] \cup {n}
    BY <2>1 DEF Publish
  <2>3. QED
    BY <2>1, <2>2, DepartureTracks
<1>2. CASE n \notin registered
  <2>1. /\ lease[n] = "live" /\ UNCHANGED <<registered, phase, known_peers, topology, stream, events, missed>>
        /\ lease'[n] = "gone" /\ \A m \in Nodes \ {n} : lease'[m] = lease[m]
    BY <1>2 DEF TypeOK, lease_expires, LeaseEnds
  <2>2. LeaseOrder'
    BY <1>2, <2>1 DEF DiscoveryInv, LeaseOrder
  <2>3. DeletesAreFinal'
    <3>1. \A m \in Nodes : \A i \in 1..Len(events[m]) : events[m][i] \in Event
      BY DEF TypeOK
    <3>2. \A m \in Nodes : \A i \in 1..Len(events[m]) : events[m][i].peer \in Nodes
      BY <3>1 DEF Event
    <3>3. QED
      BY <2>1, <3>2 DEF DiscoveryInv, DeletesAreFinal
  <2>4. FreshStart' /\ FollowsStream' /\ KnowsItself' /\ MutualAwareness'
    BY <2>1 DEF DiscoveryInv, FreshStart, FollowsStream, KnowsItself, MutualAwareness, Converged, IsLatest, Queued
  <2>5. QED
    BY <2>1, <2>2, <2>3, <2>4 DEF DiscoveryInv
<1>3. QED
  BY <1>1, <1>2

LEMMA ShutdownTracks ==
  ASSUME TypeOK, DiscoveryInv, NEW n \in Nodes, shutdown(n)
  PROVE  DiscoveryInv'
<1>1. CASE Revoked(n)
  <2>1. /\ lease[n] = "live" /\ lease' = [lease EXCEPT ![n] = "gone"] /\ registered' = registered \ {n}
        /\ UNCHANGED <<known_peers, topology>>
    BY <1>1 DEF shutdown, Revoked
  <2>2. phase'[n] = "returned" /\ events'[n] = <<>>
    BY <1>1 DEF TypeOK, shutdown, Revoked
  <2>3. \A m \in Nodes \ {n} :
          /\ phase'[m] = phase[m] /\ stream'[m] = stream[m]
          /\ \/ /\ stream[m] = "open"
                /\ events'[m] = Append(events[m], [type |-> "delete", peer |-> n])
                /\ missed'[m] = missed[m] \ {n}
             \/ /\ stream[m] # "open"
                /\ events'[m] = events[m] /\ missed'[m] = missed[m] \cup {n}
    BY <1>1 DEF TypeOK, shutdown, Revoked
  <2>4. QED
    BY <2>1, <2>2, <2>3, DepartureTracks
<1>2. CASE events' = [events EXCEPT ![n] = <<>>] /\ UNCHANGED <<registered, lease, missed>>
  BY <1>2, LeavingTracks DEF shutdown
<1>3. QED
  BY <1>1, <1>2 DEF shutdown

(* The invariant is inductive relative to the types.  Its heart is that a    *)
(* DELETE in a queue is never stale: a peer id is registered under one lease *)
(* in its life, so whoever forgets a peer forgets it rightly, while a PUT or *)
(* DELETE that falls between two streams is the only way to be wrong.        *)
THEOREM DiscoveryInductive == Spec => []DiscoveryInv
<1>1. ASSUME TypeOK, DiscoveryInv, NEW n \in Nodes, ControllerNext(n) PROVE DiscoveryInv'
  <2>1. CASE put_peer(n) /\ lease[n] # "live"
    <3>1. /\ stream[n] = "none" /\ events[n] = <<>>
          /\ phase' = [phase EXCEPT ![n] = "returned"]
          /\ UNCHANGED <<registered, lease, known_peers, topology, stream, events, missed>>
      BY <1>1, <2>1 DEF put_peer, DiscoveryInv, FreshStart
    <3>2. stream' = [stream EXCEPT ![n] = "none"] /\ events' = [events EXCEPT ![n] = <<>>]
      BY <1>1, <3>1 DEF TypeOK
    <3>3. QED
      BY <1>1, <3>1, <3>2, LeavingTracks
  <2>2. QED
    BY <1>1, <2>1, PhaseTracks, RegistrationTracks, ConvergeTracks, WatchTracks, ShutdownTracks
       DEF ControllerNext
<1>2. ASSUME TypeOK, DiscoveryInv, NEW n \in Nodes, EnvironmentNext(n) PROVE DiscoveryInv'
  <2>1. CASE run_fails(n) \/ process_exits(n)
    BY <1>2, <2>1, LeavingTracks DEF run_fails, process_exits, etcdVars
  <2>2. CASE keepalive_fails(n) \/ signal(n)
    BY <1>2, <2>2, DiscoveryFrame DEF keepalive_fails, signal, etcdVars, discoveryVars
  <2>3. QED
    BY <1>2, <2>1, <2>2, LeaseTracks, CancelTracks, PhaseTracks DEF EnvironmentNext
<1>3. ASSUME TypeOK, DiscoveryInv, [Next]_vars PROVE DiscoveryInv'
  <2>1. CASE UNCHANGED vars
    BY <1>3, <2>1, DiscoveryFrame DEF vars, discoveryVars
  <2>2. QED
    BY <1>1, <1>2, <1>3, <2>1 DEF Next
<1>4. QED
  BY <1>3, InitTracks, TypeCorrect, PTL DEF Spec

(* TopologyTracksEtcd: whatever fails or is cut off, a converged controller  *)
(* has told sharding of a peer what etcd holds, unless an event of that peer *)
(* is still queued or was lost for want of an open stream.                   *)
THEOREM Tracking == Spec => []TopologyTracksEtcd
<1>1. ASSUME DiscoveryInv PROVE TopologyTracksEtcd
  <2>1. \A n \in Nodes : Converged(n) =>
          \A p \in Nodes \ {n} : Informed(n, p) => (p \in topology[n] <=> p \in registered)
    BY <1>1 DEF DiscoveryInv, FollowsStream, Informed
  <2>2. \A n \in Nodes : n \in registered => n \in topology[n]
    BY <1>1 DEF DiscoveryInv, KnowsItself
  <2>3. QED
    BY <2>1, <2>2 DEF TopologyTracksEtcd
<1>2. QED
  BY <1>1, DiscoveryInductive, PTL

(* MutualAwareness: of any two registered, converged nodes at least one has  *)
(* the other in its peer set, because each registers before it reads.        *)
THEOREM Awareness == Spec => []MutualAwareness
<1>1. DiscoveryInv => MutualAwareness
  BY DEF DiscoveryInv
<1>2. QED
  BY <1>1, DiscoveryInductive, PTL
=============================================================================
