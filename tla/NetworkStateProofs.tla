-------------------------- MODULE NetworkStateProofs --------------------------
(***************************************************************************)
(* Theorems about NetworkState for every set of peers, every configuration *)
(* of thresholds and backoff, and every bound.                             *)
(***************************************************************************)
EXTENDS NetworkState, TLAPS

USE PeersAssumption, ConfigAssumption, MaxConnectionsAssumption

\* What of MaxAgeAssumption the types need.
LEMMA AgesFacts == MaxAge \in Nat /\ 0 \in Ages /\ None \notin Ages /\ None # 0
  BY MaxAgeAssumption DEF Ages

LEMMA OlderFacts ==
  /\ \A age \in Ages : Older(age) \in Ages
  /\ Older(None) = None
  /\ \A age \in Ages \cup {None} : Older(age) \in Ages \cup {None} /\ (Older(age) = None <=> age = None)
<1>1. ASSUME NEW age \in Ages PROVE Older(age) \in Ages
  <2>1. age \in Nat /\ age <= MaxAge /\ MaxAge \in Nat
    BY AgesFacts DEF Ages
  <2>2. CASE age = MaxAge
    BY <2>2 DEF Older
  <2>3. CASE age # MaxAge
    BY <2>1, <2>3, AgesFacts DEF Older, Ages
  <2>4. QED
    BY <2>2, <2>3
<1>2. Older(None) = None
  BY DEF Older
<1>3. QED
  BY <1>1, <1>2, AgesFacts

LEMMA NewTyped == new \in PeerConnectionState
  BY AgesFacts DEF new, PeerConnectionState, Status

\* The methods of PeerConnectionState yield entries.
LEMMA MarksTyped ==
  ASSUME NEW s \in PeerConnectionState
  PROVE  /\ mark_connected(s) \in PeerConnectionState
         /\ mark_disconnected(s) \in PeerConnectionState
         /\ mark_failure(s) \in PeerConnectionState
         /\ mark_success(s) \in PeerConnectionState
         /\ Aged(s) \in PeerConnectionState
<1> USE DEF PeerConnectionState, Status
<1>1. mark_connected(s) \in PeerConnectionState /\ mark_success(s) \in PeerConnectionState
  BY NewTyped DEF mark_connected, mark_success
<1>2. mark_disconnected(s) \in PeerConnectionState
  BY AgesFacts DEF mark_disconnected
<1>3. mark_failure(s) \in PeerConnectionState
  <2>1. s.consecutive_failures + 1 \in Nat
    OBVIOUS
  <2>2. QED
    BY <2>1, AgesFacts DEF mark_failure
<1>4. Aged(s) \in PeerConnectionState
  BY OlderFacts DEF Aged
<1>5. QED
  BY <1>1, <1>2, <1>3, <1>4

LEMMA InitTyped == Init => TypeOK
<1>1. <<>> \in Seq(Command)
  OBVIOUS
<1>2. QED
  BY <1>1, NewTyped DEF Init, TypeOK

LEMMA QueuedPeer == ASSUME TypeOK, NEW i \in 1..Len(commands) PROVE commands[i].peer \in Peers
<1>1. commands[i] \in Command
  BY DEF TypeOK
<1>2. QED
  BY <1>1 DEF Command

\* The command the event loop takes, and what is left.
LEMMA CommandFacts ==
  ASSUME TypeOK, commands # <<>>
  PROVE  /\ Head(commands) \in Command /\ Tail(commands) \in Seq(Command)
         /\ Head(commands).peer \in Peers
         /\ Len(commands) \in Nat \ {0} /\ Len(Tail(commands)) = Len(commands) - 1
         /\ Head(commands) = commands[1]
         /\ \A i \in 1..Len(Tail(commands)) : Tail(commands)[i] = commands[i + 1]
<1>1. commands \in Seq(Command)
  BY DEF TypeOK
<1>2. Head(commands) \in Command /\ Tail(commands) \in Seq(Command)
  BY <1>1
<1>3. Head(commands).peer \in Peers
  BY <1>2 DEF Command
<1>4. QED
  BY <1>1, <1>2, <1>3

\* An entry changes by a method.
LEMMA MarkTyped ==
  ASSUME TypeOK, NEW p \in Peers, NEW s \in PeerConnectionState, Mark(p, s)
  PROVE  peer' \in [Peers -> PeerConnectionState]
  BY DEF TypeOK, Mark

\* Peers leave the map with their entries reset.
LEMMA ForgetTyped ==
  ASSUME TypeOK, NEW ps, Forget(ps)
  PROVE  peer' \in [Peers -> PeerConnectionState] /\ tracked' \in SUBSET Peers
  BY NewTyped DEF TypeOK, Forget

LEMMA NextTyped == ASSUME TypeOK, Next PROVE TypeOK'
<1> USE DEF discoveryVars, swarmVars, pingVars
<1>1. CASE tick
  <2>1. peer' \in [Peers -> PeerConnectionState]
    BY <1>1, MarksTyped DEF tick, TypeOK
  <2>2. QED
    BY <1>1, <2>1 DEF tick, TypeOK
<1>2. CASE cleanup_stale_peers
  <2>1. peer' \in [Peers -> PeerConnectionState] /\ tracked' \in SUBSET Peers
    BY <1>2, ForgetTyped DEF cleanup_stale_peers
  <2>2. QED
    BY <1>2, <2>1 DEF cleanup_stale_peers, TypeOK
<1>3. CASE AddPeer
  <2>1. commands' \in Seq(Command) /\ Head(commands).peer \in Peers
    BY <1>3, CommandFacts DEF AddPeer
  <2>2. peer' \in [Peers -> PeerConnectionState] /\ tracked' \in SUBSET Peers
    <3> DEFINE p == Head(commands).peer
    <3>1. CASE p \in Addressable \ tracked
      <4>1. tracked' = tracked \cup {p} /\ peer' = [peer EXCEPT ![p] = new]
        BY <1>3, <3>1 DEF AddPeer
      <4>2. QED
        BY <2>1, <4>1, NewTyped DEF TypeOK
    <3>2. CASE p \notin Addressable \ tracked
      BY <1>3, <3>2 DEF AddPeer, TypeOK
    <3>3. QED
      BY <3>1, <3>2
  <2>3. QED
    BY <1>3, <2>1, <2>2 DEF AddPeer, TypeOK
<1>4. CASE RemovePeer
  <2>1. commands' \in Seq(Command)
    BY <1>4, CommandFacts DEF RemovePeer
  <2>2. peer' \in [Peers -> PeerConnectionState] /\ tracked' \in SUBSET Peers
    BY <1>4, ForgetTyped DEF RemovePeer
  <2>3. QED
    BY <1>4, <2>1, <2>2 DEF RemovePeer, TypeOK
<1>5. CASE ping_round
  BY <1>5 DEF ping_round, TypeOK
<1>6. CASE ping_answered \/ ping_failed
  <2>1. ping \in Peers /\ mark_success(peer[ping]) \in PeerConnectionState
                       /\ mark_failure(peer[ping]) \in PeerConnectionState
    BY <1>6, MarksTyped DEF ping_answered, ping_failed, TypeOK
  <2>2. peer' \in [Peers -> PeerConnectionState]
    BY <1>6, <2>1, MarkTyped DEF ping_answered, ping_failed
  <2>3. QED
    BY <1>6, <2>2 DEF ping_answered, ping_failed, TypeOK
<1>7. ASSUME NEW p \in Peers, ping_peer(p) PROVE TypeOK'
  BY <1>7 DEF ping_peer, TypeOK
<1>8. ASSUME NEW p \in Peers, send_add_peer(p) \/ send_remove_peer(p) PROVE TypeOK'
  <2>1. \A c \in {"AddPeer", "RemovePeer"} : Append(commands, [cmd |-> c, peer |-> p]) \in Seq(Command)
    BY DEF TypeOK, Command
  <2>2. commands' \in Seq(Command)
    BY <1>8, <2>1 DEF send_add_peer, send_remove_peer
  <2>3. QED
    BY <1>8, <2>2 DEF send_add_peer, send_remove_peer, TypeOK
<1>9. ASSUME NEW p \in Peers, ConnectionEstablished(p) \/ ConnectionClosed(p) PROVE TypeOK'
  <2>1. mark_connected(peer[p]) \in PeerConnectionState /\ mark_disconnected(peer[p]) \in PeerConnectionState
    BY MarksTyped DEF TypeOK
  <2>2. peer' \in [Peers -> PeerConnectionState]
    BY <1>9, <2>1, MarkTyped DEF ConnectionEstablished, ConnectionClosed
  <2>3. connections' \in [Peers -> Nat] /\ opened' \in [Peers -> Nat]
    <3>1. CASE ConnectionEstablished(p)
      BY <3>1 DEF ConnectionEstablished, TypeOK
    <3>2. CASE ConnectionClosed(p)
      <4>1. connections[p] \in Nat /\ connections[p] > 0
        BY <3>2 DEF ConnectionClosed, TypeOK
      <4>2. connections[p] - 1 \in Nat
        BY <4>1
      <4>3. QED
        BY <3>2, <4>2 DEF ConnectionClosed, TypeOK
    <3>3. QED
      BY <1>9, <3>1, <3>2
  <2>4. QED
    BY <1>9, <2>2, <2>3 DEF ConnectionEstablished, ConnectionClosed, TypeOK
<1>10. QED
  BY <1>1, <1>2, <1>3, <1>4, <1>5, <1>6, <1>7, <1>8, <1>9 DEF Next, EventLoop, PingLoop

(* TypeOK holds in every reachable state: no count of failures or open       *)
(* connections runs below zero, whatever order events and pings come in.     *)
THEOREM TypeCorrect == Spec => []TypeOK
<1>1. ASSUME TypeOK, [Next]_vars PROVE TypeOK'
  <2>1. CASE UNCHANGED vars
    BY <1>1, <2>1 DEF TypeOK, vars
  <2>2. QED
    BY <1>1, <2>1, NextTyped
<1>2. QED
  BY <1>1, InitTyped, PTL DEF Spec

-----------------------------------------------------------------------------
(* Peer health.                                                              *)

\* The account of one entry: FailureAccount says Sound of every tracked peer.
Sound(s) ==
  /\ s.consecutive_failures = 0 <=> s.last_failure = None
  /\ s.status = "Connected" => s.consecutive_failures = 0
  /\ s.status = "Failed" => s.consecutive_failures >= max_failures

LEMMA AccountIsSound == FailureAccount <=> \A p \in tracked : Sound(peer[p])
  BY DEF FailureAccount, Sound

\* Every method keeps the account; mark_success only of a peer that has not
\* failed, since it clears the count and keeps the status.
LEMMA MarksSound ==
  ASSUME NEW s \in PeerConnectionState, Sound(s)
  PROVE  /\ Sound(mark_connected(s)) /\ mark_connected(s).status # "Failed"
         /\ Sound(mark_disconnected(s)) /\ mark_disconnected(s).status # "Failed"
         /\ Sound(mark_failure(s))
         /\ s.status # "Failed" => Sound(mark_success(s))
         /\ Sound(Aged(s))
<1> USE DEF Sound, PeerConnectionState, Status
<1>1. Sound(mark_connected(s)) /\ mark_connected(s).status # "Failed"
  BY DEF mark_connected, new
<1>2. Sound(mark_disconnected(s)) /\ mark_disconnected(s).status # "Failed"
  BY DEF mark_disconnected
<1>3. Sound(mark_failure(s))
  <2>1. s.consecutive_failures + 1 \in Nat \ {0} /\ None # 0
    BY AgesFacts
  <2>2. QED
    BY <2>1 DEF mark_failure
<1>4. ASSUME s.status # "Failed" PROVE Sound(mark_success(s))
  BY <1>4 DEF mark_success, new
<1>5. Sound(Aged(s))
  BY OlderFacts DEF Aged
<1>6. QED
  BY <1>1, <1>2, <1>3, <1>4, <1>5

LEMMA NewIsSound == Sound(new) /\ new.status # "Failed"
  BY DEF Sound, new

\* One entry changes, to a sound one.
LEMMA MarkKeeps ==
  ASSUME TypeOK, FailureAccount, NEW p \in Peers, NEW s \in PeerConnectionState,
         p \in tracked => Sound(s), Mark(p, s), UNCHANGED tracked
  PROVE  FailureAccount'
<1>1. \A q \in tracked' : Sound(peer'[q])
  BY AccountIsSound DEF Mark, TypeOK
<1>2. QED
  BY <1>1 DEF FailureAccount, Sound

\* Peers leave: what is left is as it was.
LEMMA ForgetKeeps ==
  ASSUME TypeOK, HealthInv, NEW ps, Forget(ps), UNCHANGED ping
  PROVE  HealthInv'
<1>1. \A q \in tracked' : q \in tracked /\ peer'[q] = peer[q]
  BY DEF Forget, TypeOK
<1>2. QED
  BY <1>1 DEF HealthInv, FailureAccount, NoPingToFailed

LEMMA HealthKept == ASSUME TypeOK, HealthInv, Next PROVE HealthInv'
<1> USE DEF discoveryVars, swarmVars, pingVars
<1>1. CASE tick
  <2>1. \A p \in tracked : /\ peer[p] \in PeerConnectionState /\ Sound(peer[p])
                           /\ peer'[p] = Aged(peer[p])
    BY <1>1, AccountIsSound DEF tick, TypeOK, HealthInv
  <2>2. \A p \in tracked : Sound(peer'[p]) /\ peer'[p].status = peer[p].status
    <3>1. ASSUME NEW p \in tracked PROVE Sound(peer'[p])
      BY <2>1, MarksSound
    <3>2. ASSUME NEW p \in tracked PROVE peer'[p].status = peer[p].status
      BY <2>1 DEF PeerConnectionState, Aged
    <3>3. QED
      BY <3>1, <3>2
  <2>3. tracked' = tracked /\ ping' = ping
    BY <1>1 DEF tick
  <2>4. FailureAccount'
    BY <2>2, <2>3 DEF FailureAccount, Sound
  <2>5. QED
    BY <2>2, <2>3, <2>4 DEF HealthInv, NoPingToFailed
<1>2. CASE cleanup_stale_peers
  BY <1>2, ForgetKeeps DEF cleanup_stale_peers
<1>3. CASE AddPeer
  <2> DEFINE p == Head(commands).peer
  <2>1. p \in Peers
    BY <1>3, CommandFacts DEF AddPeer
  <2>2. CASE p \in Addressable \ tracked
    <3>1. tracked' = tracked \cup {p} /\ peer' = [peer EXCEPT ![p] = new] /\ ping' = ping
      BY <1>3, <2>2 DEF AddPeer
    <3>2. peer'[p] = new /\ \A q \in tracked : peer'[q] = peer[q]
      BY <2>1, <2>2, <3>1 DEF TypeOK
    <3>3. \A q \in tracked' : Sound(peer'[q])
      BY <3>1, <3>2, NewIsSound, AccountIsSound DEF HealthInv
    <3>4. FailureAccount'
      BY <3>3 DEF FailureAccount, Sound
    <3>5. NoPingToFailed'
      BY <3>1, <3>2, NewIsSound DEF HealthInv, NoPingToFailed
    <3>6. QED
      BY <3>4, <3>5 DEF HealthInv
  <2>3. CASE p \notin Addressable \ tracked
    BY <1>3, <2>3 DEF AddPeer, HealthInv, FailureAccount, NoPingToFailed
  <2>4. QED
    BY <2>2, <2>3
<1>4. CASE RemovePeer
  BY <1>4, ForgetKeeps DEF RemovePeer
<1>5. CASE ping_round
  BY <1>5 DEF ping_round, HealthInv, FailureAccount, NoPingToFailed
<1>6. CASE ping_answered \/ ping_failed
  <2>1. ping \in Peers /\ peer[ping] \in PeerConnectionState /\ ping' = None /\ tracked' = tracked
    BY <1>6 DEF ping_answered, ping_failed, TypeOK
  <2>2. ping \in tracked => Sound(peer[ping]) /\ peer[ping].status # "Failed"
    BY AccountIsSound DEF HealthInv, NoPingToFailed
  <2>3. ping \in tracked => Sound(mark_success(peer[ping])) /\ Sound(mark_failure(peer[ping]))
    BY <2>1, <2>2, MarksSound
  <2>4. mark_success(peer[ping]) \in PeerConnectionState /\ mark_failure(peer[ping]) \in PeerConnectionState
    BY <2>1, MarksTyped
  <2>5. FailureAccount'
    BY <1>6, <2>1, <2>3, <2>4, MarkKeeps DEF ping_answered, ping_failed, HealthInv
  <2>6. NoPingToFailed'
    BY <2>1 DEF NoPingToFailed, TypeOK
  <2>7. QED
    BY <2>5, <2>6 DEF HealthInv
<1>7. ASSUME NEW p \in Peers, ping_peer(p) PROVE HealthInv'
  <2>1. ~should_skip_ping(peer[p]) => peer[p].status # "Failed"
    BY Zenon DEF should_skip_ping
  <2>2. ping' # None => ping' = p /\ peer[p].status # "Failed"
    BY <1>7, <2>1 DEF ping_peer
  <2>3. None \notin tracked' /\ UNCHANGED <<tracked, peer>>
    BY <1>7 DEF ping_peer, TypeOK
  <2>4. QED
    BY <2>2, <2>3 DEF HealthInv, FailureAccount, NoPingToFailed
<1>8. ASSUME NEW p \in Peers, send_add_peer(p) \/ send_remove_peer(p) PROVE HealthInv'
  BY <1>8 DEF send_add_peer, send_remove_peer, HealthInv, FailureAccount, NoPingToFailed
<1>9. ASSUME NEW p \in Peers, NEW s \in PeerConnectionState, Mark(p, s), UNCHANGED <<tracked, ping>>,
             p \in tracked => Sound(s), s.status # "Failed"
      PROVE  HealthInv'
  <2>1. FailureAccount'
    BY <1>9, MarkKeeps DEF HealthInv
  <2>2. NoPingToFailed'
    BY <1>9 DEF Mark, TypeOK, HealthInv, NoPingToFailed
  <2>3. QED
    BY <2>1, <2>2 DEF HealthInv
<1>10. ASSUME NEW p \in Peers, ConnectionEstablished(p) \/ ConnectionClosed(p) PROVE HealthInv'
  <2>1. peer[p] \in PeerConnectionState
    BY DEF TypeOK
  <2>2. mark_connected(peer[p]) \in PeerConnectionState /\ mark_disconnected(peer[p]) \in PeerConnectionState
    BY <2>1, MarksTyped
  <2>3. mark_connected(peer[p]).status # "Failed" /\ mark_disconnected(peer[p]).status # "Failed"
    BY <2>1 DEF mark_connected, mark_disconnected, new, PeerConnectionState
  <2>4. p \in tracked => Sound(mark_connected(peer[p])) /\ Sound(mark_disconnected(peer[p]))
    BY <2>1, AccountIsSound, MarksSound DEF HealthInv
  <2>5. QED
    BY <1>9, <1>10, <2>2, <2>3, <2>4 DEF ConnectionEstablished, ConnectionClosed
<1>11. QED
  BY <1>1, <1>2, <1>3, <1>4, <1>5, <1>6, <1>7, <1>8, <1>10 DEF Next, EventLoop, PingLoop

(* HealthInv is inductive: the account of a failed peer stays right because  *)
(* no ping is in flight to it, and no ping is because only ping results make *)
(* a peer fail.                                                              *)
THEOREM HealthInductive == Spec => []HealthInv
<1>1. Init => HealthInv
  BY DEF Init, HealthInv, FailureAccount, NoPingToFailed
<1>2. ASSUME TypeOK, HealthInv, [Next]_vars PROVE HealthInv'
  <2>1. CASE UNCHANGED vars
    BY <1>2, <2>1 DEF vars, HealthInv, FailureAccount, NoPingToFailed
  <2>2. QED
    BY <1>2, <2>1, HealthKept
<1>3. QED
  BY <1>1, <1>2, TypeCorrect, PTL DEF Spec

(* FailureAccount: count, instant of the last failure and status of every    *)
(* tracked peer agree, so a backoff is never computed from a failure that is *)
(* not recorded, for every configuration.                                    *)
THEOREM Account == Spec => []FailureAccount
<1>1. HealthInv => FailureAccount
  BY DEF HealthInv
<1>2. QED
  BY <1>1, HealthInductive, PTL

(* NoPingToFailed: no answer is awaited from a tracked peer that has failed. *)
THEOREM PingsTheLiving == Spec => []NoPingToFailed
<1>1. HealthInv => NoPingToFailed
  BY DEF HealthInv
<1>2. QED
  BY <1>1, HealthInductive, PTL

-----------------------------------------------------------------------------
(* Discovery.                                                                *)

Removal(p) == [cmd |-> "RemovePeer", peer |-> p]

\* TracksDiscovery in the words of CommandsInOrder.
LEMMA TracksByRemoval ==
  ASSUME TypeOK
  PROVE  TracksDiscovery <=> \A p \in tracked : p \in announced /\ (p \in withdrawn => RemovalBehind(p, 0, commands))
  BY DEF TracksDiscovery, RemovalBehind, TypeOK

\* A command joins the queue: those behind a position stay there.
LEMMA AppendFacts ==
  ASSUME TypeOK, NEW c \in Command, commands' = Append(commands, c)
  PROVE  /\ Len(commands) \in Nat /\ Len(commands') = Len(commands) + 1
         /\ commands'[Len(commands) + 1] = c
         /\ \A i \in 1..Len(commands) : commands'[i] = commands[i]
         /\ \A p \in Peers, i \in Nat : RemovalBehind(p, i, commands) => RemovalBehind(p, i, commands')
<1>1. commands \in Seq(Command)
  BY DEF TypeOK
<1>2. /\ Len(commands) \in Nat /\ Len(commands') = Len(commands) + 1
      /\ commands'[Len(commands) + 1] = c
      /\ \A i \in 1..Len(commands) : commands'[i] = commands[i]
  BY <1>1
<1>3. QED
  BY <1>2 DEF RemovalBehind

\* The head is taken: a removal behind position i is now behind position i - 1,
\* and one behind the head is still queued.
LEMMA TailFacts ==
  ASSUME TypeOK, commands # <<>>, commands' = Tail(commands)
  PROVE  /\ \A i \in 1..Len(commands') : i \in Nat /\ i + 1 \in 1..Len(commands) /\ commands'[i] = commands[i + 1]
         /\ \A p \in Peers : \A i \in Nat : RemovalBehind(p, i + 1, commands) => RemovalBehind(p, i, commands')
         /\ \A p \in Peers : Head(commands) # Removal(p) /\ RemovalBehind(p, 0, commands) => RemovalBehind(p, 0, commands')
<1>1. /\ Len(commands) \in Nat \ {0} /\ Len(commands') = Len(commands) - 1
      /\ Head(commands) = commands[1]
      /\ \A i \in 1..Len(commands') : commands'[i] = commands[i + 1]
  BY CommandFacts
<1>2. \A j \in 1..Len(commands) : j > 1 => j - 1 \in 1..Len(commands') /\ commands'[j - 1] = commands[j]
  BY <1>1
<1>3. ASSUME NEW p \in Peers, NEW i \in Nat, RemovalBehind(p, i + 1, commands) PROVE RemovalBehind(p, i, commands')
  <2>1. PICK j \in 1..Len(commands) : i + 1 < j /\ commands[j] = Removal(p)
    BY <1>3 DEF RemovalBehind, Removal
  <2>2. j - 1 \in 1..Len(commands') /\ commands'[j - 1] = Removal(p) /\ i < j - 1
    BY <1>1, <1>2, <2>1
  <2>3. QED
    BY <2>2 DEF RemovalBehind, Removal
<1>4. ASSUME NEW p \in Peers, Head(commands) # Removal(p), RemovalBehind(p, 0, commands) PROVE RemovalBehind(p, 0, commands')
  <2>1. PICK j \in 1..Len(commands) : commands[j] = Removal(p)
    BY <1>4 DEF RemovalBehind, Removal
  <2>2. j # 1
    BY <1>1, <1>4, <2>1
  <2>3. j - 1 \in 1..Len(commands') /\ commands'[j - 1] = Removal(p) /\ 0 < j - 1
    BY <1>1, <1>2, <2>1, <2>2
  <2>4. QED
    BY <2>3 DEF RemovalBehind, Removal
<1>5. QED
  BY <1>1, <1>3, <1>4

\* Taking the head leaves the rest in order.
LEMMA TailInOrder ==
  ASSUME TypeOK, CommandsInOrder, commands # <<>>, commands' = Tail(commands), UNCHANGED <<announced, withdrawn>>
  PROVE  CommandsInOrder'
<1>1. ASSUME NEW i \in 1..Len(commands'), commands'[i].cmd = "AddPeer"
      PROVE  /\ commands'[i].peer \in announced'
             /\ commands'[i].peer \in withdrawn' => RemovalBehind(commands'[i].peer, i, commands')
  <2>1. i + 1 \in 1..Len(commands) /\ commands'[i] = commands[i + 1] /\ i \in Nat
    BY TailFacts
  <2>2. commands[i + 1].peer \in Peers
    BY <2>1, QueuedPeer
  <2>3. /\ commands[i + 1].peer \in announced
        /\ commands[i + 1].peer \in withdrawn => RemovalBehind(commands[i + 1].peer, i + 1, commands)
    BY <1>1, <2>1 DEF CommandsInOrder
  <2>4. QED
    BY <2>1, <2>2, <2>3, TailFacts
<1>2. QED
  BY <1>1 DEF CommandsInOrder

\* The steps that leave discovery alone track no new peer.
LEMMA OthersTrack ==
  ASSUME TypeOK, DiscoveryInv, UNCHANGED discoveryVars, tracked' \subseteq tracked
  PROVE  DiscoveryInv'
  BY DEF DiscoveryInv, TracksDiscovery, CommandsInOrder, RemovalBehind, discoveryVars

LEMMA DiscoveryKept == ASSUME TypeOK, DiscoveryInv, Next PROVE DiscoveryInv'
<1> USE DEF DiscoveryInv
<1>1. CASE tick \/ ping_round \/ ping_answered \/ ping_failed \/ cleanup_stale_peers
           \/ \E p \in Peers : ping_peer(p) \/ ConnectionEstablished(p) \/ ConnectionClosed(p)
  <2>1. UNCHANGED discoveryVars
    BY <1>1 DEF tick, ping_round, ping_answered, ping_failed, cleanup_stale_peers, ping_peer,
                ConnectionEstablished, ConnectionClosed
  <2>2. tracked' \subseteq tracked
    BY <1>1 DEF tick, ping_round, ping_answered, ping_failed, cleanup_stale_peers, ping_peer,
                ConnectionEstablished, ConnectionClosed, Forget
  <2>3. QED
    BY <2>1, <2>2, OthersTrack
<1>2. CASE AddPeer
  <2> DEFINE p == Head(commands).peer
  <2>1. /\ p \in Peers /\ Head(commands) = commands[1] /\ 1 \in 1..Len(commands)
        /\ commands # <<>> /\ commands' = Tail(commands) /\ UNCHANGED <<announced, withdrawn>>
        /\ Head(commands).cmd = "AddPeer"
    BY <1>2, CommandFacts DEF AddPeer
  <2>2. tracked' \subseteq tracked \cup {p}
    BY <1>2 DEF AddPeer
  <2>3. p \in announced /\ (p \in withdrawn => RemovalBehind(p, 1, commands))
    BY <2>1 DEF CommandsInOrder
  <2>4. \A q \in Peers : Head(commands) # Removal(q)
    BY <2>1 DEF Removal
  <2>5. p \in withdrawn => RemovalBehind(p, 0, commands')
    <3>1. RemovalBehind(p, 0 + 1, commands) => RemovalBehind(p, 0, commands')
      BY <2>1, TailFacts
    <3>2. QED
      BY <2>3, <3>1
  <2>6. ASSUME NEW q \in tracked' PROVE q \in announced' /\ (q \in withdrawn' => RemovalBehind(q, 0, commands'))
    <3>1. CASE q = p
      BY <2>1, <2>3, <2>5, <3>1
    <3>2. CASE q \in tracked
      BY <2>1, <2>4, <3>2, TailFacts, TracksByRemoval DEF TypeOK
    <3>3. QED
      BY <2>2, <2>6, <3>1, <3>2
  <2>7. CommandsInOrder'
    BY <2>1, TailInOrder
  <2>8. QED
    BY <2>6, <2>7 DEF TracksDiscovery, RemovalBehind
<1>3. CASE RemovePeer
  <2> DEFINE p == Head(commands).peer
  <2>1. /\ p \in Peers /\ commands # <<>> /\ commands' = Tail(commands) /\ UNCHANGED <<announced, withdrawn>>
        /\ tracked' = tracked \ {p}
    BY <1>3, CommandFacts DEF RemovePeer, Forget
  <2>2. ASSUME NEW q \in tracked' PROVE q \in announced' /\ (q \in withdrawn' => RemovalBehind(q, 0, commands'))
    <3>1. q \in tracked /\ q \in Peers /\ Head(commands) # Removal(q)
      BY <2>1, <2>2 DEF Removal, TypeOK
    <3>2. QED
      BY <2>1, <3>1, TailFacts, TracksByRemoval
  <2>3. CommandsInOrder'
    BY <2>1, TailInOrder
  <2>4. QED
    BY <2>2, <2>3 DEF TracksDiscovery, RemovalBehind
<1>4. ASSUME NEW p \in Peers, send_add_peer(p) PROVE DiscoveryInv'
  <2> DEFINE c == [cmd |-> "AddPeer", peer |-> p]
  <2>1. /\ c \in Command /\ commands' = Append(commands, c) /\ tracked' = tracked
        /\ announced' = announced \cup {p} /\ withdrawn' = withdrawn /\ p \notin withdrawn
    BY <1>4 DEF send_add_peer, Command
  <2>2. ASSUME NEW q \in tracked' PROVE q \in announced' /\ (q \in withdrawn' => RemovalBehind(q, 0, commands'))
    BY <2>1, AppendFacts, TracksByRemoval DEF TypeOK
  <2>3. ASSUME NEW i \in 1..Len(commands'), commands'[i].cmd = "AddPeer"
        PROVE  /\ commands'[i].peer \in announced'
               /\ commands'[i].peer \in withdrawn' => RemovalBehind(commands'[i].peer, i, commands')
    <3>1. CASE i \in 1..Len(commands)
      <4>1. commands'[i] = commands[i] /\ commands[i].peer \in Peers /\ i \in Nat
        BY <2>1, <3>1, AppendFacts, QueuedPeer
      <4>2. QED
        BY <2>1, <2>3, <3>1, <4>1, AppendFacts DEF CommandsInOrder
    <3>2. CASE i = Len(commands) + 1
      BY <2>1, <3>2, AppendFacts
    <3>3. QED
      BY <2>1, <3>1, <3>2, AppendFacts
  <2>4. QED
    BY <2>2, <2>3 DEF TracksDiscovery, CommandsInOrder, RemovalBehind
<1>5. ASSUME NEW p \in Peers, send_remove_peer(p) PROVE DiscoveryInv'
  <2>1. /\ Removal(p) \in Command /\ commands' = Append(commands, Removal(p)) /\ tracked' = tracked
        /\ announced' = announced /\ withdrawn' = withdrawn \cup {p}
    BY <1>5 DEF send_remove_peer, Command, Removal
  <2>2. \A i \in 0..Len(commands) : RemovalBehind(p, i, commands')
    <3>1. Len(commands) + 1 \in 1..Len(commands') /\ commands'[Len(commands) + 1] = Removal(p)
      BY <2>1, AppendFacts
    <3>2. QED
      BY <2>1, <3>1, AppendFacts DEF RemovalBehind, Removal
  <2>3. ASSUME NEW q \in tracked' PROVE q \in announced' /\ (q \in withdrawn' => RemovalBehind(q, 0, commands'))
    <3>1. CASE q = p
      BY <2>1, <2>2, <3>1, TracksByRemoval, AppendFacts DEF TypeOK
    <3>2. CASE q # p
      BY <2>1, <3>2, AppendFacts, TracksByRemoval DEF TypeOK
    <3>3. QED
      BY <3>1, <3>2
  <2>4. ASSUME NEW i \in 1..Len(commands'), commands'[i].cmd = "AddPeer"
        PROVE  /\ commands'[i].peer \in announced'
               /\ commands'[i].peer \in withdrawn' => RemovalBehind(commands'[i].peer, i, commands')
    <3>1. i \in 1..Len(commands) /\ i \in 0..Len(commands) /\ i \in Nat
      BY <2>1, <2>4, AppendFacts DEF Removal
    <3>2. commands'[i] = commands[i] /\ commands[i].peer \in Peers
      BY <2>1, <3>1, AppendFacts, QueuedPeer
    <3>3. commands[i].peer \in announced /\ (commands[i].peer \in withdrawn => RemovalBehind(commands[i].peer, i, commands))
      BY <2>4, <3>1, <3>2 DEF CommandsInOrder
    <3>4. CASE commands[i].peer = p
      BY <2>1, <2>2, <3>1, <3>2, <3>3, <3>4
    <3>5. CASE commands[i].peer # p
      BY <2>1, <3>1, <3>2, <3>3, <3>5, AppendFacts
    <3>6. QED
      BY <3>4, <3>5
  <2>5. QED
    BY <2>3, <2>4 DEF TracksDiscovery, CommandsInOrder, RemovalBehind
<1>6. QED
  BY <1>1, <1>2, <1>3, <1>4, <1>5 DEF Next, EventLoop, PingLoop

(* TracksDiscovery: for any number of peers and any interleaving of events,  *)
(* pings and cleanups, a tracked peer was announced, and one that discovery  *)
(* withdrew is tracked only while the command to remove it is queued.        *)
THEOREM Tracking == Spec => []TracksDiscovery
<1>1. Init => DiscoveryInv
  BY DEF Init, DiscoveryInv, TracksDiscovery, CommandsInOrder
<1>2. ASSUME TypeOK, DiscoveryInv, [Next]_vars PROVE DiscoveryInv'
  <2>1. CASE UNCHANGED vars
    BY <1>2, <2>1, OthersTrack DEF vars, discoveryVars
  <2>2. QED
    BY <1>2, <2>1, DiscoveryKept
<1>3. DiscoveryInv => TracksDiscovery
  BY DEF DiscoveryInv
<1>4. QED
  BY <1>1, <1>2, <1>3, TypeCorrect, PTL DEF Spec
=============================================================================
