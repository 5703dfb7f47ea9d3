---------------------------- MODULE NetworkState ----------------------------
(***************************************************************************)
(* The peers a node tracks (network/types/state.rs) and the three tasks    *)
(* that change them: the swarm event loop with the commands discovery      *)
(* sends it, the ping loop and the cleanup loop.                           *)
(*                                                                         *)
(* Instants are kept as ages: how long ago, in ticks, up to MaxAge, past   *)
(* which no test of the code tells two ages apart.                         *)
(***************************************************************************)
EXTENDS Naturals, Sequences

CONSTANTS
  Peers,
  Addressable,         \* peers whose multiaddr has an IPv4 address and a TCP port
  Lookups,             \* what lookup_all("ping") may yield (external: the DHT)
  failure_threshold, max_failures, backoff_base, max_backoff_power,
  stale_peer_max_age,
  MaxAge,              \* bound: ages are told apart up to this one
  MaxConnections,      \* bound: connections opened to a peer
  None                 \* no ping in flight; no failure recorded

ASSUME PeersAssumption ==
  Addressable \subseteq Peers /\ Lookups \subseteq SUBSET Peers /\ None \notin Peers
ASSUME ConfigAssumption ==
  /\ failure_threshold \in Nat /\ max_failures \in Nat \ {0}
  /\ backoff_base \in Nat \ {0} /\ max_backoff_power \in Nat
  /\ stale_peer_max_age \in Nat
ASSUME MaxAgeAssumption ==
  MaxAge \in Nat /\ MaxAge > stale_peer_max_age /\ MaxAge >= backoff_base ^ max_backoff_power
  /\ None \notin 0..MaxAge
ASSUME MaxConnectionsAssumption == MaxConnections \in Nat

VARIABLES
  tracked,       \* the keys of NetworkState::peers
  peer,          \* the PeerConnectionState of each
  commands,      \* discovery_rx: DiscoveryCommands not yet handled
  announced,     \* peers discovery has sent AddPeer for
  withdrawn,     \* peers discovery has sent RemovePeer for
  connections,   \* open connections to each peer (libp2p keeps several)
  opened,        \* connections opened so far
  round,         \* peers this ping round has still to visit
  ping           \* the peer whose answer the ping loop awaits, or None

vars == <<tracked, peer, commands, announced, withdrawn, connections, opened, round, ping>>
pingVars == <<round, ping>>
discoveryVars == <<commands, announced, withdrawn>>
swarmVars == <<connections, opened>>

Ages == 0..MaxAge
Status == {"Connected", "Disconnected", "Failed"}
PeerConnectionState ==
  [status : Status, consecutive_failures : Nat, last_failure : Ages \cup {None}, last_seen : Ages]
Command == [cmd : {"AddPeer", "RemovePeer"}, peer : Peers]

\* PeerConnectionState::new.
new == [status |-> "Disconnected", consecutive_failures |-> 0, last_failure |-> None, last_seen |-> 0]

TypeOK ==
  /\ tracked \in SUBSET Peers
  /\ peer \in [Peers -> PeerConnectionState]
  /\ commands \in Seq(Command)
  /\ announced \in SUBSET Peers /\ withdrawn \in SUBSET Peers
  /\ connections \in [Peers -> Nat] /\ opened \in [Peers -> Nat]
  /\ round \in SUBSET Peers
  /\ ping \in Peers \cup {None}

Init ==
  /\ tracked = {} /\ peer = [p \in Peers |-> new]
  /\ commands = <<>> /\ announced = {} /\ withdrawn = {}
  /\ connections = [p \in Peers |-> 0] /\ opened = [p \in Peers |-> 0]
  /\ round = {} /\ ping = None

-----------------------------------------------------------------------------
(* Methods of PeerConnectionState.                                           *)

\* Mutant of should_skip_ping: a failed peer is tried again.
should_skip_ping_retries(s) ==
  /\ s.status # "Connected" /\ s.consecutive_failures > failure_threshold
  /\ s.last_failure = 0

\* Mutant of should_skip_ping: the backoff is a deadline that never passes.
should_skip_ping_forever(s) ==
  s.status = "Failed" \/ (s.status = "Disconnected" /\ s.consecutive_failures > failure_threshold)

\* The cap is on the power, so the wait never exceeds base ^ max_backoff_power.
Power(failures) == IF failures < max_backoff_power THEN failures ELSE max_backoff_power

should_skip_ping(s) ==
  \/ s.status = "Failed"
  \/ /\ s.status = "Disconnected" /\ s.consecutive_failures > failure_threshold
     /\ s.last_failure # None => s.last_failure < backoff_base ^ Power(s.consecutive_failures)

mark_connected(s) == [new EXCEPT !.status = "Connected"]

mark_disconnected(s) == [s EXCEPT !.status = "Disconnected", !.last_seen = 0]

\* Mutant of mark_failure: the count runs down.
mark_failure_down(s) ==
  [s EXCEPT !.status = "Disconnected", !.consecutive_failures = @ - 1, !.last_failure = 0, !.last_seen = 0]

\* Mutant of mark_failure: the status drops one failure early.
mark_failure_early(s) ==
  LET n == s.consecutive_failures + 1 IN
    [status |-> IF n + 1 >= max_failures THEN "Failed" ELSE "Disconnected",
     consecutive_failures |-> n, last_failure |-> 0, last_seen |-> 0]

mark_failure(s) ==
  LET n == s.consecutive_failures + 1 IN
    [status |-> IF n >= max_failures THEN "Failed" ELSE "Disconnected",
     consecutive_failures |-> n, last_failure |-> 0, last_seen |-> 0]

\* Mutant of mark_success: the account is cleared, the status is not.
mark_success_keeps_status(s) == [new EXCEPT !.status = s.status]

\* A failed peer stays failed.
mark_success(s) ==
  [new EXCEPT !.status = IF s.status = "Disconnected" THEN "Connected" ELSE s.status]

\* NetworkState::mark_*: nothing happens to a peer that is not tracked.
Mark(p, s) == peer' = IF p \in tracked THEN [peer EXCEPT ![p] = s] ELSE peer

\* Peers leave the map.
Forget(ps) ==
  /\ tracked' = tracked \ ps
  /\ peer' = [p \in Peers |-> IF p \in ps THEN new ELSE peer[p]]

-----------------------------------------------------------------------------
(* External: time, discovery and libp2p.                                     *)

Older(age) == IF age = None \/ age = MaxAge THEN age ELSE age + 1

Aged(s) == [s EXCEPT !.last_failure = Older(@), !.last_seen = Older(@)]

tick ==
  /\ peer' = [p \in Peers |-> IF p \in tracked THEN Aged(peer[p]) ELSE peer[p]]
  /\ peer' # peer
  /\ UNCHANGED <<tracked, discoveryVars, swarmVars, pingVars>>

\* Discovery learns of a peer id once, and of its departure once.
send_add_peer(p) ==
  /\ p \notin announced \cup withdrawn
  /\ announced' = announced \cup {p}
  /\ commands' = Append(commands, [cmd |-> "AddPeer", peer |-> p])
  /\ UNCHANGED <<tracked, peer, withdrawn, swarmVars, pingVars>>

send_remove_peer(p) ==
  /\ p \notin withdrawn
  /\ withdrawn' = withdrawn \cup {p}
  /\ commands' = Append(commands, [cmd |-> "RemovePeer", peer |-> p])
  /\ UNCHANGED <<tracked, peer, announced, swarmVars, pingVars>>

-----------------------------------------------------------------------------
(* The swarm event loop: one event or one command at a time.                 *)

\* Peers connect whether or not they are tracked (mDNS, incoming connections).
ConnectionEstablished(p) ==
  /\ opened[p] < MaxConnections
  /\ opened' = [opened EXCEPT ![p] = @ + 1]
  /\ connections' = [connections EXCEPT ![p] = @ + 1]
  /\ Mark(p, mark_connected(peer[p]))
  /\ UNCHANGED <<tracked, discoveryVars, pingVars>>

\* Any one of the peer's connections closes.
ConnectionClosed(p) ==
  /\ connections[p] > 0
  /\ connections' = [connections EXCEPT ![p] = @ - 1]
  /\ Mark(p, mark_disconnected(peer[p]))
  /\ UNCHANGED <<tracked, opened, discoveryVars, pingVars>>

\* add_peer keeps an entry that is there.
AddPeer ==
  /\ commands # <<>> /\ Head(commands).cmd = "AddPeer"
  /\ commands' = Tail(commands)
  /\ LET p == Head(commands).peer IN
       IF p \in Addressable \ tracked
         THEN /\ tracked' = tracked \cup {p}
              /\ peer' = [peer EXCEPT ![p] = new]
         ELSE UNCHANGED <<tracked, peer>>
  /\ UNCHANGED <<announced, withdrawn, swarmVars, pingVars>>

\* Mutant of RemovePeer: only a peer without connections is removed.
RemovePeer_idle ==
  /\ commands # <<>> /\ Head(commands).cmd = "RemovePeer"
  /\ commands' = Tail(commands)
  /\ IF connections[Head(commands).peer] = 0
       THEN Forget({Head(commands).peer})
       ELSE UNCHANGED <<tracked, peer>>
  /\ UNCHANGED <<announced, withdrawn, swarmVars, pingVars>>

RemovePeer ==
  /\ commands # <<>> /\ Head(commands).cmd = "RemovePeer"
  /\ commands' = Tail(commands)
  /\ Forget({Head(commands).peer})
  /\ UNCHANGED <<announced, withdrawn, swarmVars, pingVars>>

-----------------------------------------------------------------------------
(* The ping loop: one task, one ask at a time.                               *)

\* interval.tick() and lookup_all.
ping_round ==
  /\ round = {} /\ ping = None
  /\ round' \in Lookups
  /\ UNCHANGED <<tracked, peer, discoveryVars, swarmVars, ping>>

\* The next actor of the round: skipped, or asked.
ping_peer(p) ==
  /\ ping = None /\ p \in round
  /\ round' = round \ {p}
  /\ ping' = IF p \in tracked /\ ~should_skip_ping(peer[p]) THEN p ELSE None
  /\ UNCHANGED <<tracked, peer, discoveryVars, swarmVars>>

ping_answered ==
  /\ ping # None
  /\ ping' = None
  /\ Mark(ping, mark_success(peer[ping]))
  /\ UNCHANGED <<tracked, round, discoveryVars, swarmVars>>

\* The ask fails or times out.
ping_failed ==
  /\ ping # None
  /\ ping' = None
  /\ Mark(ping, mark_failure(peer[ping]))
  /\ UNCHANGED <<tracked, round, discoveryVars, swarmVars>>

-----------------------------------------------------------------------------
(* The cleanup loop.                                                         *)

Stale(p) == peer[p].status = "Failed" /\ peer[p].last_seen > stale_peer_max_age

cleanup_stale_peers ==
  LET stale == { p \in tracked : Stale(p) } IN
    /\ stale # {}
    /\ Forget(stale)
    /\ UNCHANGED <<discoveryVars, swarmVars, pingVars>>

-----------------------------------------------------------------------------
EventLoop == AddPeer \/ RemovePeer
PingLoop  == \/ ping_round
             \/ ping_answered
             \/ ping_failed
             \/ \E p \in Peers : ping_peer(p)

Next == \/ tick
        \/ cleanup_stale_peers
        \/ EventLoop
        \/ PingLoop
        \/ \E p \in Peers : \/ send_add_peer(p)
                            \/ send_remove_peer(p)
                            \/ ConnectionEstablished(p)
                            \/ ConnectionClosed(p)

Spec == Init /\ [][Next]_vars

\* Time passes and the three tasks run.  No peer ever has to come, go, connect
\* or disconnect.
Fairness == /\ WF_vars(tick)
            /\ WF_vars(cleanup_stale_peers)
            /\ WF_vars(EventLoop)
            /\ WF_vars(ping_round)
            /\ WF_vars(ping_answered \/ ping_failed)
            /\ \A p \in Peers : WF_vars(ping_peer(p))

FairSpec == Spec /\ Fairness

-----------------------------------------------------------------------------
(* Properties.                                                               *)

\* The failure count, the last failure and the status of a peer agree: a failed
\* peer has max_failures of them, a connected one none, and there is an instant
\* of the last failure exactly when there was one, so a backoff always ends.
\* Ping results are recorded long after the status was read, so this rests on
\* no ping being in flight to a failed peer.  (mark_*, should_skip_ping)
FailureAccount ==
  \A p \in tracked :
    /\ peer[p].consecutive_failures = 0 <=> peer[p].last_failure = None
    /\ peer[p].status = "Connected" => peer[p].consecutive_failures = 0
    /\ peer[p].status = "Failed" => peer[p].consecutive_failures >= max_failures

\* No answer is awaited from a tracked peer that has failed meanwhile: the ping
\* loop is the only one to record failures.  (spawn_ping_loop)
NoPingToFailed == ping \in tracked => peer[ping].status # "Failed"

\* Every tracked peer is one that discovery announced, and a peer it withdrew
\* is tracked only until the event loop has handled that command: no event,
\* ping result or cleanup in between brings it back.  (handle_discovery_command)
TracksDiscovery ==
  \A p \in tracked :
    /\ p \in announced
    /\ p \in withdrawn => \E i \in 1..Len(commands) : commands[i] = [cmd |-> "RemovePeer", peer |-> p]

\* The command that removes p is behind position i of a queue.
RemovalBehind(p, i, queue) ==
  \E j \in 1..Len(queue) : i < j /\ queue[j] = [cmd |-> "RemovePeer", peer |-> p]

\* A queued AddPeer is of an announced peer, and if the peer was withdrawn since
\* then the command to remove it comes later.
CommandsInOrder ==
  \A i \in 1..Len(commands) : commands[i].cmd = "AddPeer" =>
    /\ commands[i].peer \in announced
    /\ commands[i].peer \in withdrawn => RemovalBehind(commands[i].peer, i, commands)

\* The inductive invariants behind the three.
HealthInv    == FailureAccount /\ NoPingToFailed
DiscoveryInv == TracksDiscovery /\ CommandsInOrder

\* A tracked peer is not starved by its backoff: if lookups go on yielding it,
\* it is pinged again, fails for good, or is removed.  (should_skip_ping)
BackoffEnds ==
  \A p \in Peers :
    []<>(p \in round)
    => ((p \in tracked) ~> (ping = p \/ p \notin tracked \/ peer[p].status = "Failed"))

\* A failure recorded late, over a connection established anew while the ping
\* was awaited, marks a connected peer disconnected, but this does not stick:
\* once every ping to a peer is answered and none of its connections closes,
\* its status settles at connected unless it had failed for good, although no
\* further connection event ever reports it.  (mark_failure, mark_success,
\* should_skip_ping, spawn_ping_loop)
AnsweringIsConnected ==
  \A p \in Peers :
    ( /\ []<>(p \in round)
      /\ <>[][~(ping = p /\ ping_failed) /\ ~ConnectionClosed(p)]_vars )
    => <>[](p \in tracked => peer[p].status \in {"Connected", "Failed"})

\* A failed peer is either heard of again or removed.  (spawn_cleanup_loop)
FailedIsCleanedUp ==
  \A p \in Peers : (p \in tracked /\ peer[p].status = "Failed")
                   ~> (p \notin tracked \/ peer[p].status # "Failed")

=============================================================================
