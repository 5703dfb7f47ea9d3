------------------------------ MODULE Rendezvous ------------------------------
(***************************************************************************)
(* The rendezvous hasher of network/sharding/rendezvous.rs as operators.   *)
(*                                                                         *)
(* A PeerId is compared by its base58 text and scored, together with a     *)
(* machine id, by a 64-bit hash.  Neither text nor hash matters beyond the *)
(* order it induces, so the text is an injective rank and the hash is an   *)
(* arbitrary function  score[m][p].  Equal scores are possible (a hash     *)
(* collision) and are kept: the tie is where the order of the node vector  *)
(* decides.                                                                *)
(***************************************************************************)
EXTENDS Naturals, Sequences, FiniteSets, SequencesExt

CONSTANTS
  Peers,      \* libp2p peer ids
  Machines,   \* machine ids, the keys that are placed
  Rank,       \* Rank[p]: position of p.to_base58() in string order
  NoPeer      \* Option::None of an owner

ASSUME PeersAssumption == IsFiniteSet(Peers)

ASSUME RankAssumption ==
  /\ Rank \in [Peers -> Nat]
  /\ \A p, q \in Peers : Rank[p] = Rank[q] => p = q

ASSUME NoPeerAssumption == NoPeer \notin Peers

-----------------------------------------------------------------------------
\* The node vector a hasher may hold: strictly increasing base58 texts.
InOrder(ns) == \A i, j \in 1..Len(ns) : i < j => Rank[ns[i]] < Rank[ns[j]]
NodeVectors == { ns \in UNION { SetToSeqs(S) : S \in SUBSET Peers } : InOrder(ns) }

\* Mutant of rebuild: the vector is kept in the order it arrived.
rebuild_unsorted(vec) == vec

\* RendezvousHasher::new and ::rebuild sort by base58 text.  The input is the
\* iteration of a hash set: every peer once, in any order.
rebuild(vec) == CHOOSE ns \in SetToSeqs(ToSet(vec)) : InOrder(ns)

\* Iterator::max_by_key: the LAST of the positions whose score is maximal.
IsLastMax(score, ns, key, i) ==
  \A j \in 1..Len(ns) :
     \/ score[key][ns[j]] < score[key][ns[i]]
     \/ score[key][ns[j]] = score[key][ns[i]] /\ j <= i

\* Mutant of lookup: among equal scores the first node wins.
lookup_first(score, ns, key) ==
  IF Len(ns) = 0
    THEN NoPeer
    ELSE ns[CHOOSE i \in 1..Len(ns) :
              \A j \in 1..Len(ns) :
                 \/ score[key][ns[j]] < score[key][ns[i]]
                 \/ score[key][ns[j]] = score[key][ns[i]] /\ i <= j]

\* RendezvousHasher::lookup.
lookup(score, ns, key) ==
  IF Len(ns) = 0
    THEN NoPeer
    ELSE ns[CHOOSE i \in 1..Len(ns) : IsLastMax(score, ns, key, i)]

\* RendezvousHasher::is_local.
is_local(score, ns, key, local) == lookup(score, ns, key) = local
=============================================================================
