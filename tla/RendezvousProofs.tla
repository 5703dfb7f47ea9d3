--------------------------- MODULE RendezvousProofs ---------------------------
(***************************************************************************)
(* Lemmas about the rendezvous hasher, for every finite set of peers, every*)
(* order of their texts and every hash: what rebuild and lookup return.    *)
(***************************************************************************)
EXTENDS Rendezvous, FiniteSetTheorems, TLAPS

USE PeersAssumption, RankAssumption

\* How many peers of S have a text up to that of p.
UpTo(S, p)     == { q \in S : Rank[q] <= Rank[p] }
Position(S, p) == Cardinality(UpTo(S, p))

\* A vector of S names each of its peers exactly once.
LEMMA VectorOf ==
  ASSUME NEW S \in SUBSET Peers, NEW ns \in SetToSeqs(S)
  PROVE  /\ IsFiniteSet(S) /\ Cardinality(S) \in Nat
         /\ ns \in Seq(S) /\ Len(ns) = Cardinality(S) /\ DOMAIN ns = 1..Len(ns)
         /\ ns \in Bijection(1..Len(ns), S)
         /\ ToSet(ns) = S
<1>1. IsFiniteSet(S) /\ Cardinality(S) \in Nat
  BY FS_Subset, FS_CardinalityType
<1>2. ns \in [1..Cardinality(S) -> S] /\ \A i, j \in 1..Cardinality(S) : i # j => ns[i] # ns[j]
  BY DEF SetToSeqs
<1>3. ns \in Seq(S) /\ Len(ns) = Cardinality(S) /\ DOMAIN ns = 1..Len(ns)
  BY <1>1, <1>2
<1>4. ns \in Injection(1..Len(ns), S)
  BY <1>2, <1>3 DEF Injection, IsInjective
<1>5. Cardinality(1..Len(ns)) = Cardinality(S)
  BY <1>1, <1>3, FS_Interval
<1>6. ns \in Surjection(1..Len(ns), S)
  BY <1>1, <1>4, <1>5, FS_Injection
<1>7. ToSet(ns) = S
  BY <1>2, <1>3, <1>6 DEF ToSet, Surjection
<1>8. QED
  BY <1>1, <1>3, <1>4, <1>6, <1>7 DEF Bijection

LEMMA Positions ==
  ASSUME NEW S \in SUBSET Peers, NEW p \in S
  PROVE  /\ Position(S, p) \in 1..Cardinality(S)
         /\ \A q \in S : Rank[p] < Rank[q] => Position(S, p) < Position(S, q)
<1>1. IsFiniteSet(S) /\ Cardinality(S) \in Nat
  BY FS_Subset, FS_CardinalityType
<1>2. ASSUME NEW q \in S
      PROVE  UpTo(S, q) \in SUBSET S /\ IsFiniteSet(UpTo(S, q)) /\ Position(S, q) \in Nat /\ Position(S, q) <= Cardinality(S)
  <2>1. UpTo(S, q) \in SUBSET S
    BY DEF UpTo
  <2>2. QED
    BY <1>1, <2>1, FS_Subset, FS_CardinalityType DEF Position
<1>3. Position(S, p) # 0
  <2>1. p \in UpTo(S, p)
    BY DEF UpTo
  <2>2. QED
    BY <1>2, <2>1, FS_EmptySet DEF Position
<1>4. ASSUME NEW q \in S, Rank[p] < Rank[q] PROVE Position(S, p) < Position(S, q)
  <2>1. UpTo(S, p) \in SUBSET UpTo(S, q) /\ q \in UpTo(S, q) /\ q \notin UpTo(S, p)
    BY <1>4 DEF UpTo
  <2>2. Position(S, p) <= Position(S, q) /\ Position(S, p) # Position(S, q)
    BY <1>2, <2>1, FS_Subset DEF Position
  <2>3. QED
    BY <1>2, <2>2
<1>5. QED
  BY <1>2, <1>3, <1>4

\* Every set of peers can be sorted by text.
LEMMA Sortable ==
  ASSUME NEW S \in SUBSET Peers
  PROVE  \E ns \in SetToSeqs(S) : InOrder(ns)
<1> DEFINE n == Cardinality(S)
           at == [p \in S |-> Position(S, p)]
           ns == [i \in 1..n |-> CHOOSE p \in S : at[p] = i]
<1>1. IsFiniteSet(S) /\ n \in Nat /\ IsFiniteSet(1..n) /\ Cardinality(1..n) = n
  <2>1. IsFiniteSet(S) /\ n \in Nat
    BY FS_Subset, FS_CardinalityType
  <2> HIDE DEF n
  <2>2. IsFiniteSet(1..n) /\ Cardinality(1..n) = n
    BY <2>1, FS_Interval
  <2>3. QED
    BY <2>1, <2>2
<1>2. at \in [S -> 1..n] /\ \A p, q \in S : Rank[p] < Rank[q] => at[p] < at[q]
  BY Positions
<1> HIDE DEF n, at
<1>3. at \in Injection(S, 1..n)
  <2>1. ASSUME NEW p \in S, NEW q \in S, at[p] = at[q] PROVE p = q
    <3>1. at[p] \in Int /\ ~(at[p] < at[q]) /\ ~(at[q] < at[p])
      BY <1>1, <1>2, <2>1
    <3>2. Rank[p] = Rank[q]
      BY <1>2, <3>1
    <3>3. QED
      BY <3>2
  <2>2. QED
    BY <1>2, <2>1 DEF Injection, IsInjective
<1>4. at \in Surjection(S, 1..n)
  <2>1. Cardinality(S) = Cardinality(1..n)
    BY <1>1 DEF n
  <2>2. QED
    BY <1>1, <1>3, <2>1, FS_Injection
<1>5. \A i \in 1..n : ns[i] \in S /\ at[ns[i]] = i
  BY <1>4 DEF Surjection
<1>6. ns \in [1..n -> S] /\ DOMAIN ns = 1..n
  BY <1>5
<1> HIDE DEF ns
<1>7. ns \in SetToSeqs(S)
  BY <1>5, <1>6 DEF SetToSeqs, n
<1>8. Len(ns) = n
  BY <1>1, <1>6
<1>9. ASSUME NEW i \in 1..n, NEW j \in 1..n, i < j PROVE Rank[ns[i]] < Rank[ns[j]]
  <2>1. Rank[ns[i]] \in Nat /\ Rank[ns[j]] \in Nat /\ ns[i] # ns[j]
    BY <1>1, <1>5, <1>9
  <2>2. Rank[ns[i]] # Rank[ns[j]]
    BY <1>5, <1>9, <2>1
  <2>3. ~(Rank[ns[j]] < Rank[ns[i]])
    BY <1>1, <1>2, <1>5, <1>9
  <2>4. QED
    BY <2>1, <2>2, <2>3
<1>10. InOrder(ns)
  BY <1>8, <1>9 DEF InOrder
<1>11. QED
  BY <1>7, <1>10

\* SetToSeq(S) is one of the vectors of S.
LEMMA SomeVector ==
  ASSUME NEW S \in SUBSET Peers
  PROVE  SetToSeq(S) \in SetToSeqs(S)
<1>1. PICK ns \in SetToSeqs(S) : InOrder(ns)
  BY Sortable
<1>2. ns \in [1..Cardinality(S) -> S] /\ IsInjective(ns)
  BY <1>1 DEF SetToSeqs, IsInjective
<1>3. SetToSeq(S) \in [1..Cardinality(S) -> S] /\ IsInjective(SetToSeq(S))
  BY <1>2 DEF SetToSeq
<1>4. QED
  BY <1>3 DEF SetToSeqs, IsInjective

(* rebuild turns any vector of S into the vector of S in order of the texts: *)
(* "sorted for determinism" (rendezvous.rs:18), in whatever order the hash   *)
(* set was iterated.                                                         *)
THEOREM RebuildSorts ==
  ASSUME NEW S \in SUBSET Peers, NEW vec \in SetToSeqs(S)
  PROVE  /\ rebuild(vec) \in NodeVectors /\ rebuild(vec) \in SetToSeqs(S)
         /\ InOrder(rebuild(vec)) /\ ToSet(rebuild(vec)) = S
<1>1. ToSet(vec) = S
  BY VectorOf
<1>2. rebuild(vec) \in SetToSeqs(S) /\ InOrder(rebuild(vec))
  BY <1>1, Sortable DEF rebuild
<1>3. QED
  BY <1>2, VectorOf DEF NodeVectors

-----------------------------------------------------------------------------
(* Lookup.                                                                   *)

\* q goes before p when they compete with the scores f: higher score, then
\* higher text.  The winner of S is the peer nothing goes before.
Before(f, q, p) == f[p] < f[q] \/ (f[p] = f[q] /\ Rank[p] < Rank[q])
Winner(f, p, S) == p \in S /\ \A q \in S : f[q] < f[p] \/ (f[q] = f[p] /\ Rank[q] <= Rank[p])

LEMMA OneWinner ==
  ASSUME NEW S \in SUBSET Peers, NEW f \in [Peers -> Nat], NEW p, NEW q, Winner(f, p, S), Winner(f, q, S)
  PROVE  p = q
<1>1. p \in Peers /\ q \in Peers /\ f[p] \in Nat /\ f[q] \in Nat /\ Rank[p] \in Nat /\ Rank[q] \in Nat
  BY DEF Winner
<1>2. Rank[p] = Rank[q]
  BY <1>1 DEF Winner
<1>3. QED
  BY <1>1, <1>2

\* A peer that wins among more peers wins among fewer.
LEMMA WinsAmongFewer ==
  ASSUME NEW S, NEW T \in SUBSET S, NEW f, NEW p \in T, Winner(f, p, S)
  PROVE  Winner(f, p, T)
  BY DEF Winner

\* Some peer wins: one with the fewest peers before it.
LEMMA SomeWinner ==
  ASSUME NEW S \in SUBSET Peers, S # {}, NEW f \in [Peers -> Nat]
  PROVE  \E p \in S : Winner(f, p, S)
<1> DEFINE Ahead(p) == { q \in S : Before(f, q, p) }
           T == { Ahead(p) : p \in S }
<1>1. IsFiniteSet(S)
  BY FS_Subset
<1>2. IsWellFoundedOn(StrictSubsetOrdering(S), SUBSET S)
  BY <1>1, FS_StrictSubsetOrderingWellFounded, FS_FiniteSubsetsOfFinite
<1>3. T \subseteq SUBSET S /\ T # {}
  <2>1. PICK p \in S : TRUE
    OBVIOUS
  <2>2. Ahead(p) \in T
    BY <2>1
  <2>3. \A q \in S : Ahead(q) \in SUBSET S
    OBVIOUS
  <2> HIDE DEF Ahead
  <2>4. QED
    BY <2>2, <2>3
<1>4. PICK x \in T : \A y \in T : <<y, x>> \notin StrictSubsetOrdering(S)
  <2> HIDE DEF T
  <2>1. QED
    BY <1>2, <1>3, WFMin
<1>5. PICK p \in S : x = Ahead(p)
  BY <1>4
<1>6. ASSUME NEW q \in S, Before(f, q, p) PROVE FALSE
  <2>1. Ahead(q) \in T /\ Ahead(q) \in SUBSET S /\ Ahead(p) \in SUBSET S
    OBVIOUS
  <2>2. \A r \in S : Before(f, r, q) => Before(f, r, p)
    BY <1>6 DEF Before
  <2>3. Ahead(q) \subseteq Ahead(p) /\ q \in Ahead(p) /\ q \notin Ahead(q)
    BY <1>6, <2>2 DEF Before
  <2> HIDE DEF Ahead
  <2>4. <<Ahead(q), Ahead(p)>> \in StrictSubsetOrdering(S)
    BY <2>1, <2>3 DEF StrictSubsetOrdering
  <2>5. QED
    BY <1>4, <1>5, <2>1, <2>4
<1>7. Winner(f, p, S)
  BY <1>6 DEF Winner, Before
<1>8. QED
  BY <1>7

(* lookup returns the peer with the highest score among the nodes of the     *)
(* hasher, the highest text among equal scores, and None exactly without     *)
(* nodes: the last maximum of max_by_key is the one a set determines.        *)
THEOREM LookupWins ==
  ASSUME NEW score \in [Machines -> [Peers -> Nat]], NEW key \in Machines, NEW ns \in NodeVectors
  PROVE  IF ToSet(ns) = {} THEN lookup(score, ns, key) = NoPeer
                           ELSE Winner(score[key], lookup(score, ns, key), ToSet(ns))
<1> DEFINE f == score[key]
<1>1. PICK S \in SUBSET Peers : ns \in SetToSeqs(S)
  BY DEF NodeVectors
<1>2. /\ ToSet(ns) = S /\ Len(ns) \in Nat /\ InOrder(ns) /\ f \in [Peers -> Nat]
      /\ \A i \in 1..Len(ns) : ns[i] \in S
      /\ \A p \in S : \E i \in 1..Len(ns) : ns[i] = p
      /\ S = {} <=> Len(ns) = 0
  <2>1. ns \in Bijection(1..Len(ns), S) /\ IsFiniteSet(S) /\ Len(ns) = Cardinality(S) /\ ToSet(ns) = S /\ Len(ns) \in Nat
    BY <1>1, VectorOf
  <2>2. \A i \in 1..Len(ns) : ns[i] \in S
    BY <2>1 DEF Bijection, Injection
  <2>3. \A p \in S : \E i \in 1..Len(ns) : ns[i] = p
    BY <2>1 DEF Bijection, Surjection
  <2>4. S = {} <=> Len(ns) = 0
    BY <2>1, FS_EmptySet
  <2>5. QED
    BY <2>1, <2>2, <2>3, <2>4 DEF NodeVectors
<1>3. CASE S = {}
  BY <1>2, <1>3 DEF lookup
<1>4. CASE S # {}
  <2>1. ASSUME NEW i \in 1..Len(ns), NEW j \in 1..Len(ns) PROVE j <= i <=> Rank[ns[j]] <= Rank[ns[i]]
    <3>1. Rank[ns[i]] \in Nat /\ Rank[ns[j]] \in Nat
      BY <1>2
    <3>2. i < j => Rank[ns[i]] < Rank[ns[j]]
      BY <1>2 DEF InOrder
    <3>3. j < i => Rank[ns[j]] < Rank[ns[i]]
      BY <1>2 DEF InOrder
    <3>4. QED
      BY <1>2, <3>1, <3>2, <3>3
  <2>2. ASSUME NEW i \in 1..Len(ns) PROVE IsLastMax(score, ns, key, i) <=> Winner(f, ns[i], S)
    BY <1>2, <2>1 DEF IsLastMax, Winner
  <2>3. \E i \in 1..Len(ns) : IsLastMax(score, ns, key, i)
    <3>1. PICK p \in S : Winner(f, p, S)
      BY <1>2, <1>4, SomeWinner
    <3>2. QED
      BY <1>2, <2>2, <3>1
  <2>4. \E i \in 1..Len(ns) : IsLastMax(score, ns, key, i) /\ lookup(score, ns, key) = ns[i]
    BY <1>2, <1>4, <2>3 DEF lookup
  <2>5. QED
    BY <1>2, <1>4, <2>2, <2>4
<1>5. QED
  BY <1>3, <1>4
=============================================================================
