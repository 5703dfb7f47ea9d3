------------------------- MODULE RestartTrackerProofs -------------------------
(***************************************************************************)
(* Proofs about the restart limiter, for every policy: any limit, window   *)
(* and backoff, zero included, and any word the factor saturates at.       *)
(***************************************************************************)
EXTENDS RestartTracker, FiniteSetTheorems, TLAPS

USE PolicyAssumption, BoundsAssumption

-----------------------------------------------------------------------------
(* Sequences of instants.                                                    *)

\* < is well-founded, as a relation.
LEMMA LessThan == \E R : IsWellFoundedOn(R, Nat) /\ \A a, b \in Nat : a < b => <<a, b>> \in R
<1>1. \A a, b \in Nat : a < b => <<a, b>> \in OpToRel(<, Nat)
  BY DEF OpToRel
<1>2. QED
  BY <1>1, NatLessThanWellFounded

LEMMA Least ==
  ASSUME NEW T, T \subseteq Nat, T # {} PROVE \E i \in T : \A j \in T : i <= j
<1>1. PICK R : IsWellFoundedOn(R, Nat) /\ \A a, b \in Nat : a < b => <<a, b>> \in R
  BY LessThan
<1>2. IsWellFoundedOn(R, Nat)
  BY <1>1
<1>3. \E i \in T : \A j \in T : ~(<<j, i>> \in R)
  BY <1>2, WFMin, Zenon
<1>4. PICK i \in T : \A j \in T : ~(<<j, i>> \in R)
  BY <1>3
<1>5. \A j \in T : ~(j < i)
  BY <1>1, <1>4
<1>6. QED
  BY <1>5

InOrder(times) == \A i, j \in 1..Len(times) : i <= j => times[i] <= times[j]

\* Of instants in order, those from c on are the last ones.
LEMMA SinceIsSuffix ==
  ASSUME NEW times \in Seq(Nat), InOrder(times), NEW c \in Int
  PROVE  \E d \in 0..Len(times) : Since(times, c) = (d + 1)..Len(times)
<1>1. CASE Since(times, c) = {}
  <2>1. Since(times, c) = (Len(times) + 1)..Len(times)
    BY <1>1
  <2>2. QED
    BY <2>1
<1>2. CASE Since(times, c) # {}
  <2>1. Since(times, c) \subseteq Nat
    BY DEF Since
  <2>2. PICK k \in Since(times, c) : \A j \in Since(times, c) : k <= j
    BY <1>2, <2>1, Least
  <2>3. k \in 1..Len(times) /\ times[k] >= c /\ Len(times) \in Nat
    BY <2>2 DEF Since
  <2>4. ASSUME NEW j \in 1..Len(times) PROVE j \in Since(times, c) <=> k <= j
    <3>1. times[j] \in Nat /\ times[k] \in Nat
      BY <2>3
    <3>2. k <= j => times[k] <= times[j]
      BY <2>3 DEF InOrder
    <3>3. QED
      BY <2>2, <2>3, <3>1, <3>2 DEF Since
  <2>5. Since(times, c) = ((k - 1) + 1)..Len(times)
    BY <2>3, <2>4 DEF Since
  <2>6. k - 1 \in 0..Len(times)
    BY <2>3
  <2>7. QED
    BY <2>5, <2>6
<1>3. QED
  BY <1>1, <1>2

\* What the loop of pop_front leaves: all instants but the first d, and as many
\* as the filter of is_exhausted counts.
LEMMA ExpireKeeps ==
  ASSUME now \in Nat, NEW times \in Seq(Nat), InOrder(times)
  PROVE  \E d \in 0..Len(times) :
           /\ Expire(times) \in Seq(Nat)
           /\ Len(Expire(times)) = Len(times) - d
           /\ \A i \in 1..(Len(times) - d) : Expire(times)[i] = times[d + i]
           /\ \A i \in 1..d : times[i] < cutoff
           /\ \A i \in (d + 1)..Len(times) : times[i] >= cutoff
           /\ Cardinality(Since(times, cutoff)) = Len(times) - d
<1>1. cutoff \in Int /\ Len(times) \in Nat
  BY DEF cutoff
<1>2. PICK d \in 0..Len(times) : Since(times, cutoff) = (d + 1)..Len(times)
  BY <1>1, SinceIsSuffix
<1>3. \A i \in 1..d : times[i] < cutoff
  <2>1. ASSUME NEW i \in 1..d PROVE times[i] < cutoff
    <3>1. i \in 1..Len(times) /\ times[i] \in Nat /\ i \notin Since(times, cutoff)
      BY <1>1, <1>2
    <3>2. QED
      BY <1>1, <3>1 DEF Since
  <2>2. QED
    BY <2>1
<1>4. Cardinality(Since(times, cutoff)) = Len(times) - d
  <2>1. Cardinality((d + 1)..Len(times)) = Len(times) - d
    <3>1. d + 1 \in Int /\ Len(times) \in Int
      BY <1>1
    <3>2. Cardinality((d + 1)..Len(times)) = IF d + 1 > Len(times) THEN 0 ELSE Len(times) - (d + 1) + 1
      BY <3>1, FS_Interval
    <3>3. QED
      BY <1>1, <3>2
  <2>2. QED
    BY <1>2, <2>1
<1>5. \A i \in (d + 1)..Len(times) : times[i] >= cutoff
  BY <1>2 DEF Since
<1>6. CASE d = Len(times)
  <2>1. Since(times, cutoff) = {}
    BY <1>1, <1>2, <1>6
  <2>2. Expire(times) = <<>>
    BY <2>1 DEF Expire
  <2>3. QED
    BY <1>1, <1>3, <1>4, <1>5, <1>6, <2>2
<1>7. CASE d # Len(times)
  <2>1. d + 1 \in Since(times, cutoff) /\ \A j \in Since(times, cutoff) : d + 1 <= j
    BY <1>1, <1>2, <1>7
  <2>2. ASSUME NEW k \in Since(times, cutoff), \A j \in Since(times, cutoff) : k <= j PROVE k = d + 1
    BY <1>1, <1>2, <2>1, <2>2
  <2>3. Expire(times) = SubSeq(times, d + 1, Len(times))
    BY <2>1, <2>2 DEF Expire
  <2>4. /\ Expire(times) \in Seq(Nat) /\ Len(Expire(times)) = Len(times) - d
        /\ \A i \in 1..(Len(times) - d) : Expire(times)[i] = times[d + i]
    BY <1>1, <1>7, <2>3
  <2>5. QED
    BY <1>3, <1>4, <1>5, <2>4
<1>8. QED
  BY <1>6, <1>7

-----------------------------------------------------------------------------
(* The powers of two below u32::MAX: a table does what an induction would.   *)

\* x is the n-th power of two, for n up to 31.
Power(n, x) ==
  /\ (n = 0 => x = 1) /\ (n = 1 => x = 2) /\ (n = 2 => x = 4) /\ (n = 3 => x = 8)
  /\ (n = 4 => x = 16) /\ (n = 5 => x = 32) /\ (n = 6 => x = 64) /\ (n = 7 => x = 128)
  /\ (n = 8 => x = 256) /\ (n = 9 => x = 512) /\ (n = 10 => x = 1024) /\ (n = 11 => x = 2048)
  /\ (n = 12 => x = 4096) /\ (n = 13 => x = 8192) /\ (n = 14 => x = 16384) /\ (n = 15 => x = 32768)
  /\ (n = 16 => x = 65536) /\ (n = 17 => x = 131072) /\ (n = 18 => x = 262144) /\ (n = 19 => x = 524288)
  /\ (n = 20 => x = 1048576) /\ (n = 21 => x = 2097152) /\ (n = 22 => x = 4194304) /\ (n = 23 => x = 8388608)
  /\ (n = 24 => x = 16777216) /\ (n = 25 => x = 33554432) /\ (n = 26 => x = 67108864) /\ (n = 27 => x = 134217728)
  /\ (n = 28 => x = 268435456) /\ (n = 29 => x = 536870912) /\ (n = 30 => x = 1073741824) /\ (n = 31 => x = 2147483648)

LEMMA PowerTable == ASSUME NEW n PROVE Power(n, 2 ^ n)
<1>0. ASSUME n = 0 PROVE 2 ^ n = 1 BY <1>0
<1>1. ASSUME n = 1 PROVE 2 ^ n = 2 BY <1>1
<1>2. ASSUME n = 2 PROVE 2 ^ n = 4 BY <1>2
<1>3. ASSUME n = 3 PROVE 2 ^ n = 8 BY <1>3
<1>4. ASSUME n = 4 PROVE 2 ^ n = 16 BY <1>4
<1>5. ASSUME n = 5 PROVE 2 ^ n = 32 BY <1>5
<1>6. ASSUME n = 6 PROVE 2 ^ n = 64 BY <1>6
<1>7. ASSUME n = 7 PROVE 2 ^ n = 128 BY <1>7
<1>8. ASSUME n = 8 PROVE 2 ^ n = 256 BY <1>8
<1>9. ASSUME n = 9 PROVE 2 ^ n = 512 BY <1>9
<1>10. ASSUME n = 10 PROVE 2 ^ n = 1024 BY <1>10
<1>11. ASSUME n = 11 PROVE 2 ^ n = 2048 BY <1>11
<1>12. ASSUME n = 12 PROVE 2 ^ n = 4096 BY <1>12
<1>13. ASSUME n = 13 PROVE 2 ^ n = 8192 BY <1>13
<1>14. ASSUME n = 14 PROVE 2 ^ n = 16384 BY <1>14
<1>15. ASSUME n = 15 PROVE 2 ^ n = 32768 BY <1>15
<1>16. ASSUME n = 16 PROVE 2 ^ n = 65536 BY <1>16
<1>17. ASSUME n = 17 PROVE 2 ^ n = 131072 BY <1>17
<1>18. ASSUME n = 18 PROVE 2 ^ n = 262144 BY <1>18
<1>19. ASSUME n = 19 PROVE 2 ^ n = 524288 BY <1>19
<1>20. ASSUME n = 20 PROVE 2 ^ n = 1048576 BY <1>20
<1>21. ASSUME n = 21 PROVE 2 ^ n = 2097152 BY <1>21
<1>22. ASSUME n = 22 PROVE 2 ^ n = 4194304 BY <1>22
<1>23. ASSUME n = 23 PROVE 2 ^ n = 8388608 BY <1>23
<1>24. ASSUME n = 24 PROVE 2 ^ n = 16777216 BY <1>24
<1>25. ASSUME n = 25 PROVE 2 ^ n = 33554432 BY <1>25
<1>26. ASSUME n = 26 PROVE 2 ^ n = 67108864 BY <1>26
<1>27. ASSUME n = 27 PROVE 2 ^ n = 134217728 BY <1>27
<1>28. ASSUME n = 28 PROVE 2 ^ n = 268435456 BY <1>28
<1>29. ASSUME n = 29 PROVE 2 ^ n = 536870912 BY <1>29
<1>30. ASSUME n = 30 PROVE 2 ^ n = 1073741824 BY <1>30
<1>31. ASSUME n = 31 PROVE 2 ^ n = 2147483648 BY <1>31
<1>32. QED
  BY <1>0, <1>1, <1>2, <1>3, <1>4, <1>5, <1>6, <1>7, <1>8, <1>9, <1>10, <1>11, <1>12, <1>13, <1>14, <1>15,
     <1>16, <1>17, <1>18, <1>19, <1>20, <1>21, <1>22, <1>23, <1>24, <1>25, <1>26, <1>27, <1>28, <1>29, <1>30, <1>31
  DEF Power

LEMMA PowerDoubles ==
  ASSUME NEW n \in 0..31, NEW x, Power(n, x)
  PROVE  x \in Nat /\ \A k, y : n < 31 /\ k = n + 1 /\ Power(k, y) => y = 2 * x
<1>1. x \in Nat
  BY DEF Power
<1>2. ASSUME n < 31, NEW k, k = n + 1, NEW y, Power(k, y) PROVE y = 2 * x
  BY <1>2 DEF Power
<1>3. QED
  BY <1>1, <1>2

LEMMA Saturates ==
  ASSUME NEW n \in Nat
  PROVE  saturating_pow(n) \in Nat /\ saturating_pow(n) <= saturating_pow(n + 1)
<1>1. PICK x, y : x = 2 ^ n /\ y = 2 ^ (n + 1)
  OBVIOUS
<1>2. n < 32 => x \in Nat
  <2>1. Power(n, x)
    BY <1>1, PowerTable
  <2>2. n < 32 => n \in 0..31
    OBVIOUS
  <2>3. QED
    BY <2>1, <2>2, PowerDoubles
<1>3. n < 31 => y = 2 * x
  <2>1. PICK k : k = n + 1
    OBVIOUS
  <2>2. Power(n, x) /\ Power(k, y)
    BY <1>1, <2>1, PowerTable
  <2>3. QED
    BY <2>1, <2>2, PowerDoubles
<1>4. /\ saturating_pow(n) = IF n < 32 /\ x <= Word THEN x ELSE Word
      /\ saturating_pow(n + 1) = IF n + 1 < 32 /\ y <= Word THEN y ELSE Word
  BY <1>1 DEF saturating_pow
<1>5. QED
  BY <1>2, <1>3, <1>4

\* The wait is a duration of at most max_backoff and grows with the restarts.
LEMMA Backoff ==
  ASSUME NEW n \in Nat
  PROVE  /\ calculate_backoff(n) \in Nat /\ calculate_backoff(n) <= max_backoff
         /\ n > 0 => calculate_backoff(n) <= calculate_backoff(n + 1)
<1>1. PICK k \in Nat : k = IF n = 0 THEN 0 ELSE n - 1
  OBVIOUS
<1>2. PICK a \in Nat, b \in Nat : a = saturating_pow(k) /\ b = saturating_pow(k + 1) /\ a <= b
  BY Saturates
<1>3. backoff * a \in Nat /\ backoff * b \in Nat /\ backoff * a <= backoff * b
  <2>1. PICK c \in Nat : b = a + c
    <3>1. b - a \in Nat /\ b = a + (b - a)
      BY <1>2
    <3>2. QED
      BY <3>1
  <2>2. backoff * b = backoff * a + backoff * c
    BY <2>1
  <2>3. backoff * a \in Nat /\ backoff * c \in Nat
    OBVIOUS
  <2>4. QED
    BY <2>2, <2>3
<1>4. calculate_backoff(n) = IF backoff * a < max_backoff THEN backoff * a ELSE max_backoff
  BY <1>1, <1>2 DEF calculate_backoff
<1>5. n > 0 => calculate_backoff(n + 1) = IF backoff * b < max_backoff THEN backoff * b ELSE max_backoff
  <2>1. n > 0 => k + 1 = n /\ n + 1 # 0 /\ (n + 1) - 1 = n
    BY <1>1
  <2>2. QED
    BY <1>2, <2>1 DEF calculate_backoff
<1>6. QED
  BY <1>3, <1>4, <1>5

-----------------------------------------------------------------------------
(* The invariant.                                                            *)

\* What the tracker keeps is in order, as all it ever allowed is.
LEMMA TimesInOrder == ASSUME TypeOK, WindowInv PROVE InOrder(restart_times)
<1>1. Len(allowed) \in Nat /\ Len(restart_times) \in Nat /\ Dropped \in Nat
  BY DEF TypeOK, WindowInv, KeepsTheLatest, Dropped
<1>2. ASSUME NEW i \in 1..Len(restart_times), NEW j \in 1..Len(restart_times), i <= j
      PROVE  restart_times[i] <= restart_times[j]
  <2>1. /\ Dropped + i \in 1..Len(allowed) /\ Dropped + j \in 1..Len(allowed) /\ Dropped + i <= Dropped + j
    BY <1>1, <1>2 DEF Dropped
  <2>2. restart_times[i] = allowed[Dropped + i] /\ restart_times[j] = allowed[Dropped + j]
    BY DEF WindowInv, KeepsTheLatest
  <2>3. QED
    BY <2>1, <2>2 DEF WindowInv, InTime
<1>3. QED
  BY <1>2 DEF InOrder

\* The window at the moment of a restart: the latest of the restarts allowed,
\* exactly those from the cutoff on.
LEMMA Window ==
  ASSUME TypeOK, WindowInv
  PROVE  LET times == Expire(restart_times)
             gone  == Len(allowed) - Len(times)
         IN  /\ times \in Seq(Nat) /\ Len(times) \in 0..max_restarts /\ gone \in 0..Len(allowed)
             /\ \A i \in 1..Len(times) : times[i] = allowed[gone + i]
             /\ \A i \in 1..gone : allowed[i] < cutoff
             /\ \A i \in (gone + 1)..Len(allowed) : allowed[i] >= cutoff
             /\ Cardinality(Since(restart_times, cutoff)) = Len(times)
<1> DEFINE times == Expire(restart_times)
           gone  == Len(allowed) - Len(times)
<1>1. /\ now \in Nat /\ restart_times \in Seq(Nat) /\ Len(restart_times) \in Nat
      /\ Len(restart_times) <= max_restarts /\ Len(allowed) \in Nat
  BY DEF TypeOK
<1>2. PICK d \in 0..Len(restart_times) :
        /\ times \in Seq(Nat) /\ Len(times) = Len(restart_times) - d
        /\ \A i \in 1..(Len(restart_times) - d) : times[i] = restart_times[d + i]
        /\ \A i \in 1..d : restart_times[i] < cutoff
        /\ \A i \in (d + 1)..Len(restart_times) : restart_times[i] >= cutoff
        /\ Cardinality(Since(restart_times, cutoff)) = Len(restart_times) - d
  BY <1>1, TimesInOrder, ExpireKeeps
<1>3. Dropped \in Nat /\ Dropped = Len(allowed) - Len(restart_times) /\ gone = Dropped + d
  BY <1>1, <1>2 DEF WindowInv, KeepsTheLatest, Dropped
<1>4. /\ \A i \in 1..Len(restart_times) : restart_times[i] = allowed[Dropped + i]
      /\ \A i \in 1..Dropped : allowed[i] < cutoff
  BY DEF WindowInv, KeepsTheLatest
<1>5. ASSUME NEW i \in 1..Len(times) PROVE times[i] = allowed[gone + i]
  <2>1. d + i \in 1..Len(restart_times) /\ times[i] = restart_times[d + i]
    BY <1>1, <1>2
  <2>2. Dropped + (d + i) = gone + i
    BY <1>1, <1>2, <1>3
  <2>3. QED
    BY <1>4, <2>1, <2>2
<1>6. ASSUME NEW i \in 1..gone PROVE allowed[i] < cutoff
  <2>1. CASE i <= Dropped
    BY <1>3, <1>4, <2>1
  <2>2. CASE i > Dropped
    <3>1. i - Dropped \in 1..d /\ i - Dropped \in 1..Len(restart_times) /\ Dropped + (i - Dropped) = i
      BY <1>1, <1>2, <1>3, <2>2
    <3>2. QED
      BY <1>2, <1>4, <3>1
  <2>3. QED
    BY <1>3, <2>1, <2>2
<1>7. Len(times) \in 0..max_restarts /\ gone \in 0..Len(allowed)
  BY <1>1, <1>2, <1>3
<1>8. ASSUME NEW i \in (gone + 1)..Len(allowed) PROVE allowed[i] >= cutoff
  <2>1. /\ i - Dropped \in (d + 1)..Len(restart_times) /\ i - Dropped \in 1..Len(restart_times)
        /\ Dropped + (i - Dropped) = i
    BY <1>1, <1>2, <1>3
  <2>2. QED
    BY <1>2, <1>4, <2>1
<1>9. QED
  BY <1>2, <1>5, <1>6, <1>7, <1>8

\* An allowed restart is told a wait, never Denied.
LEMMA Waits ==
  ASSUME TypeOK
  PROVE  calculate_backoff(consecutive_restarts + 1) \in Nat /\ calculate_backoff(consecutive_restarts + 1) # Denied
<1>1. consecutive_restarts + 1 \in Nat
  BY DEF TypeOK
<1>2. calculate_backoff(consecutive_restarts + 1) \in Nat
  BY <1>1, Backoff
<1>3. QED
  BY <1>2 DEF Denied

LEMMA StepTyped ==
  ASSUME TypeOK, WindowInv, [Next]_vars PROVE TypeOK'
<1>1. CASE record_restart
  <2> DEFINE times == Expire(restart_times)
  <2>1. times \in Seq(Nat) /\ Len(times) \in 0..max_restarts
    BY Window
  <2>2. calculate_backoff(consecutive_restarts + 1) \in Nat
    BY Waits
  <2>3. CASE answer' = Denied /\ restart_times' = times /\ UNCHANGED <<now, consecutive_restarts, allowed>>
    <3> HIDE DEF times
    <3>1. QED
      BY <2>1, <2>3 DEF TypeOK
  <2>4. CASE /\ Len(times) < max_restarts /\ restart_times' = Append(times, now)
             /\ consecutive_restarts' = consecutive_restarts + 1
             /\ answer' = calculate_backoff(consecutive_restarts + 1)
             /\ allowed' = Append(allowed, now) /\ now' = now
    <3> HIDE DEF times
    <3>1. QED
      BY <2>1, <2>2, <2>4 DEF TypeOK
  <2>5. QED
    BY <1>1, <2>3, <2>4 DEF record_restart
<1>2. CASE reset \/ tick \/ UNCHANGED vars
  BY <1>2 DEF reset, tick, vars, TypeOK
<1>3. QED
  BY <1>1, <1>2 DEF Next

\* A restart is allowed: it is the latest, and the one max_restarts before it is
\* out of the window.
LEMMA AllowedKeeps ==
  ASSUME TypeOK, WindowInv, Len(Expire(restart_times)) < max_restarts,
         restart_times' = Append(Expire(restart_times), now), allowed' = Append(allowed, now), now' = now
  PROVE  WindowInv'
<1> DEFINE times == Expire(restart_times)
           n == Len(allowed)
           gone == n - Len(times)
<1>1. /\ times \in Seq(Nat) /\ Len(times) \in Nat /\ gone \in 0..n
      /\ \A i \in 1..Len(times) : times[i] = allowed[gone + i]
      /\ \A i \in 1..gone : allowed[i] < cutoff
  BY Window
<1>2. now \in Nat /\ allowed \in Seq(Nat) /\ n \in Nat /\ cutoff' = cutoff /\ cutoff = now - window
  BY DEF TypeOK, cutoff
<1>3. /\ Len(allowed') = n + 1 /\ \A i \in 1..(n + 1) : allowed'[i] = IF i = n + 1 THEN now ELSE allowed[i]
      /\ Len(restart_times') = Len(times) + 1
      /\ \A i \in 1..(Len(times) + 1) : restart_times'[i] = IF i = Len(times) + 1 THEN now ELSE times[i]
  BY <1>1, <1>2
<1>4. \A i \in 1..n : allowed[i] \in Nat
  BY <1>2
<1> HIDE DEF times, n
<1>5. InTime'
  <2>1. /\ \A i, j \in 1..n : i <= j => allowed[i] <= allowed[j]
        /\ \A i \in 1..n : allowed[i] <= now
    BY DEF WindowInv, InTime, n
  <2>2. QED
    BY <1>2, <1>3, <2>1 DEF InTime
<1>6. KeepsTheLatest'
  <2>1. Dropped' = gone
    BY <1>1, <1>2, <1>3 DEF Dropped
  <2>2. ASSUME NEW i \in 1..(Len(times) + 1) PROVE restart_times'[i] = allowed'[gone + i]
    <3>1. CASE i = Len(times) + 1
      <4>1. gone + i = n + 1
        BY <1>1, <1>2, <3>1
      <4>2. QED
        BY <1>1, <1>2, <1>3, <3>1, <4>1
    <3>2. CASE i # Len(times) + 1
      <4>1. i \in 1..Len(times) /\ gone + i \in 1..n
        BY <1>1, <1>2, <3>2
      <4>2. QED
        BY <1>1, <1>2, <1>3, <3>2, <4>1
    <3>3. QED
      BY <3>1, <3>2
  <2>3. ASSUME NEW i \in 1..gone PROVE allowed'[i] < cutoff'
    BY <1>1, <1>2, <1>3
  <2> HIDE DEF gone
  <2>4. \A i \in 1..Len(restart_times') : restart_times'[i] = allowed'[Dropped' + i]
    BY <1>3, <2>1, <2>2
  <2>5. Dropped' >= 0 /\ \A i \in 1..Dropped' : allowed'[i] < cutoff'
    BY <1>1, <1>2, <2>1, <2>3
  <2>6. QED
    BY <2>4, <2>5 DEF KeepsTheLatest
<1>7. Spaced'
  <2>1. ASSUME NEW i \in 1..(n + 1), NEW j \in 1..(n + 1), j = i + max_restarts
        PROVE  allowed'[j] - allowed'[i] > window
    <3>1. CASE j = n + 1
      <4>1. i \in 1..gone
        BY <1>1, <1>2, <2>1, <3>1 DEF times
      <4>2. allowed'[j] = now /\ allowed'[i] = allowed[i] /\ allowed[i] < cutoff /\ allowed[i] \in Nat
        BY <1>1, <1>2, <1>3, <1>4, <3>1, <4>1
      <4>3. QED
        BY <1>2, <4>2
    <3>2. CASE j # n + 1
      <4>1. i \in 1..n /\ j \in 1..n
        BY <1>2, <2>1, <3>2
      <4>2. allowed'[j] = allowed[j] /\ allowed'[i] = allowed[i]
        BY <1>2, <1>3, <4>1
      <4>3. QED
        BY <2>1, <4>1, <4>2 DEF WindowInv, Spaced, n
    <3>3. QED
      BY <3>1, <3>2
  <2>2. QED
    BY <1>3, <2>1 DEF Spaced
<1>8. QED
  BY <1>5, <1>6, <1>7 DEF WindowInv

LEMMA StepKeepsWindow ==
  ASSUME TypeOK, WindowInv, [Next]_vars PROVE WindowInv'
<1>1. CASE /\ restart_times' = Expire(restart_times) /\ UNCHANGED <<allowed, now>>
  <2>1. /\ Len(restart_times') \in Nat /\ Dropped' = Len(allowed) - Len(restart_times') /\ Dropped' \in Nat
        /\ \A i \in 1..Len(restart_times') : restart_times'[i] = allowed[Dropped' + i]
        /\ \A i \in 1..Dropped' : allowed[i] < cutoff
    BY <1>1, Window DEF Dropped
  <2>2. cutoff' = cutoff
    BY <1>1 DEF cutoff
  <2>3. KeepsTheLatest'
    BY <1>1, <2>1, <2>2 DEF KeepsTheLatest
  <2>4. QED
    BY <1>1, <2>3 DEF WindowInv, InTime, Spaced
<1>2. CASE record_restart
  BY <1>1, <1>2, AllowedKeeps DEF record_restart
<1>3. CASE tick
  <2>1. now \in Nat /\ now' = now + 1 /\ allowed \in Seq(Nat) /\ UNCHANGED <<restart_times, allowed>>
    BY <1>3 DEF tick, TypeOK
  <2>2. cutoff \in Int /\ cutoff' = cutoff + 1 /\ Dropped' = Dropped /\ Dropped \in Nat /\ Dropped <= Len(allowed)
    BY <2>1 DEF cutoff, Dropped, WindowInv, KeepsTheLatest, TypeOK
  <2>3. \A i \in 1..Len(allowed) : allowed[i] \in Nat
    BY <2>1
  <2>4. KeepsTheLatest'
    BY <2>1, <2>2, <2>3 DEF WindowInv, KeepsTheLatest
  <2>5. QED
    BY <2>1, <2>3, <2>4 DEF WindowInv, InTime, Spaced
<1>4. CASE reset \/ UNCHANGED vars
  BY <1>4 DEF reset, vars, WindowInv, InTime, KeepsTheLatest, Dropped, Spaced, cutoff
<1>5. QED
  BY <1>2, <1>3, <1>4 DEF Next

\* TypeOK and WindowInv hold in every reachable state.
THEOREM WindowInductive == Spec => [](TypeOK /\ WindowInv)
<1>1. Init => TypeOK /\ WindowInv
  BY DEF Init, TypeOK, WindowInv, InTime, KeepsTheLatest, Dropped, Spaced
<1>2. QED
  BY <1>1, StepTyped, StepKeepsWindow, PTL DEF Spec

(* The tracker never keeps more than max_restarts instants, whatever         *)
(* sequence of restarts, resets and pauses it sees.  (record_restart)        *)
THEOREM TypeCorrect == Spec => []TypeOK
  BY WindowInductive, PTL

-----------------------------------------------------------------------------
(* What the supervisor relies on.                                            *)

(* RateLimited: of the restarts ever allowed, those of one span of a window  *)
(* lie between one and the next max_restarts after it, hence are at most     *)
(* max_restarts.  (record_restart)                                           *)
THEOREM Limit == Spec => []RateLimited
<1>1. ASSUME TypeOK, WindowInv, NEW start \in 0..now
      PROVE  Cardinality({ i \in 1..Len(allowed) : allowed[i] \in start..(start + window) }) <= max_restarts
  <2> DEFINE n == Len(allowed)
             T == { i \in 1..n : allowed[i] \in start..(start + window) }
  <2>1. n \in Nat /\ start \in Nat /\ \A i \in 1..n : allowed[i] \in Nat
    BY <1>1 DEF TypeOK
  <2>2. CASE T = {}
    BY <2>2, FS_EmptySet
  <2>3. CASE T # {}
    <3>1. PICK i \in T : \A j \in T : i <= j
      <4>1. T \subseteq Nat
        OBVIOUS
      <4> HIDE DEF T
      <4>2. QED
        BY <2>3, <4>1, Least
    <3>2. i \in 1..n /\ allowed[i] \in start..(start + window)
      BY <3>1
    <3>3. ASSUME NEW j \in T PROVE j \in i..(i + max_restarts - 1)
      <4>1. j \in 1..n /\ allowed[j] \in start..(start + window) /\ i <= j
        BY <3>1, <3>3
      <4>2. CASE j >= i + max_restarts
        <5>1. i + max_restarts \in 1..n /\ allowed[i + max_restarts] - allowed[i] > window
          BY <1>1, <2>1, <3>2, <4>1, <4>2 DEF WindowInv, Spaced
        <5>2. allowed[i + max_restarts] <= allowed[j]
          BY <1>1, <4>1, <4>2, <5>1 DEF WindowInv, InTime
        <5>3. QED
          BY <2>1, <3>2, <4>1, <5>1, <5>2
      <4>3. QED
        BY <3>2, <4>1, <4>2
    <3> HIDE DEF T
    <3>4. T \subseteq i..(i + max_restarts - 1)
      BY <3>3
    <3>5. i \in Int /\ i + max_restarts - 1 \in Int
      BY <3>2
    <3>6. /\ IsFiniteSet(i..(i + max_restarts - 1))
          /\ Cardinality(i..(i + max_restarts - 1)) =
               IF i > i + max_restarts - 1 THEN 0 ELSE (i + max_restarts - 1) - i + 1
      BY <3>5, FS_Interval
    <3>7. Cardinality(i..(i + max_restarts - 1)) = max_restarts
      BY <3>2, <3>6
    <3>8. Cardinality(T) <= Cardinality(i..(i + max_restarts - 1))
      BY <3>4, <3>6, FS_Subset
    <3>9. QED
      BY <3>7, <3>8 DEF T
  <2>4. QED
    BY <2>2, <2>3
<1>2. TypeOK /\ WindowInv => RateLimited
  BY <1>1 DEF RateLimited
<1>3. QED
  BY <1>2, WindowInductive, PTL

(* ExhaustedMeansDenied: the filter of is_exhausted and the pops of          *)
(* record_restart leave the same number of instants, since the deque is in   *)
(* the order of time.                                                        *)
THEOREM Exhaustion == Spec => ExhaustedMeansDenied
<1>1. ASSUME TypeOK, WindowInv, record_restart PROVE is_exhausted <=> answer' = Denied
  <2>1. Cardinality(Since(restart_times, cutoff)) = Len(Expire(restart_times))
    BY <1>1, Window
  <2>2. Len(Expire(restart_times)) \in Nat
    BY <1>1, Window
  <2>3. calculate_backoff(consecutive_restarts + 1) # Denied
    BY <1>1, Waits
  <2>4. QED
    BY <1>1, <2>1, <2>2, <2>3 DEF record_restart, is_exhausted
<1>2. QED
  BY <1>1, WindowInductive, PTL DEF ExhaustedMeansDenied

(* DeniedByAllowedOnly: a denial is always due to max_restarts restarts that *)
(* were allowed within the window; denied attempts leave no trace.           *)
(* (record_restart)                                                          *)
THEOREM Denial == Spec => DeniedByAllowedOnly
<1>1. ASSUME TypeOK, WindowInv, record_restart, answer' = Denied
      PROVE  Cardinality(Since(allowed, cutoff)) >= max_restarts
  <2> DEFINE times == Expire(restart_times)
             gone  == Len(allowed) - Len(times)
  <2>1. /\ Len(times) \in Nat /\ gone \in 0..Len(allowed) /\ Len(allowed) \in Nat
        /\ \A i \in (gone + 1)..Len(allowed) : allowed[i] >= cutoff
    BY <1>1, Window DEF TypeOK
  <2>2. Len(times) >= max_restarts
    BY <1>1, Waits DEF record_restart
  <2> HIDE DEF times
  <2>3. (gone + 1)..Len(allowed) \subseteq Since(allowed, cutoff)
    BY <2>1 DEF Since
  <2>4. Cardinality((gone + 1)..Len(allowed)) = Len(times)
    <3>1. gone + 1 \in Int /\ Len(allowed) \in Int
      BY <2>1
    <3>2. Cardinality((gone + 1)..Len(allowed)) = IF gone + 1 > Len(allowed) THEN 0 ELSE Len(allowed) - (gone + 1) + 1
      BY <3>1, FS_Interval
    <3>3. QED
      BY <2>1, <3>2
  <2>5. IsFiniteSet(Since(allowed, cutoff)) /\ Cardinality(Since(allowed, cutoff)) \in Nat
    <3>1. IsFiniteSet(1..Len(allowed)) /\ Since(allowed, cutoff) \subseteq 1..Len(allowed)
      BY <2>1, FS_Interval DEF Since
    <3>2. QED
      BY <3>1, FS_Subset, FS_CardinalityType
  <2>6. Cardinality((gone + 1)..Len(allowed)) <= Cardinality(Since(allowed, cutoff))
    BY <2>3, <2>5, FS_Subset
  <2>7. QED
    BY <2>1, <2>2, <2>4, <2>5, <2>6
<1>2. QED
  BY <1>1, WindowInductive, PTL DEF DeniedByAllowedOnly

(* BackoffGrows: the wait never shrinks between two resets and never exceeds *)
(* max_backoff, also where 2u32.saturating_pow has saturated, for every word *)
(* it may saturate at.  (calculate_backoff)                                  *)
THEOREM Growth == Spec => BackoffGrows
<1>1. ASSUME TypeOK, record_restart, answer' # Denied
      PROVE  /\ answer' <= max_backoff
             /\ consecutive_restarts > 0 => calculate_backoff(consecutive_restarts) <= answer'
  <2>1. answer' = calculate_backoff(consecutive_restarts + 1)
    BY <1>1 DEF record_restart
  <2>2. consecutive_restarts \in Nat /\ consecutive_restarts + 1 \in Nat
    BY <1>1 DEF TypeOK
  <2>3. calculate_backoff(consecutive_restarts + 1) <= max_backoff
    BY <2>2, Backoff
  <2>4. consecutive_restarts > 0 =>
          calculate_backoff(consecutive_restarts) <= calculate_backoff(consecutive_restarts + 1)
    BY <2>2, Backoff
  <2>5. QED
    BY <2>1, <2>3, <2>4
<1>2. QED
  BY <1>1, WindowInductive, PTL DEF BackoffGrows
=============================================================================
