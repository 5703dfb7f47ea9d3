--------------------------- MODULE RestartTracker ---------------------------
(***************************************************************************)
(* The restart limiter of a supervised actor (observability/supervision):  *)
(* a sliding window of restart instants and an exponential backoff.        *)
(* Durations and instants are in ticks of one clock.                       *)
(***************************************************************************)
EXTENDS Integers, Sequences, FiniteSets

CONSTANTS
  max_restarts, window, backoff, max_backoff,   \* RestartPolicy
  Word,                                         \* u32::MAX, or a smaller word
  MaxTime,                                      \* bound: the clock stops here
  MaxConsecutive                                \* bound: restarts without a reset

ASSUME PolicyAssumption ==
  max_restarts \in Nat /\ window \in Nat /\ backoff \in Nat /\ max_backoff \in Nat
ASSUME BoundsAssumption ==
  Word \in Nat \ {0} /\ MaxTime \in Nat /\ MaxConsecutive \in Nat

VARIABLES
  now,                    \* Instant::now()
  restart_times,
  consecutive_restarts,
  answer,                 \* what record_restart last returned: a backoff or Denied
  allowed                 \* history: the instants of every restart ever allowed

Denied == -1

vars == <<now, restart_times, consecutive_restarts, answer, allowed>>

TypeOK ==
  /\ now \in Nat
  /\ restart_times \in Seq(Nat) /\ Len(restart_times) <= max_restarts
  /\ consecutive_restarts \in Nat
  /\ answer \in Nat \cup {Denied}
  /\ allowed \in Seq(Nat)

\* RestartTracker::new.  The first instant is one the window reaches back from.
Init ==
  /\ now = window
  /\ restart_times = <<>> /\ consecutive_restarts = 0
  /\ answer = 0 /\ allowed = <<>>

-----------------------------------------------------------------------------
cutoff == now - window

\* The positions of the instants from c on.
Since(times, c) == { i \in 1..Len(times) : times[i] >= c }

\* Mutant of Expire: an instant on the edge of the window goes too.
Expire_early(times) ==
  SelectSeq(times, LAMBDA t : t > cutoff)

\* The loop of pop_front: the longest prefix of instants before the cutoff goes.
Expire(times) ==
  LET kept == Since(times, cutoff) IN
    IF kept = {} THEN <<>>
    ELSE SubSeq(times, CHOOSE i \in kept : \A j \in kept : i <= j, Len(times))

\* 2u32.saturating_pow: 2 ^ 31 is the last power that a u32 holds.
saturating_pow(n) == IF n < 32 /\ 2 ^ n <= Word THEN 2 ^ n ELSE Word

\* Mutant of calculate_backoff: the factor wraps as 2u32.wrapping_pow does.
calculate_backoff_wraps(n) ==
  LET ms == backoff * ((2 ^ (IF n = 0 THEN 0 ELSE n - 1)) % (Word + 1))
  IN  IF ms < max_backoff THEN ms ELSE max_backoff

calculate_backoff(n) ==
  LET ms == backoff * saturating_pow(IF n = 0 THEN 0 ELSE n - 1)
  IN  IF ms < max_backoff THEN ms ELSE max_backoff

\* Mutant of record_restart: a denied restart is recorded too.
record_restart_counts_denied ==
  LET times == Expire(restart_times) IN
    /\ consecutive_restarts < MaxConsecutive
    /\ restart_times' = Append(times, now)
    /\ consecutive_restarts' = consecutive_restarts + 1
    /\ IF Len(times) >= max_restarts
         THEN answer' = Denied /\ UNCHANGED allowed
         ELSE answer' = calculate_backoff(consecutive_restarts') /\ allowed' = Append(allowed, now)
    /\ UNCHANGED now

record_restart ==
  LET times == Expire(restart_times) IN
    /\ \/ /\ Len(times) >= max_restarts
          /\ answer' = Denied
          /\ restart_times' = times
          /\ UNCHANGED <<consecutive_restarts, allowed>>
       \/ /\ Len(times) < max_restarts
          /\ consecutive_restarts < MaxConsecutive
          /\ restart_times' = Append(times, now)
          /\ consecutive_restarts' = consecutive_restarts + 1
          /\ answer' = calculate_backoff(consecutive_restarts')
          /\ allowed' = Append(allowed, now)
    /\ UNCHANGED now

\* After a successful run of the actor.  The window is kept.
reset ==
  /\ consecutive_restarts' = 0
  /\ UNCHANGED <<now, restart_times, answer, allowed>>

tick ==
  /\ now < MaxTime
  /\ now' = now + 1
  /\ UNCHANGED <<restart_times, consecutive_restarts, answer, allowed>>

\* Mutant of is_exhausted: instants outside the window count.
is_exhausted_all == Len(restart_times) >= max_restarts

is_exhausted == Cardinality(Since(restart_times, cutoff)) >= max_restarts

-----------------------------------------------------------------------------
Next == record_restart \/ reset \/ tick

Spec == Init /\ [][Next]_vars

-----------------------------------------------------------------------------
(* Properties.                                                               *)

\* No span of one window ever holds more than max_restarts allowed restarts,
\* counted over the tracker's whole life.  (record_restart)
RateLimited ==
  \A start \in 0..now :
    Cardinality({ i \in 1..Len(allowed) : allowed[i] \in start..(start + window) }) <= max_restarts

\* is_exhausted, which filters, tells what record_restart, which pops from the
\* front, will answer at that instant.  (is_exhausted, record_restart)
ExhaustedMeansDenied == [][record_restart => (is_exhausted <=> answer' = Denied)]_vars

\* A restart is denied only when the window is full of restarts that were
\* allowed: attempts while exhausted do not prolong the exhaustion, so restarts
\* are possible again one window after the oldest of them.  (record_restart)
DeniedByAllowedOnly ==
  [][record_restart /\ answer' = Denied
       => Cardinality(Since(allowed, cutoff)) >= max_restarts]_vars

\* Between two resets the wait never shrinks and never exceeds max_backoff, also
\* once the factor has saturated.  (calculate_backoff)
BackoffGrows ==
  [][record_restart /\ answer' # Denied =>
       /\ answer' <= max_backoff
       /\ consecutive_restarts > 0 => calculate_backoff(consecutive_restarts) <= answer']_vars

-----------------------------------------------------------------------------
(* The inductive invariant behind the rate limit.                            *)

\* The restarts ever allowed, in the order of their instants.
InTime ==
  /\ \A i, j \in 1..Len(allowed) : i <= j => allowed[i] <= allowed[j]
  /\ \A i \in 1..Len(allowed) : allowed[i] <= now

\* The tracker has kept the latest of them, and the others are out of the window.
Dropped == Len(allowed) - Len(restart_times)
KeepsTheLatest ==
  /\ Dropped >= 0
  /\ \A i \in 1..Len(restart_times) : restart_times[i] = allowed[Dropped + i]
  /\ \A i \in 1..Dropped : allowed[i] < cutoff

\* A restart and the one max_restarts later are more than a window apart.
Spaced ==
  \A i, j \in 1..Len(allowed) : j = i + max_restarts => allowed[j] - allowed[i] > window

WindowInv == InTime /\ KeepsTheLatest /\ Spaced
=============================================================================
