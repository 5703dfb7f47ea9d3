------------------------------- MODULE Booking -------------------------------
(***************************************************************************)
(* What a machine actor promises its clients: a lock per incarnation of    *)
(* the actor.  A booking enters a free machine as its client is told so,   *)
(* leaves only when its own client asks, and is lost only with the         *)
(* incarnation itself.  Mailboxes, states and specs are none of the        *)
(* client's business.                                                      *)
(***************************************************************************)
CONSTANTS
  Bookings,       \* booking ids, one client each
  Incarnations,   \* the actors a machine has in its life
  Free            \* no booking

VARIABLES
  holder,         \* holder[i]: the booking incarnation i has granted
  live,           \* the incarnations that answer requests
  client          \* client[b]: what the client of b knows

Asking == {"provisioning", "deprovisioning"}

Init == /\ holder = [i \in Incarnations |-> Free]
        /\ live = {}
        /\ client = [b \in Bookings |-> "none"]

Appear(i) == i \notin live /\ holder[i] = Free /\ live' = live \cup {i} /\ UNCHANGED <<holder, client>>

Ask(b) ==
  /\ client[b] \notin Asking
  /\ client' = [client EXCEPT ![b] = IF @ = "held" THEN "deprovisioning" ELSE "provisioning"]
  /\ UNCHANGED <<holder, live>>

Book(i, b) ==
  /\ i \in live /\ holder[i] = Free /\ client[b] = "provisioning"
  /\ holder' = [holder EXCEPT ![i] = b]
  /\ client' = [client EXCEPT ![b] = "held"]
  /\ UNCHANGED live

End(i, b) ==
  /\ i \in live /\ holder[i] = b /\ client[b] = "deprovisioning"
  /\ holder' = [holder EXCEPT ![i] = Free]
  /\ client' = [client EXCEPT ![b] = "none"]
  /\ UNCHANGED live

\* An error reply leaves the lock as it is.
Refuse(b) ==
  /\ client[b] \in Asking
  /\ client' = [client EXCEPT ![b] = "none"]
  /\ UNCHANGED <<holder, live>>

\* An incarnation ends, and the requests it has not handled fail.
Vanish(i) ==
  /\ i \in live
  /\ live' = live \ {i}
  /\ \E failed \in SUBSET { b \in Bookings : client[b] \in Asking } :
       client' = [b \in Bookings |-> IF b \in failed THEN "none" ELSE client[b]]
  /\ UNCHANGED holder

Next == \/ \E i \in Incarnations : Appear(i) \/ Vanish(i)
        \/ \E b \in Bookings : Ask(b) \/ Refuse(b)
        \/ \E i \in Incarnations, b \in Bookings : Book(i, b) \/ End(i, b)

Spec == Init /\ [][Next]_<<holder, live, client>>
=============================================================================
