-------------------------- MODULE MachineActorProofs --------------------------
(***************************************************************************)
(* Theorems about MachineActor for every set of bookings and admin states, *)
(* every number of incarnations and every mailbox capacity.                *)
(***************************************************************************)
EXTENDS MachineActor, TLAPS

USE MaxActorsAssumption, FreeAssumption, AdminStatesAssumption, NoActorAssumption

\* The requests that travel through the mailboxes.
LEMMA RequestTypes ==
  /\ [type |-> "stop"] \in Request
  /\ [type |-> "status"] \in Request
  /\ \A a \in AdminStates \cup {Unparseable} : [type |-> "update", spec |-> a] \in Request
  /\ \A b \in Bookings : [type |-> "provision", booking |-> b] \in Request
  /\ \A b \in Bookings : [type |-> "deprovision", booking |-> b] \in Request
  BY DEF Request

\* A request joins the mailbox of i; the other mailboxes stay as they are.
LEMMA SendFacts ==
  ASSUME TypeOK, NEW i \in Incarnations, NEW r \in Request, Send(i, r)
  PROVE  /\ mailbox' \in [Incarnations -> Seq(Request)]
         /\ Len(mailbox[i]) \in Nat
         /\ Len(mailbox'[i]) = Len(mailbox[i]) + 1
         /\ mailbox'[i][Len(mailbox[i]) + 1] = r
         /\ \A k \in 1..Len(mailbox[i]) : mailbox'[i][k] = mailbox[i][k]
         /\ \A j \in Incarnations \ {i} : mailbox'[j] = mailbox[j]
<1>1. mailbox[i] \in Seq(Request) /\ mailbox \in [Incarnations -> Seq(Request)]
  BY DEF TypeOK
<1>2. Append(mailbox[i], r) \in Seq(Request)
  BY <1>1
<1>3. mailbox'[i] = Append(mailbox[i], r) /\ \A j \in Incarnations \ {i} : mailbox'[j] = mailbox[j]
  BY <1>1 DEF Send
<1>4. mailbox' \in [Incarnations -> Seq(Request)]
  BY <1>1, <1>2 DEF Send
<1>5. QED
  BY <1>1, <1>3, <1>4

\* The request a handler of i takes, and what is left.
LEMMA TakeFacts ==
  ASSUME TypeOK, NEW i \in Incarnations, mailbox[i] # <<>>, Take(i)
  PROVE  /\ mailbox' \in [Incarnations -> Seq(Request)]
         /\ Len(mailbox[i]) \in Nat \ {0}
         /\ Len(mailbox'[i]) = Len(mailbox[i]) - 1
         /\ \A k \in 1..Len(mailbox'[i]) : k + 1 \in 1..Len(mailbox[i]) /\ mailbox'[i][k] = mailbox[i][k + 1]
         /\ \A j \in Incarnations \ {i} : mailbox'[j] = mailbox[j]
<1>1. mailbox[i] \in Seq(Request) /\ mailbox \in [Incarnations -> Seq(Request)]
  BY DEF TypeOK
<1>2. Tail(mailbox[i]) \in Seq(Request)
  BY <1>1
<1>3. mailbox'[i] = Tail(mailbox[i]) /\ \A j \in Incarnations \ {i} : mailbox'[j] = mailbox[j]
  BY <1>1 DEF Take
<1>4. mailbox' \in [Incarnations -> Seq(Request)]
  BY <1>1, <1>2 DEF Take
<1>5. Len(mailbox[i]) \in Nat \ {0} /\ Len(mailbox'[i]) = Len(mailbox[i]) - 1
  BY <1>1, <1>3
<1>6. \A k \in 1..Len(mailbox'[i]) : mailbox'[i][k] = mailbox[i][k + 1]
  BY <1>1, <1>3
<1>7. QED
  BY <1>3, <1>4, <1>5, <1>6

LEMMA HeadFacts ==
  ASSUME TypeOK, NEW i \in Incarnations, mailbox[i] # <<>>
  PROVE  /\ Head(mailbox[i]) \in Request
         /\ 1 \in 1..Len(mailbox[i]) /\ Head(mailbox[i]) = mailbox[i][1]
         /\ Head(mailbox[i]).type \in {"provision", "deprovision"} => Head(mailbox[i]).booking \in Bookings
<1>1. mailbox[i] \in Seq(Request)
  BY DEF TypeOK
<1>2. Head(mailbox[i]) \in Request /\ 1 \in 1..Len(mailbox[i]) /\ Head(mailbox[i]) = mailbox[i][1]
  BY <1>1
<1>3. QED
  BY <1>2 DEF Request

-----------------------------------------------------------------------------
LEMMA InitTyped == Init => TypeOK
<1>1. <<>> \in Seq(Request)
  OBVIOUS
<1>2. QED
  BY <1>1 DEF Init, TypeOK, MachineState

LEMMA SendersTyped ==
  ASSUME TypeOK,
         \/ \E i \in Incarnations, a \in AdminStates : with_node_id(i, a)
         \/ stop_machine_actor
         \/ manager_asks
         \/ \E b \in Bookings, i \in Incarnations : ask_provision(b, i) \/ ask_deprovision(b, i)
  PROVE  TypeOK'
<1>1. ASSUME NEW i \in Incarnations, NEW a \in AdminStates, with_node_id(i, a) PROVE TypeOK'
  BY <1>1 DEF TypeOK, with_node_id
<1>2. CASE stop_machine_actor
  <2>1. current \in Incarnations
    BY <1>2 DEF TypeOK, stop_machine_actor
  <2>2. mailbox' \in [Incarnations -> Seq(Request)]
    BY <1>2, <2>1, SendFacts, RequestTypes DEF stop_machine_actor
  <2>3. QED
    BY <1>2, <2>2 DEF TypeOK, stop_machine_actor
<1>3. CASE manager_asks
  <2>1. current \in Incarnations
    BY <1>3 DEF TypeOK, manager_asks
  <2>2. \E r \in Request : Send(current, r)
    BY <1>3, RequestTypes DEF manager_asks
  <2>3. mailbox' \in [Incarnations -> Seq(Request)]
    BY <2>1, <2>2, SendFacts
  <2>4. QED
    BY <1>3, <2>3 DEF TypeOK, manager_asks
<1>4. ASSUME NEW b \in Bookings, NEW i \in Incarnations, ask_provision(b, i) PROVE TypeOK'
  <2>1. mailbox' \in [Incarnations -> Seq(Request)]
    BY <1>4, SendFacts, RequestTypes DEF ask_provision
  <2>2. QED
    BY <1>4, <2>1 DEF TypeOK, ask_provision
<1>5. ASSUME NEW b \in Bookings, NEW i \in Incarnations, ask_deprovision(b, i) PROVE TypeOK'
  <2>1. mailbox' \in [Incarnations -> Seq(Request)]
    BY <1>5, SendFacts, RequestTypes DEF ask_deprovision
  <2>2. QED
    BY <1>5, <2>1 DEF TypeOK, ask_deprovision
<1>6. QED
  BY <1>1, <1>2, <1>3, <1>4, <1>5

LEMMA HandlersTyped ==
  ASSUME TypeOK, NEW i \in Incarnations, ActorNext(i)
  PROVE  TypeOK'
<1>1. mailbox[i] # <<>>
  BY DEF ActorNext, GetMachineStatus, UpdateMachineSpec, ProvisionMachine, DeprovisionMachine, Stop, Receives
<1>2. initialize(i) \in MachineState
  BY DEF TypeOK, initialize, MachineState
<1>3. Take(i) => mailbox' \in [Incarnations -> Seq(Request)]
  BY <1>1, TakeFacts
<1>4. CASE GetMachineStatus(i)
  BY <1>2, <1>3, <1>4 DEF TypeOK, GetMachineStatus
<1>5. CASE UpdateMachineSpec(i)
  BY <1>3, <1>5 DEF TypeOK, UpdateMachineSpec
<1>6. CASE ProvisionMachine(i)
  <2> DEFINE b == Head(mailbox[i]).booking
  <2>1. b \in Bookings
    BY <1>1, <1>6, HeadFacts DEF ProvisionMachine, Receives
  <2>2. state' \in [Incarnations -> MachineState]
    BY <1>2, <1>6 DEF TypeOK, ProvisionMachine, MachineState
  <2>3. /\ current_booking' \in [Incarnations -> Bookings \cup {Free}]
        /\ client' \in [Bookings -> {"none", "provisioning", "held", "deprovisioning"}]
    BY <1>6, <2>1 DEF TypeOK, ProvisionMachine
  <2>4. QED
    BY <1>3, <1>6, <2>2, <2>3 DEF TypeOK, ProvisionMachine
<1>7. CASE DeprovisionMachine(i)
  <2>1. state' \in [Incarnations -> MachineState]
    BY <1>2, <1>7 DEF TypeOK, DeprovisionMachine, MachineState
  <2>2. /\ current_booking' \in [Incarnations -> Bookings \cup {Free}]
        /\ client' \in [Bookings -> {"none", "provisioning", "held", "deprovisioning"}]
    BY <1>7 DEF TypeOK, DeprovisionMachine
  <2>3. QED
    BY <1>3, <1>7, <2>1, <2>2 DEF TypeOK, DeprovisionMachine
<1>8. CASE Stop(i)
  <2>1. <<>> \in Seq(Request)
    OBVIOUS
  <2>2. QED
    BY <1>8, <2>1 DEF TypeOK, Stop
<1>9. QED
  BY <1>4, <1>5, <1>6, <1>7, <1>8 DEF ActorNext

(* TypeOK holds in every reachable state: no handler meets a request it does *)
(* not know, and no spec that does not parse becomes an actor's.             *)
THEOREM TypeCorrect == Spec => []TypeOK
<1>1. ASSUME TypeOK, [Next]_vars PROVE TypeOK'
  <2>1. CASE UNCHANGED vars
    BY <1>1, <2>1 DEF TypeOK, vars
  <2>2. QED
    BY <1>1, <2>1, SendersTyped, HandlersTyped DEF Next
<1>2. QED
  BY <1>1, InitTyped, PTL DEF Spec

-----------------------------------------------------------------------------
(* Bookings.  The parts of BookingInv are named where an action can disturb  *)
(* them; the asks queued at an actor carry the argument.                     *)

\* A request that no client waits for joins a mailbox.
LEMMA EnqueueOther ==
  ASSUME TypeOK, AskedOnce, NEW i \in Incarnations, NEW r \in Request, Send(i, r),
         r.type \notin {"provision", "deprovision"}, UNCHANGED <<client, asked>>
  PROVE  AskedOnce'
<1>1. \A b \in Bookings : ~IsFrom(r, b)
  BY DEF IsFrom
<1>2. \A j \in Incarnations, b \in Bookings : \A k \in 1..Len(mailbox'[j]) :
        IsFrom(mailbox'[j][k], b) => k \in 1..Len(mailbox[j]) /\ mailbox'[j][k] = mailbox[j][k]
  BY <1>1, SendFacts
<1>3. QED
  BY <1>2 DEF AskedOnce

\* The ask of a client that had none queued joins a mailbox.
LEMMA EnqueueAsk ==
  ASSUME TypeOK, AskedOnce, NEW i \in Incarnations, NEW b \in Bookings, NEW t \in {"provision", "deprovision"},
         Send(i, [type |-> t, booking |-> b]), client[b] \in {"none", "held"},
         asked' = [asked EXCEPT ![b] = i],
         client' = [client EXCEPT ![b] = IF t = "provision" THEN "provisioning" ELSE "deprovisioning"]
  PROVE  AskedOnce'
<1> DEFINE r == [type |-> t, booking |-> b]
<1>1. r \in Request /\ IsFrom(r, b) /\ \A c \in Bookings \ {b} : ~IsFrom(r, c)
  BY RequestTypes DEF IsFrom
<1>2. \A j \in Incarnations : \A k \in 1..Len(mailbox[j]) : ~IsFrom(mailbox[j][k], b)
  BY DEF AskedOnce
<1>3. \A j \in Incarnations : \A k \in 1..Len(mailbox'[j]) :
        \/ k \in 1..Len(mailbox[j]) /\ mailbox'[j][k] = mailbox[j][k]
        \/ j = i /\ k = Len(mailbox[i]) + 1 /\ mailbox'[j][k] = r
  BY <1>1, SendFacts
<1>4. ASSUME NEW j \in Incarnations, NEW k \in 1..Len(mailbox'[j]), NEW c \in Bookings,
             IsFrom(mailbox'[j][k], c)
      PROVE  /\ asked'[c] = j
             /\ client'[c] = IF mailbox'[j][k].type = "provision" THEN "provisioning" ELSE "deprovisioning"
             /\ \A l \in 1..Len(mailbox'[j]) : IsFrom(mailbox'[j][l], c) => l = k
  <2>1. CASE c = b
    <3>1. j = i /\ k = Len(mailbox[i]) + 1 /\ mailbox'[j][k] = r
      BY <1>2, <1>3, <1>4, <2>1
    <3>2. \A l \in 1..Len(mailbox'[j]) : IsFrom(mailbox'[j][l], c) => l = k
      BY <1>2, <1>3, <2>1, <3>1
    <3>3. r.type = t /\ asked'[b] = i
          /\ client'[b] = IF t = "provision" THEN "provisioning" ELSE "deprovisioning"
      BY DEF TypeOK
    <3>4. QED
      BY <2>1, <3>1, <3>2, <3>3
  <2>2. CASE c # b
    <3>1. k \in 1..Len(mailbox[j]) /\ mailbox'[j][k] = mailbox[j][k]
      BY <1>1, <1>3, <1>4, <2>2
    <3>2. asked'[c] = asked[c] /\ client'[c] = client[c]
      BY <2>2 DEF TypeOK
    <3>3. \A l \in 1..Len(mailbox'[j]) :
            IsFrom(mailbox'[j][l], c) => l \in 1..Len(mailbox[j]) /\ mailbox'[j][l] = mailbox[j][l]
      BY <1>1, <1>3, <2>2
    <3>4. QED
      BY <1>4, <3>1, <3>2, <3>3 DEF AskedOnce
  <2>3. QED
    BY <2>1, <2>2
<1>5. QED
  BY <1>4 DEF AskedOnce

\* A handler takes the head of a mailbox and tells at most the client that sent
\* it something: no other ask loses its client.
LEMMA Dequeue ==
  ASSUME TypeOK, AskedOnce, NEW i \in Incarnations, mailbox[i] # <<>>, Take(i), UNCHANGED asked,
         \A b \in Bookings : client'[b] # client[b] => IsFrom(Head(mailbox[i]), b)
  PROVE  AskedOnce'
<1>1. 1 \in 1..Len(mailbox[i]) /\ Head(mailbox[i]) = mailbox[i][1]
  BY HeadFacts
<1>2. ASSUME NEW j \in Incarnations, NEW k \in 1..Len(mailbox'[j]), NEW b \in Bookings,
             IsFrom(mailbox'[j][k], b)
      PROVE  /\ asked'[b] = j
             /\ client'[b] = IF mailbox'[j][k].type = "provision" THEN "provisioning" ELSE "deprovisioning"
             /\ \A l \in 1..Len(mailbox'[j]) : IsFrom(mailbox'[j][l], b) => l = k
  <2>1. CASE j = i
    <3>1. k + 1 \in 1..Len(mailbox[i]) /\ k + 1 # 1 /\ mailbox'[i][k] = mailbox[i][k + 1]
      BY <1>2, <2>1, TakeFacts
    <3>2. ~IsFrom(Head(mailbox[i]), b)
      BY <1>1, <1>2, <2>1, <3>1 DEF AskedOnce
    <3>3. client'[b] = client[b] /\ asked'[b] = asked[b]
      BY <3>2
    <3>4. /\ asked[b] = i
          /\ client[b] = IF mailbox[i][k + 1].type = "provision" THEN "provisioning" ELSE "deprovisioning"
          /\ \A l \in 1..Len(mailbox[i]) : IsFrom(mailbox[i][l], b) => l = k + 1
      BY <1>2, <2>1, <3>1 DEF AskedOnce
    <3>5. ASSUME NEW l \in 1..Len(mailbox'[i]), IsFrom(mailbox'[i][l], b) PROVE l = k
      <4>1. l + 1 \in 1..Len(mailbox[i]) /\ mailbox'[i][l] = mailbox[i][l + 1]
        BY TakeFacts
      <4>2. l + 1 = k + 1
        BY <3>4, <3>5, <4>1
      <4>3. QED
        BY <4>1, <4>2, <2>1, TakeFacts
    <3>6. QED
      BY <2>1, <3>1, <3>3, <3>4, <3>5
  <2>2. CASE j # i
    <3>1. mailbox'[j] = mailbox[j]
      BY <2>2, TakeFacts
    <3>2. asked[b] = j
      BY <1>2, <3>1 DEF AskedOnce
    <3>3. ~IsFrom(Head(mailbox[i]), b)
      BY <1>1, <2>2, <3>2 DEF AskedOnce
    <3>4. QED
      BY <1>2, <3>1, <3>3 DEF AskedOnce
  <2>3. QED
    BY <2>1, <2>2
<1>3. QED
  BY <1>2 DEF AskedOnce

\* The client of the ask at the head of a mailbox waits for it.
LEMMA HeadIsAwaited ==
  ASSUME TypeOK, AskedOnce, NEW i \in Incarnations, mailbox[i] # <<>>,
         Head(mailbox[i]).type \in {"provision", "deprovision"}
  PROVE  LET b == Head(mailbox[i]).booking IN
           /\ b \in Bookings /\ IsFrom(Head(mailbox[i]), b) /\ asked[b] = i
           /\ client[b] = IF Head(mailbox[i]).type = "provision" THEN "provisioning" ELSE "deprovisioning"
<1>1. Head(mailbox[i]).booking \in Bookings /\ IsFrom(Head(mailbox[i]), Head(mailbox[i]).booking)
  BY HeadFacts DEF IsFrom
<1>2. QED
  BY <1>1, HeadFacts DEF AskedOnce

-----------------------------------------------------------------------------
LEMMA SendersKeep ==
  ASSUME TypeOK, BookingInv,
         \/ \E i \in Incarnations, a \in AdminStates : with_node_id(i, a)
         \/ stop_machine_actor
         \/ manager_asks
         \/ \E b \in Bookings, i \in Incarnations : ask_provision(b, i) \/ ask_deprovision(b, i)
  PROVE  BookingInv'
<1> USE DEF BookingInv
<1>1. ASSUME NEW i \in Incarnations, NEW a \in AdminStates, with_node_id(i, a) PROVE BookingInv'
  BY <1>1 DEF TypeOK, with_node_id, StateMatchesBooking, HeldIsGranted, AskedOnce
<1>2. ASSUME NEW r \in Request, r.type \notin {"provision", "deprovision"}, current \in Incarnations,
             Send(current, r), UNCHANGED <<status, state, current_booking, client, asked>>
      PROVE  BookingInv'
  <2>1. AskedOnce'
    BY <1>2, EnqueueOther
  <2>2. QED
    BY <1>2, <2>1 DEF StateMatchesBooking, HeldIsGranted
<1>3. CASE stop_machine_actor
  <2>1. current \in Incarnations /\ [type |-> "stop"] \in Request
    BY <1>3, RequestTypes DEF TypeOK, stop_machine_actor
  <2>2. QED
    BY <1>2, <1>3, <2>1 DEF stop_machine_actor
<1>4. CASE manager_asks
  <2>1. current \in Incarnations
    BY <1>4 DEF TypeOK, manager_asks
  <2>2. PICK r \in Request : r.type \notin {"provision", "deprovision"} /\ Send(current, r)
    BY <1>4, RequestTypes DEF manager_asks
  <2>3. QED
    BY <1>2, <1>4, <2>1, <2>2 DEF manager_asks
<1>5. ASSUME NEW b \in Bookings, NEW i \in Incarnations, ask_provision(b, i) PROVE BookingInv'
  <2>1. AskedOnce'
    BY <1>5, EnqueueAsk DEF ask_provision
  <2>2. HeldIsGranted'
    BY <1>5 DEF TypeOK, ask_provision, HeldIsGranted
  <2>3. QED
    BY <1>5, <2>1, <2>2 DEF ask_provision, StateMatchesBooking
<1>6. ASSUME NEW b \in Bookings, NEW i \in Incarnations, ask_deprovision(b, i) PROVE BookingInv'
  <2>1. AskedOnce'
    BY <1>6, EnqueueAsk DEF ask_deprovision
  <2>2. HeldIsGranted'
    BY <1>6 DEF TypeOK, ask_deprovision, HeldIsGranted
  <2>3. QED
    BY <1>6, <2>1, <2>2 DEF ask_deprovision, StateMatchesBooking
<1>7. QED
  BY <1>1, <1>3, <1>4, <1>5, <1>6

LEMMA HandlersKeep ==
  ASSUME TypeOK, BookingInv, NEW i \in Incarnations, ActorNext(i)
  PROVE  BookingInv'
<1> USE DEF BookingInv
<1>1. mailbox[i] # <<>> /\ status[i] = "up"
  BY DEF ActorNext, GetMachineStatus, UpdateMachineSpec, ProvisionMachine, DeprovisionMachine, Stop, Receives
<1>2. CASE GetMachineStatus(i)
  <2>1. AskedOnce'
    BY <1>1, <1>2, Dequeue DEF GetMachineStatus
  <2>2. QED
    BY <1>2, <2>1 DEF TypeOK, GetMachineStatus, initialize, StateMatchesBooking, HeldIsGranted
<1>3. CASE UpdateMachineSpec(i)
  <2>1. AskedOnce'
    BY <1>1, <1>3, Dequeue DEF UpdateMachineSpec
  <2>2. QED
    BY <1>3, <2>1 DEF UpdateMachineSpec, StateMatchesBooking, HeldIsGranted
<1>4. CASE ProvisionMachine(i)
  <2> DEFINE b == Head(mailbox[i]).booking
  <2>1. /\ b \in Bookings /\ IsFrom(Head(mailbox[i]), b) /\ asked[b] = i /\ client[b] = "provisioning"
    BY <1>1, <1>4, HeadIsAwaited DEF ProvisionMachine, Receives
  <2>2. \A c \in Bookings \ {b} : client'[c] = client[c]
    BY <1>4 DEF TypeOK, ProvisionMachine
  <2>3. AskedOnce'
    BY <1>1, <1>4, <2>1, <2>2, Dequeue DEF ProvisionMachine
  <2>4. CASE initialize(i) = "idle" /\ admin_state[i] \in {"available", "reserved"}
    <3>1. /\ state' = [state EXCEPT ![i] = "booked"]
          /\ current_booking' = [current_booking EXCEPT ![i] = b]
          /\ client' = [client EXCEPT ![b] = "held"] /\ UNCHANGED <<status, asked>>
      BY <1>4, <2>4 DEF ProvisionMachine
    <3>2. \A c \in Bookings : client[c] = "held" => asked[c] # i
      BY <2>4 DEF HeldIsGranted, initialize
    <3>3. HeldIsGranted'
      BY <2>1, <3>1, <3>2 DEF TypeOK, HeldIsGranted
    <3>4. StateMatchesBooking'
      BY <2>1, <3>1 DEF TypeOK, StateMatchesBooking
    <3>5. QED
      BY <1>1, <2>3, <3>1, <3>3, <3>4 DEF TypeOK
  <2>5. CASE ~(initialize(i) = "idle" /\ admin_state[i] \in {"available", "reserved"})
    <3>1. /\ state' = [state EXCEPT ![i] = initialize(i)]
          /\ client' = [client EXCEPT ![b] = "none"] /\ UNCHANGED <<status, current_booking, asked>>
      BY <1>4, <2>5 DEF ProvisionMachine
    <3>2. HeldIsGranted' /\ StateMatchesBooking'
      BY <2>1, <3>1 DEF TypeOK, HeldIsGranted, StateMatchesBooking, initialize
    <3>3. QED
      BY <2>3, <3>1, <3>2
  <2>6. QED
    BY <2>4, <2>5
<1>5. CASE DeprovisionMachine(i)
  <2> DEFINE b == Head(mailbox[i]).booking
             ends == current_booking[i] = b /\ state[i] = "booked"
  <2>1. /\ b \in Bookings /\ IsFrom(Head(mailbox[i]), b) /\ asked[b] = i
    BY <1>1, <1>5, HeadIsAwaited DEF DeprovisionMachine, Receives
  <2>2. /\ state' = [state EXCEPT ![i] = IF ends THEN "idle" ELSE initialize(i)]
        /\ current_booking' = [current_booking EXCEPT ![i] = IF ends THEN Free ELSE @]
        /\ client' = [client EXCEPT ![b] = "none"] /\ UNCHANGED <<status, asked>>
    BY <1>5 DEF DeprovisionMachine
  <2>3. \A c \in Bookings \ {b} : client'[c] = client[c]
    BY <2>2 DEF TypeOK
  <2>4. AskedOnce'
    BY <1>1, <1>5, <2>1, <2>3, Dequeue DEF DeprovisionMachine
  <2>5. HeldIsGranted'
    BY <2>1, <2>2 DEF TypeOK, HeldIsGranted, initialize
  <2>6. StateMatchesBooking'
    BY <2>1, <2>2 DEF TypeOK, StateMatchesBooking, initialize
  <2>7. QED
    BY <1>1, <2>2, <2>4, <2>5, <2>6 DEF TypeOK
<1>6. CASE Stop(i)
  <2>1. /\ mailbox'[i] = <<>> /\ \A j \in Incarnations \ {i} : mailbox'[j] = mailbox[j]
        /\ UNCHANGED <<state, current_booking, asked>>
    BY <1>6 DEF TypeOK, Stop
  <2>2. \A b \in Bookings : client'[b] = client[b] \/ client'[b] = "none"
    BY <1>6 DEF Stop
  <2>3. \A b \in Bookings : client'[b] # client[b] => asked[b] = i
    BY <1>6 DEF Stop, AskedOnce
  <2>4. AskedOnce'
    <3>1. ASSUME NEW j \in Incarnations, NEW k \in 1..Len(mailbox'[j]) PROVE j # i
      BY <2>1, <3>1
    <3>2. QED
      BY <2>1, <2>3, <3>1 DEF AskedOnce
  <2>5. QED
    BY <1>1, <1>6, <2>1, <2>2, <2>4 DEF TypeOK, Stop, HeldIsGranted, StateMatchesBooking
<1>7. QED
  BY <1>2, <1>3, <1>4, <1>5, <1>6 DEF ActorNext

LEMMA InitBooks == Init => BookingInv
  BY DEF Init, BookingInv, StateMatchesBooking, HeldIsGranted, AskedOnce

(* BookingInv is inductive relative to the types: a client waits for the one *)
(* actor that has its ask, so no answer, stop or error can be for another.   *)
THEOREM BookingInductive == Spec => []BookingInv
<1>1. ASSUME TypeOK, BookingInv, [Next]_vars PROVE BookingInv'
  <2>1. CASE UNCHANGED vars
    BY <1>1, <2>1 DEF vars, BookingInv, StateMatchesBooking, HeldIsGranted, AskedOnce
  <2>2. QED
    BY <1>1, <2>1, SendersKeep, HandlersKeep DEF Next
<1>2. QED
  BY <1>1, InitBooks, TypeCorrect, PTL DEF Spec

(* HeldIsGranted: whoever was told "success" and has not asked to deprovision*)
(* is the booking on record at the actor that said so, however many          *)
(* incarnations of the actor answer at the same time.                        *)
THEOREM Granted == Spec => []HeldIsGranted
<1>1. BookingInv => HeldIsGranted
  BY DEF BookingInv
<1>2. QED
  BY <1>1, BookingInductive, PTL

(* StateMatchesBooking: the operational state an actor reports is "booked"   *)
(* exactly while it has a booking, whichever handler ran last.               *)
THEOREM StateIsTrue == Spec => []StateMatchesBooking
<1>1. BookingInv => StateMatchesBooking
  BY DEF BookingInv
<1>2. QED
  BY <1>1, BookingInductive, PTL

-----------------------------------------------------------------------------
(* The refinement of Booking.                                                *)

live == { i \in Incarnations : status[i] = "up" }

LEMMA InitRefines == Init => Lock!Init
  BY DEF Init, Lock!Init

\* Steps that neither a client nor the lock sees.
LEMMA Stutters ==
  ASSUME UNCHANGED <<current_booking, status, client>>
  PROVE  UNCHANGED <<current_booking, live, client>>
  BY DEF live

\* The manager starts an incarnation, or a client asks.
LEMMA SendersRefine ==
  ASSUME TypeOK, BookingInv,
         \/ \E i \in Incarnations, a \in AdminStates : with_node_id(i, a)
         \/ stop_machine_actor
         \/ manager_asks
         \/ \E b \in Bookings, i \in Incarnations : ask_provision(b, i) \/ ask_deprovision(b, i)
  PROVE  Lock!Next \/ UNCHANGED <<current_booking, live, client>>
<1>1. ASSUME NEW i \in Incarnations, NEW a \in AdminStates, with_node_id(i, a) PROVE Lock!Appear(i)
  <2>1. i \notin live /\ current_booking[i] = Free
    BY <1>1 DEF with_node_id, BookingInv, live
  <2>2. live' = live \cup {i} /\ UNCHANGED <<current_booking, client>>
    BY <1>1 DEF TypeOK, with_node_id, live
  <2>3. QED
    BY <2>1, <2>2 DEF Lock!Appear, live
<1>2. CASE stop_machine_actor
  BY <1>2, Stutters DEF stop_machine_actor
<1>3. CASE manager_asks
  BY <1>3, Stutters DEF manager_asks
<1>4. ASSUME NEW b \in Bookings, NEW i \in Incarnations, ask_provision(b, i) PROVE Lock!Ask(b)
  BY <1>4 DEF TypeOK, ask_provision, Lock!Ask, Lock!Asking
<1>5. ASSUME NEW b \in Bookings, NEW i \in Incarnations, ask_deprovision(b, i) PROVE Lock!Ask(b)
  BY <1>5 DEF TypeOK, ask_deprovision, Lock!Ask, Lock!Asking
<1>6. QED
  BY <1>1, <1>2, <1>3, <1>4, <1>5 DEF Lock!Next

LEMMA HandlersRefine ==
  ASSUME TypeOK, BookingInv, NEW i \in Incarnations, ActorNext(i)
  PROVE  Lock!Next \/ UNCHANGED <<current_booking, live, client>>
<1>1. mailbox[i] # <<>> /\ i \in live /\ AskedOnce /\ StateMatchesBooking
  BY DEF ActorNext, GetMachineStatus, UpdateMachineSpec, ProvisionMachine, DeprovisionMachine, Stop,
         Receives, BookingInv, live
<1>2. CASE GetMachineStatus(i)
  BY <1>2, Stutters DEF GetMachineStatus
<1>3. CASE UpdateMachineSpec(i)
  BY <1>3, Stutters DEF UpdateMachineSpec
<1>4. CASE ProvisionMachine(i)
  <2> DEFINE b == Head(mailbox[i]).booking
             bookable == initialize(i) = "idle" /\ admin_state[i] \in {"available", "reserved"}
  <2>1. b \in Bookings /\ client[b] = "provisioning" /\ UNCHANGED live
    BY <1>1, <1>4, HeadIsAwaited DEF ProvisionMachine, Receives, live
  <2>2. CASE bookable
    <3>1. current_booking[i] = Free
      BY <1>1, <2>2 DEF initialize, StateMatchesBooking
    <3>2. Lock!Book(i, b)
      BY <1>1, <1>4, <2>1, <2>2, <3>1 DEF ProvisionMachine, Lock!Book, live
    <3>3. QED
      BY <2>1, <3>2 DEF Lock!Next
  <2>3. CASE ~bookable
    <3>1. Lock!Refuse(b)
      BY <1>4, <2>1, <2>3 DEF ProvisionMachine, Lock!Refuse, Lock!Asking, live
    <3>2. QED
      BY <2>1, <3>1 DEF Lock!Next
  <2>4. QED
    BY <2>2, <2>3
<1>5. CASE DeprovisionMachine(i)
  <2> DEFINE b == Head(mailbox[i]).booking
             ends == current_booking[i] = b /\ state[i] = "booked"
  <2>1. b \in Bookings /\ client[b] = "deprovisioning" /\ UNCHANGED live
    BY <1>1, <1>5, HeadIsAwaited DEF DeprovisionMachine, Receives, live
  <2>2. CASE ends
    <3>1. Lock!End(i, b)
      BY <1>1, <1>5, <2>1, <2>2 DEF DeprovisionMachine, Lock!End, live
    <3>2. QED
      BY <2>1, <3>1 DEF Lock!Next
  <2>3. CASE ~ends
    <3>1. current_booking' = current_booking
      BY <1>5, <2>3 DEF DeprovisionMachine, TypeOK
    <3>2. Lock!Refuse(b)
      BY <1>5, <2>1, <3>1 DEF DeprovisionMachine, Lock!Refuse, Lock!Asking, live
    <3>3. QED
      BY <2>1, <3>2 DEF Lock!Next
  <2>4. QED
    BY <2>2, <2>3
<1>6. CASE Stop(i)
  <2> DEFINE failed == { b \in Bookings : \E k \in 1..Len(mailbox[i]) : IsFrom(mailbox[i][k], b) }
  <2>1. failed \in SUBSET { b \in Bookings : client[b] \in Lock!Asking }
    BY <1>1 DEF AskedOnce, Lock!Asking
  <2>2. client' = [b \in Bookings |-> IF b \in failed THEN "none" ELSE client[b]]
    BY <1>6 DEF Stop
  <2>3. live' = live \ {i} /\ UNCHANGED current_booking
    BY <1>6 DEF TypeOK, Stop, live
  <2>4. Lock!Vanish(i)
    BY <1>1, <2>1, <2>2, <2>3 DEF Lock!Vanish, live
  <2>5. QED
    BY <2>4 DEF Lock!Next
<1>7. QED
  BY <1>2, <1>3, <1>4, <1>5, <1>6 DEF ActorNext

(* RefinesBooking: with its mailboxes, states and specs hidden, every        *)
(* incarnation is the lock of Booking.tla.  Each handler is one step of the  *)
(* lock: a grant, an end or a refusal.                                       *)
THEOREM Refinement == Spec => RefinesBooking
<1>1. ASSUME TypeOK, BookingInv, [Next]_vars
      PROVE  Lock!Next \/ UNCHANGED <<current_booking, live, client>>
  <2>1. CASE UNCHANGED vars
    BY <2>1, Stutters DEF vars
  <2>2. QED
    BY <1>1, <2>1, SendersRefine, HandlersRefine DEF Next
<1>2. QED
  BY <1>1, InitRefines, TypeCorrect, BookingInductive, PTL DEF Spec, RefinesBooking, Lock!Spec, live
=============================================================================
