----------------------------- MODULE MachineActor -----------------------------
(***************************************************************************)
(* The MachineActors of one machine (network/machines/actor.rs) with the   *)
(* manager that creates and stops them and the clients that book the       *)
(* machine.                                                                *)
(*                                                                         *)
(* stop_machine_actor drops the reference and sends the actor a stop signal*)
(* that queues behind the requests it has (kameo's stop_gracefully); the   *)
(* manager does not wait for it.  A successor, on this node or on the next *)
(* owner, may therefore answer requests while its predecessor still does:  *)
(* every incarnation is an actor of its own, with its own mailbox.         *)
(***************************************************************************)
EXTENDS Naturals, Sequences

CONSTANTS
  Bookings,       \* booking ids, one client each
  AdminStates,    \* values of adminState in the specs of the machine
  MaxActors,      \* bound: incarnations of the machine's actor
  MailboxCap,     \* capacity of an actor's mailbox
  Free,           \* Option::None of current_booking
  NoActor         \* the manager holds no reference

ASSUME MaxActorsAssumption == MaxActors \in Nat /\ MailboxCap \in Nat \ {0}
ASSUME FreeAssumption == Free \notin Bookings
ASSUME AdminStatesAssumption == "available" \in AdminStates /\ "unparseable" \notin AdminStates
ASSUME NoActorAssumption == NoActor \notin 1..MaxActors

VARIABLES
  status,           \* status[i]: "unborn", "up" or "stopped"
  admin_state,      \* admin_state[i]: spec.admin_state
  state,            \* state[i]: MachineState
  current_booking,  \* current_booking[i]
  mailbox,          \* mailbox[i]: requests not yet handled
  current,          \* the incarnation the manager holds a reference to
  client,           \* client[b]: what the client of b knows
  asked             \* asked[b]: the incarnation b's client last addressed

vars == <<status, admin_state, state, current_booking, mailbox, current, client, asked>>

Incarnations == 1..MaxActors

\* An update whose text does not parse.
Unparseable == "unparseable"

\* MachineState.  Provisioning and Deprovisioning are left again before the
\* handler that enters them returns, and no code enters Error.
MachineState == {"initializing", "idle", "booked"}

\* The messages of the manager and of clients; CheckOwnership is never sent.
Request == [type : {"provision", "deprovision"}, booking : Bookings]
             \cup [type : {"update"}, spec : AdminStates \cup {Unparseable}]
             \cup [type : {"status", "stop"}]

TypeOK ==
  /\ status \in [Incarnations -> {"unborn", "up", "stopped"}]
  /\ admin_state \in [Incarnations -> AdminStates]
  /\ state \in [Incarnations -> MachineState]
  /\ current_booking \in [Incarnations -> Bookings \cup {Free}]
  /\ mailbox \in [Incarnations -> Seq(Request)]
  /\ current \in Incarnations \cup {NoActor}
  /\ client \in [Bookings -> {"none", "provisioning", "held", "deprovisioning"}]
  /\ asked \in [Bookings -> Incarnations \cup {NoActor}]

Init ==
  /\ status = [i \in Incarnations |-> "unborn"]
  /\ admin_state = [i \in Incarnations |-> "available"]
  /\ state = [i \in Incarnations |-> "initializing"]
  /\ current_booking = [i \in Incarnations |-> Free]
  /\ mailbox = [i \in Incarnations |-> <<>>]
  /\ current = NoActor
  /\ client = [b \in Bookings |-> "none"]
  /\ asked = [b \in Bookings |-> NoActor]

-----------------------------------------------------------------------------
(* The manager.                                                              *)

\* spawn_machine_actor: MachineActor::with_node_id, state Initializing and no
\* booking, whatever an earlier incarnation knew.
with_node_id(i, a) ==
  /\ current = NoActor /\ status[i] = "unborn"
  /\ \A j \in Incarnations : j < i => status[j] # "unborn"
  /\ status' = [status EXCEPT ![i] = "up"]
  /\ admin_state' = [admin_state EXCEPT ![i] = a]
  /\ current' = i
  /\ UNCHANGED <<state, current_booking, mailbox, client, asked>>

Send(i, r) ==
  /\ Len(mailbox[i]) < MailboxCap
  /\ mailbox' = [mailbox EXCEPT ![i] = Append(@, r)]

\* stop_machine_actor: the reference goes, the stop signal queues.
stop_machine_actor ==
  /\ current # NoActor
  /\ Send(current, [type |-> "stop"])
  /\ current' = NoActor
  /\ UNCHANGED <<status, admin_state, state, current_booking, client, asked>>

\* UpdateMachineSpec of a machine PUT, GetMachineStatus of the machines API.
manager_asks ==
  /\ current # NoActor
  /\ \/ Send(current, [type |-> "status"])
     \/ \E a \in AdminStates \cup {Unparseable} : Send(current, [type |-> "update", spec |-> a])
  /\ UNCHANGED <<status, admin_state, state, current_booking, current, client, asked>>

-----------------------------------------------------------------------------
(* The clients: an ask each, answered or failed before the next one, sent to *)
(* any actor of the machine that is still up: a reference outlives the       *)
(* manager's.  External: the API that will send these is not written yet.    *)

ask_provision(b, i) ==
  /\ status[i] = "up" /\ client[b] = "none"
  /\ Send(i, [type |-> "provision", booking |-> b])
  /\ client' = [client EXCEPT ![b] = "provisioning"]
  /\ asked' = [asked EXCEPT ![b] = i]
  /\ UNCHANGED <<status, admin_state, state, current_booking, current>>

\* A client ends its own booking, perhaps at another actor than the one that
\* granted it.
ask_deprovision(b, i) ==
  /\ status[i] = "up" /\ client[b] = "held"
  /\ Send(i, [type |-> "deprovision", booking |-> b])
  /\ client' = [client EXCEPT ![b] = "deprovisioning"]
  /\ asked' = [asked EXCEPT ![b] = i]
  /\ UNCHANGED <<status, admin_state, state, current_booking, current>>

-----------------------------------------------------------------------------
(* The handlers.                                                             *)

Receives(i, type) == status[i] = "up" /\ mailbox[i] # <<>> /\ Head(mailbox[i]).type = type

\* r is the ask of b's client.
IsFrom(r, b) == r.type \in {"provision", "deprovision"} /\ r.booking = b

Take(i) == mailbox' = [mailbox EXCEPT ![i] = Tail(@)]

\* initialize(): Initializing becomes Idle; no stored booking is read.
initialize(i) == IF state[i] = "initializing" THEN "idle" ELSE state[i]

\* The handler of GetMachineStatus.
GetMachineStatus(i) ==
  /\ Receives(i, "status") /\ Take(i)
  /\ state' = [state EXCEPT ![i] = initialize(i)]
  /\ UNCHANGED <<status, admin_state, current_booking, current, client, asked>>

\* Mutant of UpdateMachineSpec: a spec that does not parse is taken all the same.
UpdateMachineSpec_raw(i) ==
  /\ Receives(i, "update") /\ Take(i)
  /\ admin_state' = [admin_state EXCEPT ![i] = Head(mailbox[i]).spec]
  /\ UNCHANGED <<status, state, current_booking, current, client, asked>>

\* The handler of UpdateMachineSpec: neither state nor booking changes.
UpdateMachineSpec(i) ==
  /\ Receives(i, "update") /\ Take(i)
  /\ LET a == Head(mailbox[i]).spec IN
       admin_state' = [admin_state EXCEPT ![i] = IF a \in AdminStates THEN a ELSE @]
  /\ UNCHANGED <<status, state, current_booking, current, client, asked>>

\* Mutant of ProvisionMachine: the state is not looked at.
ProvisionMachine_unchecked(i) ==
  /\ Receives(i, "provision") /\ Take(i)
  /\ LET b == Head(mailbox[i]).booking
         bookable == admin_state[i] \in {"available", "reserved"}
     IN IF bookable
          THEN /\ state' = [state EXCEPT ![i] = "booked"]
               /\ current_booking' = [current_booking EXCEPT ![i] = b]
               /\ client' = [client EXCEPT ![b] = "held"]
          ELSE /\ state' = [state EXCEPT ![i] = initialize(i)]
               /\ client' = [client EXCEPT ![b] = "none"]
               /\ UNCHANGED current_booking
  /\ UNCHANGED <<status, admin_state, current, asked>>

\* The handler of ProvisionMachine.  Provisioning is left before the handler
\* returns; the reply reaches the client of b.
ProvisionMachine(i) ==
  /\ Receives(i, "provision") /\ Take(i)
  /\ LET b == Head(mailbox[i]).booking
         bookable == initialize(i) = "idle" /\ admin_state[i] \in {"available", "reserved"}
     IN IF bookable
          THEN /\ state' = [state EXCEPT ![i] = "booked"]
               /\ current_booking' = [current_booking EXCEPT ![i] = b]
               /\ client' = [client EXCEPT ![b] = "held"]
          ELSE /\ state' = [state EXCEPT ![i] = initialize(i)]
               /\ client' = [client EXCEPT ![b] = "none"]
               /\ UNCHANGED current_booking
  /\ UNCHANGED <<status, admin_state, current, asked>>

\* Mutant of DeprovisionMachine: any client ends the booking.
DeprovisionMachine_any(i) ==
  /\ Receives(i, "deprovision") /\ Take(i)
  /\ LET b == Head(mailbox[i]).booking IN
       /\ state' = [state EXCEPT ![i] = "idle"]
       /\ current_booking' = [current_booking EXCEPT ![i] = Free]
       /\ client' = [client EXCEPT ![b] = "none"]
  /\ UNCHANGED <<status, admin_state, current, asked>>

\* Mutant of DeprovisionMachine: the booking stays when the state is idle.
DeprovisionMachine_keeps_booking(i) ==
  /\ Receives(i, "deprovision") /\ Take(i)
  /\ LET b == Head(mailbox[i]).booking
         ends == current_booking[i] = b /\ state[i] = "booked"
     IN /\ state' = [state EXCEPT ![i] = IF ends THEN "idle" ELSE initialize(i)]
        /\ client' = [client EXCEPT ![b] = "none"]
  /\ UNCHANGED <<status, admin_state, current_booking, current, asked>>

\* The handler of DeprovisionMachine: another booking's machine, or one that
\* is not booked, is left alone and the client gets an error.
DeprovisionMachine(i) ==
  /\ Receives(i, "deprovision") /\ Take(i)
  /\ LET b == Head(mailbox[i]).booking
         ends == current_booking[i] = b /\ state[i] = "booked"
     IN /\ state' = [state EXCEPT ![i] = IF ends THEN "idle" ELSE initialize(i)]
        /\ current_booking' = [current_booking EXCEPT ![i] = IF ends THEN Free ELSE @]
        /\ client' = [client EXCEPT ![b] = "none"]
  /\ UNCHANGED <<status, admin_state, current, asked>>

\* The stop signal is reached: the actor ends and the asks still queued fail.
Stop(i) ==
  /\ Receives(i, "stop")
  /\ status' = [status EXCEPT ![i] = "stopped"]
  /\ mailbox' = [mailbox EXCEPT ![i] = <<>>]
  /\ client' = [b \in Bookings |->
                  IF \E k \in 1..Len(mailbox[i]) : IsFrom(mailbox[i][k], b) THEN "none" ELSE client[b]]
  /\ UNCHANGED <<admin_state, state, current_booking, current, asked>>

ActorNext(i) == \/ GetMachineStatus(i)
                \/ UpdateMachineSpec(i)
                \/ ProvisionMachine(i)
                \/ DeprovisionMachine(i)
                \/ Stop(i)

Next == \/ \E i \in Incarnations, a \in AdminStates : with_node_id(i, a)
        \/ stop_machine_actor
        \/ manager_asks
        \/ \E b \in Bookings, i \in Incarnations : ask_provision(b, i) \/ ask_deprovision(b, i)
        \/ \E i \in Incarnations : ActorNext(i)

Spec == Init /\ [][Next]_vars

-----------------------------------------------------------------------------
(* Properties.                                                               *)

\* The state of the abstract booking lock.
Lock == INSTANCE Booking WITH
          holder <- current_booking,
          live   <- { i \in Incarnations : status[i] = "up" }

(* Each incarnation is the lock of Booking.tla: it grants the machine only   *)
(* when nobody has it, takes it back only from the booking that has it, and  *)
(* forgets nothing but by stopping, in whatever order requests, spec updates *)
(* and stops are queued (the checks of ProvisionMachine, actor.rs:223, and   *)
(* DeprovisionMachine, actor.rs:292-302).                                    *)
RefinesBooking == Lock!Spec

(* A client that was told "success" by ProvisionMachine and has not asked to *)
(* deprovision is still the booking on record at the actor that told it so.  *)
(* In particular one actor never serves two holders.                         *)
HeldIsGranted ==
  \A b \in Bookings :
    client[b] = "held" => /\ asked[b] \in Incarnations
                          /\ current_booking[asked[b]] = b
                          /\ state[asked[b]] = "booked"

(* The operational state tells the truth about the booking (messages.rs:42   *)
(* "Machine is currently booked/in-use"), whichever handler ran last.        *)
StateMatchesBooking ==
  \A i \in Incarnations : state[i] = "booked" <=> current_booking[i] # Free

\* A queued ask is the only one of its client, which waits for this very actor.
AskedOnce ==
  \A i \in Incarnations : \A k \in 1..Len(mailbox[i]) : \A b \in Bookings :
    IsFrom(mailbox[i][k], b) =>
      /\ asked[b] = i
      /\ client[b] = IF mailbox[i][k].type = "provision" THEN "provisioning" ELSE "deprovisioning"
      /\ \A l \in 1..Len(mailbox[i]) : IsFrom(mailbox[i][l], b) => l = k

\* The inductive invariant behind HeldIsGranted and RefinesBooking.
BookingInv ==
  /\ StateMatchesBooking
  /\ HeldIsGranted
  /\ AskedOnce
  /\ \A i \in Incarnations : status[i] = "unborn" => current_booking[i] = Free

(* messages.rs:40-41 "Machine is idle and available", messages.rs:38-39      *)
(* "Actor just started, loading state": an actor in service that reports the *)
(* machine idle does so only if no client holds it.  An actor that replaces  *)
(* another loads nothing and starts idle.                                    *)
IdleMeansAvailable ==
  \A i \in Incarnations :
    i = current /\ state[i] = "idle" => \A b \in Bookings : client[b] # "held"
=============================================================================
