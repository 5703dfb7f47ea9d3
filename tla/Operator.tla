------------------------------ MODULE Operator ------------------------------
(***************************************************************************)
(* The controllers of neolaas-operator (machines, switches, VLANs):        *)
(* Kubernetes objects, the cache the controllers reconcile from, and the   *)
(* keys they keep in etcd through one client behind one lock.              *)
(*                                                                         *)
(* An object has a kind, a namespace and a name; its key in etcd has the   *)
(* prefix of its kind and the name alone.  A controller never reconciles   *)
(* one object twice at a time (kube's Controller), and different objects   *)
(* in any interleaving.                                                    *)
(***************************************************************************)
EXTENDS Naturals, Sequences

CONSTANTS
  Objects,       \* the objects users may create
  Specs,
  NoSpec,        \* no value under a key
  MaxChanges,    \* bound: what users do
  MaxErrors      \* bound: failed calls and crashes of the operator

Kinds == {"machine", "switch", "vlan"}

ASSUME ObjectsAssumption ==
  \A o \in Objects : DOMAIN o = {"kind", "namespace", "name"} /\ o.kind \in Kinds
ASSUME SpecsAssumption == NoSpec \notin Specs
ASSUME BoundsAssumption == MaxChanges \in Nat /\ MaxErrors \in Nat

VARIABLES
  object,        \* what the API server holds
  cache,         \* the controller's copy, which lags behind
  due,           \* objects with a reconciliation scheduled
  step,          \* step[o]: the next call of the reconciliation in progress
  taken,         \* taken[o]: the object it was given
  queue,         \* the lock of the etcd client: its holder, then those waiting
  etcd,          \* etcd[k]: the value of the key
  changes, errors

vars == <<object, cache, due, step, taken, queue, etcd, changes, errors>>

\* Mutant of key: the prefix is the same for all kinds.
key_without_kind(o) == <<"machine", o.name>>

\* MACHINES_PREFIX, SWITCHES_PREFIX or VLANS_PREFIX, and the name.
key(o) == <<o.kind, o.name>>

Keys == Kinds \X { o.name : o \in Objects }

Absent == [life |-> "absent", finalizer |-> "off", spec |-> NoSpec]
Object == [life : {"live", "deleting"}, finalizer : {"on", "off"}, spec : Specs] \cup {Absent}

TypeOK ==
  /\ object \in [Objects -> Object]
  /\ cache \in [Objects -> Object]
  /\ due \in SUBSET Objects
  /\ step \in [Objects -> {"none", "add_finalizer", "put", "delete", "remove_finalizer"}]
  /\ taken \in [Objects -> Object]
  /\ queue \in Seq(Objects)
  /\ etcd \in [Keys -> Specs \cup {NoSpec}]
  /\ changes \in Nat /\ errors \in Nat

Init ==
  /\ object = [o \in Objects |-> Absent] /\ cache = object /\ taken = object
  /\ due = {} /\ step = [o \in Objects |-> "none"]
  /\ queue = <<>> /\ etcd = [k \in Keys |-> NoSpec]
  /\ changes = 0 /\ errors = 0

-----------------------------------------------------------------------------
(* External: users and the API server.                                       *)

Change(o, new) ==
  /\ changes < MaxChanges /\ changes' = changes + 1
  /\ object' = [object EXCEPT ![o] = new]
  /\ UNCHANGED <<cache, due, step, taken, queue, etcd, errors>>

user_creates(o, s) ==
  object[o] = Absent /\ Change(o, [life |-> "live", finalizer |-> "off", spec |-> s])

user_updates(o, s) ==
  object[o].life = "live" /\ object[o].spec # s /\ Change(o, [object[o] EXCEPT !.spec = s])

\* With a finalizer the object stays until the finalizer is removed.
user_deletes(o) ==
  /\ object[o].life = "live"
  /\ Change(o, IF object[o].finalizer = "on" THEN [object[o] EXCEPT !.life = "deleting"] ELSE Absent)

\* The watch of the Controller: the cache catches up and the object is due.
watch_event(o) ==
  /\ cache[o] # object[o]
  /\ cache' = [cache EXCEPT ![o] = object[o]]
  /\ due' = due \cup {o}
  /\ UNCHANGED <<object, step, taken, queue, etcd, changes, errors>>

-----------------------------------------------------------------------------
(* reconcile.                                                                *)

\* External: kube's finalizer() chooses by the object it is given.
finalizer(x) ==
  CASE x.life = "live" /\ x.finalizer = "off"     -> "add_finalizer"
    [] x.life = "live" /\ x.finalizer = "on"      -> "put"
    [] x.life = "deleting" /\ x.finalizer = "on"  -> "delete"
    [] OTHER                                      -> "none"

\* Those that go on to etcd line up for the lock.  An object no longer in the
\* cache is not reconciled.
reconcile(o) ==
  /\ o \in due /\ step[o] = "none"
  /\ due' = due \ {o}
  /\ taken' = [taken EXCEPT ![o] = cache[o]]
  /\ step' = [step EXCEPT ![o] = finalizer(cache[o])]
  /\ queue' = IF step'[o] \in {"put", "delete"} THEN Append(queue, o) ELSE queue
  /\ UNCHANGED <<object, cache, etcd, changes, errors>>

\* etcd_client.write().await: tokio's lock is handed on in order.
Holds(o)   == queue # <<>> /\ Head(queue) = o
Unlock     == queue' = Tail(queue)

Finish(o) ==
  /\ step' = [step EXCEPT ![o] = "none"]
  /\ taken' = [taken EXCEPT ![o] = Absent]

\* What the call in progress does where it arrives.  A patch tests that the
\* object is as it was given; with its last finalizer the object goes.
Effect(o) ==
  \/ /\ step[o] = "add_finalizer" /\ object[o].life = "live"
     /\ object' = [object EXCEPT ![o].finalizer = "on"]
     /\ UNCHANGED etcd
  \/ /\ step[o] = "put"
     /\ etcd' = [etcd EXCEPT ![key(o)] = taken[o].spec]
     /\ UNCHANGED object
  \/ /\ step[o] = "delete"
     /\ etcd' = [etcd EXCEPT ![key(o)] = NoSpec]
     /\ UNCHANGED object
  \/ /\ step[o] = "remove_finalizer"
     /\ object' = [object EXCEPT ![o] = IF @.life = "deleting" THEN Absent ELSE @]
     /\ UNCHANGED etcd

\* await_change, or the patch is refused and the object retried.
add_finalizer(o) ==
  /\ step[o] = "add_finalizer"
  /\ Finish(o)
  /\ \/ Effect(o) /\ UNCHANGED due
     \/ /\ object[o].life # "live"
        /\ due' = due \cup {o}
        /\ UNCHANGED <<object, etcd>>
  /\ UNCHANGED <<cache, queue, changes, errors>>

\* Mutant of put: the whole object is stored, not its spec.
put_object(o) ==
  /\ step[o] = "put" /\ Holds(o)
  /\ Finish(o) /\ Unlock
  /\ etcd' = [etcd EXCEPT ![key(o)] = taken[o]]
  /\ due' = due \cup {o}
  /\ UNCHANGED <<object, cache, changes, errors>>

\* Event::Apply: the spec goes to etcd, the lock is dropped, requeue.
put(o) ==
  /\ step[o] = "put" /\ Holds(o)
  /\ Finish(o) /\ Unlock
  /\ Effect(o)
  /\ due' = due \cup {o}
  /\ UNCHANGED <<cache, changes, errors>>

put_machine(o) == o.kind = "machine" /\ put(o)
put_switch(o)  == o.kind = "switch" /\ put(o)
put_vlan(o)    == o.kind = "vlan" /\ put(o)

\* Mutant of delete: a failed call is taken for success.
delete_lossy(o) ==
  /\ step[o] = "delete" /\ Holds(o)
  /\ Unlock
  /\ etcd' \in {etcd, [etcd EXCEPT ![key(o)] = NoSpec]}
  /\ step' = [step EXCEPT ![o] = "remove_finalizer"]
  /\ UNCHANGED <<object, cache, due, taken, changes, errors>>

\* Event::Cleanup: the key is deleted and the lock dropped; finalizer() goes on.
delete(o) ==
  /\ step[o] = "delete" /\ Holds(o)
  /\ Unlock
  /\ Effect(o)
  /\ step' = [step EXCEPT ![o] = "remove_finalizer"]
  /\ UNCHANGED <<cache, due, taken, changes, errors>>

delete_machine(o) == o.kind = "machine" /\ delete(o)
delete_switch(o)  == o.kind = "switch" /\ delete(o)
delete_vlan(o)    == o.kind = "vlan" /\ delete(o)

remove_finalizer(o) ==
  /\ step[o] = "remove_finalizer"
  /\ Finish(o)
  /\ Effect(o)
  /\ UNCHANGED <<cache, due, queue, changes, errors>>

\* A call of this reconciliation is in progress, not a wait for the lock.
Calling(o) == step[o] \in {"add_finalizer", "remove_finalizer"} \/ (step[o] # "none" /\ Holds(o))

\* Mutant of error_policy: the object waits for its next change.
error_policy_waits(o) ==
  /\ errors < MaxErrors /\ errors' = errors + 1
  /\ Calling(o)
  /\ Finish(o)
  /\ IF Holds(o) THEN Unlock ELSE UNCHANGED queue
  /\ Effect(o) \/ UNCHANGED <<object, etcd>>
  /\ UNCHANGED <<cache, due, changes>>

\* A call fails, or its answer is lost after it took effect: the lock is dropped
\* and the reconciliation retried from its start.
error_policy(o) ==
  /\ errors < MaxErrors /\ errors' = errors + 1
  /\ Calling(o)
  /\ Finish(o)
  /\ IF Holds(o) THEN Unlock ELSE UNCHANGED queue
  /\ Effect(o) \/ UNCHANGED <<object, etcd>>
  /\ due' = due \cup {o}
  /\ UNCHANGED <<cache, changes>>

\* The operator dies between two calls, or one of its controllers ends and the
\* process with it; it starts again and lists all objects.
restart ==
  /\ errors < MaxErrors /\ errors' = errors + 1
  /\ step' = [o \in Objects |-> "none"] /\ taken' = [o \in Objects |-> Absent]
  /\ queue' = <<>>
  /\ cache' = object
  /\ due' = { o \in Objects : object[o] # Absent }
  /\ UNCHANGED <<object, etcd, changes>>

-----------------------------------------------------------------------------
\* The part of a reconciliation that is the same for all kinds.
Reconciliation(o) == reconcile(o) \/ add_finalizer(o) \/ remove_finalizer(o)

MachineController(o) == o.kind = "machine" /\ (Reconciliation(o) \/ put_machine(o) \/ delete_machine(o))
SwitchController(o)  == o.kind = "switch" /\ (Reconciliation(o) \/ put_switch(o) \/ delete_switch(o))
VlanController(o)    == o.kind = "vlan" /\ (Reconciliation(o) \/ put_vlan(o) \/ delete_vlan(o))

ControllerNext(o) == MachineController(o) \/ SwitchController(o) \/ VlanController(o)

UserNext(o) == \/ \E s \in Specs : user_creates(o, s) \/ user_updates(o, s)
               \/ user_deletes(o)

Next == \/ restart
        \/ \E o \in Objects : \/ watch_event(o)
                              \/ ControllerNext(o)
                              \/ error_policy(o)
                              \/ UserNext(o)

Spec == Init /\ [][Next]_vars

\* The watch and each object's reconciliations make progress: a call to etcd or
\* Kubernetes is answered or fails, and fails only MaxErrors times.
Fairness == \A o \in Objects : WF_vars(watch_event(o)) /\ WF_vars(ControllerNext(o))

FairSpec == Spec /\ Fairness

-----------------------------------------------------------------------------
(* Properties.                                                               *)

\* A key in etcd always has an object that will take it away: one of its kind
\* and name with the finalizer on.  No error, crash, stale copy or deletion
\* between two calls leaves a machine, switch or VLAN behind that nobody manages.
\* (reconcile, finalizer)
NoOrphanKey ==
  \A k \in Keys :
    etcd[k] # NoSpec => \E o \in Objects : key(o) = k /\ object[o].finalizer = "on"

Finalized(x) == x.life = "live" /\ x.finalizer = "on"

\* The copies of an object and the call in progress lag behind it only so far:
\* a spec is put only while the finalizer is on, and a deletion that has been
\* seen is not of an object that was created again and finalized since.
CopiesLag ==
  \A o \in Objects :
    /\ step[o] = "put" => object[o].finalizer = "on"
    /\ step[o] \in {"delete", "remove_finalizer"} => ~Finalized(object[o])
    /\ Finalized(cache[o]) => /\ object[o].finalizer = "on"
                              /\ step[o] \notin {"delete", "remove_finalizer"}
    /\ cache[o].life = "deleting" => /\ ~Finalized(object[o])
                                     /\ step[o] = "add_finalizer" => object[o].life = "deleting"

\* A key has an object that has still to delete it.
KeyIsManaged ==
  \A k \in Keys :
    etcd[k] # NoSpec =>
      \E o \in Objects : key(o) = k /\ object[o].finalizer = "on" /\ step[o] # "remove_finalizer"

\* The inductive invariant behind NoOrphanKey.
OperatorInv == CopiesLag /\ KeyIsManaged

\* An object being deleted goes away, however many reconciliations of all kinds
\* line up for the one lock and whichever of their calls fail.  (Event::Cleanup,
\* error_policy, Context::etcd)
DeletionCompletes == \A o \in Objects : (object[o].life = "deleting") ~> (object[o].life # "deleting")

\* The spec an object keeps ends up under its key, and stays there, as long as
\* no object of another namespace has the same kind and name: two that share a
\* key would overwrite each other at every requeue.  Objects of other kinds may
\* have the name.  (Event::Apply; main.rs:4 "Syncs Machine, Switch, and Vlan
\* resources to etcd")
ObjectsAreSynced ==
  \A o \in Objects, s \in Specs :
    <>[](/\ object[o].life = "live" /\ object[o].spec = s
         /\ \A x \in Objects \ {o} : x.kind = o.kind /\ x.name = o.name => object[x] = Absent)
    => <>[](etcd[<<o.kind, o.name>>] = s)

=============================================================================
