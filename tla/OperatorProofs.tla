---------------------------- MODULE OperatorProofs ----------------------------
(***************************************************************************)
(* Theorems about Operator for every set of objects and specs, any number  *)
(* of changes by users, of failed calls and of crashes.                    *)
(***************************************************************************)
EXTENDS Operator, TLAPS

USE SpecsAssumption, BoundsAssumption

LEMMA KeyTyped == \A o \in Objects : key(o) \in Keys
  BY ObjectsAssumption DEF key, Keys

LEMMA AbsentFacts == Absent \in Object /\ Absent.life = "absent" /\ Absent.finalizer = "off"
  BY DEF Absent, Object

LEMMA ObjectFacts ==
  ASSUME NEW x \in Object
  PROVE  /\ x.spec \in Specs \cup {NoSpec}
         /\ x.life \in {"live", "deleting", "absent"}
         /\ x.finalizer \in {"on", "off"}
         /\ x.life # "absent" => /\ x \in [life : {"live", "deleting"}, finalizer : {"on", "off"}, spec : Specs]
                                 /\ x.spec \in Specs
         /\ x.life = "absent" => x = Absent
  BY DEF Object, Absent

LEMMA InitTyped == Init => TypeOK
<1>1. <<>> \in Seq(Objects)
  OBVIOUS
<1>2. QED
  BY <1>1, AbsentFacts DEF Init, TypeOK

\* The lock passes on.
LEMMA UnlockTyped ==
  ASSUME TypeOK, NEW o, Holds(o), Unlock
  PROVE  queue' \in Seq(Objects)
  BY DEF TypeOK, Holds, Unlock

LEMMA FinishTyped ==
  ASSUME TypeOK, NEW o \in Objects, Finish(o)
  PROVE  /\ step' \in [Objects -> {"none", "add_finalizer", "put", "delete", "remove_finalizer"}]
         /\ taken' \in [Objects -> Object]
         /\ step'[o] = "none" /\ \A x \in Objects \ {o} : step'[x] = step[x]
  BY AbsentFacts DEF TypeOK, Finish

\* What the four calls do, by the step of the reconciliation.
LEMMA EffectFacts ==
  ASSUME TypeOK, NEW o \in Objects, Effect(o)
  PROVE  /\ object' \in [Objects -> Object] /\ etcd' \in [Keys -> Specs \cup {NoSpec}]
         /\ \A x \in Objects \ {o} : object'[x] = object[x]
         /\ \A k \in Keys \ {key(o)} : etcd'[k] = etcd[k]
         /\ step[o] = "add_finalizer" => /\ object[o].life = "live" /\ object'[o].life = "live"
                                         /\ object'[o].finalizer = "on" /\ etcd' = etcd
         /\ step[o] = "put" => object' = object
         /\ step[o] = "delete" => object' = object /\ etcd'[key(o)] = NoSpec
         /\ step[o] = "remove_finalizer" =>
              etcd' = etcd /\ object'[o] = (IF object[o].life = "deleting" THEN Absent ELSE object[o])
<1> USE KeyTyped
<1>1. object[o] \in Object /\ taken[o] \in Object
  BY DEF TypeOK
<1>2. CASE step[o] = "add_finalizer"
  <2>1. object[o].life = "live" /\ object' = [object EXCEPT ![o].finalizer = "on"] /\ etcd' = etcd
    BY <1>2 DEF Effect
  <2>2. object[o] \in [life : {"live", "deleting"}, finalizer : {"on", "off"}, spec : Specs]
    BY <1>1, <2>1, ObjectFacts
  <2>3. /\ [object[o] EXCEPT !.finalizer = "on"] \in Object
        /\ [object[o] EXCEPT !.finalizer = "on"].life = "live"
        /\ [object[o] EXCEPT !.finalizer = "on"].finalizer = "on"
    BY <2>1, <2>2 DEF Object
  <2>4. object'[o] = [object[o] EXCEPT !.finalizer = "on"]
    BY <2>1 DEF TypeOK
  <2>5. object' \in [Objects -> Object] /\ \A x \in Objects \ {o} : object'[x] = object[x]
    BY <2>1, <2>3 DEF TypeOK
  <2>6. QED
    BY <1>2, <2>1, <2>3, <2>4, <2>5 DEF TypeOK
<1>3. CASE step[o] = "put"
  BY <1>1, <1>3, ObjectFacts DEF Effect, TypeOK
<1>4. CASE step[o] = "delete"
  BY <1>4 DEF Effect, TypeOK
<1>5. CASE step[o] = "remove_finalizer"
  BY <1>5, AbsentFacts DEF Effect, TypeOK
<1>6. QED
  BY <1>2, <1>3, <1>4, <1>5 DEF Effect

LEMMA UsersTyped == ASSUME TypeOK, NEW o \in Objects, UserNext(o) PROVE TypeOK'
<1>1. ASSUME NEW x \in Object, Change(o, x) PROVE TypeOK'
  BY <1>1 DEF TypeOK, Change
<1>2. object[o] \in Object
  BY DEF TypeOK
<1>3. ASSUME NEW s \in Specs, user_creates(o, s) PROVE TypeOK'
  <2>1. [life |-> "live", finalizer |-> "off", spec |-> s] \in Object
    BY DEF Object
  <2>2. QED
    BY <1>1, <1>3, <2>1 DEF user_creates
<1>4. ASSUME NEW s \in Specs, user_updates(o, s) PROVE TypeOK'
  <2>1. [object[o] EXCEPT !.spec = s] \in Object
    BY <1>2, <1>4, ObjectFacts DEF user_updates, Object
  <2>2. QED
    BY <1>1, <1>4, <2>1 DEF user_updates
<1>5. CASE user_deletes(o)
  <2>1. [object[o] EXCEPT !.life = "deleting"] \in Object
    BY <1>2, <1>5, ObjectFacts DEF user_deletes, Object
  <2>2. QED
    BY <1>1, <1>5, <2>1, AbsentFacts DEF user_deletes
<1>6. QED
  BY <1>3, <1>4, <1>5 DEF UserNext

\* The actions that a reconciliation consists of, whatever the kind.
LEMMA ControllerActions ==
  ASSUME NEW o \in Objects, ControllerNext(o)
  PROVE  reconcile(o) \/ add_finalizer(o) \/ remove_finalizer(o) \/ put(o) \/ delete(o)
  BY DEF ControllerNext, MachineController, SwitchController, VlanController, Reconciliation,
         put_machine, put_switch, put_vlan, delete_machine, delete_switch, delete_vlan

LEMMA FinalizerTyped ==
  \A x : finalizer(x) \in {"none", "add_finalizer", "put", "delete", "remove_finalizer"}
  BY DEF finalizer

LEMMA ControllerTyped ==
  ASSUME TypeOK, NEW o \in Objects, ControllerNext(o) \/ error_policy(o)
  PROVE  TypeOK'
<1>1. CASE reconcile(o)
  <2>1. queue' \in Seq(Objects)
    BY <1>1 DEF reconcile, TypeOK
  <2>2. step' \in [Objects -> {"none", "add_finalizer", "put", "delete", "remove_finalizer"}]
    BY <1>1, FinalizerTyped DEF reconcile, TypeOK
  <2>3. QED
    BY <1>1, <2>1, <2>2 DEF reconcile, TypeOK
<1>2. CASE add_finalizer(o)
  <2>1. object' \in [Objects -> Object] /\ etcd' \in [Keys -> Specs \cup {NoSpec}]
    BY <1>2, EffectFacts DEF add_finalizer, TypeOK
  <2>2. QED
    BY <1>2, <2>1, FinishTyped DEF add_finalizer, TypeOK
<1>3. CASE remove_finalizer(o)
  <2>1. object' \in [Objects -> Object] /\ etcd' \in [Keys -> Specs \cup {NoSpec}]
    BY <1>3, EffectFacts DEF remove_finalizer
  <2>2. QED
    BY <1>3, <2>1, FinishTyped DEF remove_finalizer, TypeOK
<1>4. CASE put(o)
  <2>1. object' \in [Objects -> Object] /\ etcd' \in [Keys -> Specs \cup {NoSpec}]
    BY <1>4, EffectFacts DEF put
  <2>2. queue' \in Seq(Objects)
    BY <1>4, UnlockTyped DEF put
  <2>3. QED
    BY <1>4, <2>1, <2>2, FinishTyped DEF put, TypeOK
<1>5. CASE delete(o)
  <2>1. object' \in [Objects -> Object] /\ etcd' \in [Keys -> Specs \cup {NoSpec}]
    BY <1>5, EffectFacts DEF delete
  <2>2. queue' \in Seq(Objects)
    BY <1>5, UnlockTyped DEF delete
  <2>3. QED
    BY <1>5, <2>1, <2>2 DEF delete, TypeOK
<1>6. CASE error_policy(o)
  <2>1. object' \in [Objects -> Object] /\ etcd' \in [Keys -> Specs \cup {NoSpec}]
    BY <1>6, EffectFacts DEF error_policy, TypeOK
  <2>2. queue' \in Seq(Objects)
    BY <1>6, UnlockTyped DEF error_policy, TypeOK
  <2>3. QED
    BY <1>6, <2>1, <2>2, FinishTyped DEF error_policy, TypeOK
<1>7. QED
  BY <1>1, <1>2, <1>3, <1>4, <1>5, <1>6, ControllerActions

LEMMA NextTyped == ASSUME TypeOK, Next PROVE TypeOK'
<1>1. CASE restart
  <2>1. <<>> \in Seq(Objects)
    OBVIOUS
  <2>2. QED
    BY <1>1, <2>1, AbsentFacts DEF restart, TypeOK
<1>2. ASSUME NEW o \in Objects, watch_event(o) PROVE TypeOK'
  BY <1>2 DEF watch_event, TypeOK
<1>3. QED
  BY <1>1, <1>2, UsersTyped, ControllerTyped DEF Next

(* TypeOK holds in every reachable state: what the controllers put under a   *)
(* key is a spec, and the lock's queue holds only objects.                   *)
THEOREM TypeCorrect == Spec => []TypeOK
<1>1. ASSUME TypeOK, [Next]_vars PROVE TypeOK'
  <2>1. CASE UNCHANGED vars
    BY <1>1, <2>1 DEF TypeOK, vars
  <2>2. QED
    BY <1>1, <2>1, NextTyped
<1>2. QED
  BY <1>1, InitTyped, PTL DEF Spec

-----------------------------------------------------------------------------
(* No orphan key.                                                            *)

\* CopiesLag of one object.
LagOf(o) ==
  /\ step[o] = "put" => object[o].finalizer = "on"
  /\ step[o] \in {"delete", "remove_finalizer"} => ~Finalized(object[o])
  /\ Finalized(cache[o]) => /\ object[o].finalizer = "on"
                            /\ step[o] \notin {"delete", "remove_finalizer"}
  /\ cache[o].life = "deleting" => /\ ~Finalized(object[o])
                                   /\ step[o] = "add_finalizer" => object[o].life = "deleting"

LEMMA LagByObject == CopiesLag <=> \A o \in Objects : LagOf(o)
  BY DEF CopiesLag, LagOf

\* A step of one object leaves the copies of the others alone.
LEMMA OthersLag ==
  ASSUME CopiesLag, NEW o \in Objects, LagOf(o)',
         \A x \in Objects \ {o} : object'[x] = object[x] /\ cache'[x] = cache[x] /\ step'[x] = step[x]
  PROVE  CopiesLag'
<1>1. ASSUME NEW x \in Objects \ {o} PROVE LagOf(x)'
  BY LagByObject DEF LagOf
<1>2. QED
  BY <1>1 DEF CopiesLag, LagOf

\* KeyIsManaged survives a step of o that puts nothing new under a key, if o
\* keeps its finalizer and does not start to remove it, or was removing it.
LEMMA StillManaged ==
  ASSUME KeyIsManaged, NEW o \in Objects,
         \A k \in Keys : etcd'[k] = etcd[k] \/ etcd'[k] = NoSpec,
         \A x \in Objects \ {o} : object'[x] = object[x] /\ step'[x] = step[x],
         \/ object[o].finalizer # "on" \/ step[o] = "remove_finalizer"
         \/ object'[o].finalizer = "on" /\ step'[o] # "remove_finalizer"
         \/ key(o) \in Keys /\ etcd'[key(o)] = NoSpec
  PROVE  KeyIsManaged'
<1>1. ASSUME NEW k \in Keys, etcd'[k] # NoSpec
      PROVE  \E x \in Objects : key(x) = k /\ object'[x].finalizer = "on" /\ step'[x] # "remove_finalizer"
  <2>1. PICK x \in Objects : key(x) = k /\ object[x].finalizer = "on" /\ step[x] # "remove_finalizer"
    BY <1>1 DEF KeyIsManaged
  <2>2. CASE x # o
    BY <2>1, <2>2
  <2>3. CASE x = o
    BY <1>1, <2>1, <2>3
  <2>4. QED
    BY <2>2, <2>3
<1>2. QED
  BY <1>1 DEF KeyIsManaged, key

LEMMA UsersKeep == ASSUME TypeOK, OperatorInv, NEW o \in Objects, UserNext(o) PROVE OperatorInv'
<1>1. object[o] \in Object
  BY DEF TypeOK
<1>2. PICK x : /\ Change(o, x)
               /\ x.finalizer = object[o].finalizer
               /\ Finalized(x) => Finalized(object[o])
               /\ object[o].life = "deleting" => x.life = "deleting"
  <2>1. ASSUME NEW s \in Specs, user_creates(o, s)
        PROVE  LET x == [life |-> "live", finalizer |-> "off", spec |-> s] IN
                 /\ Change(o, x) /\ x.finalizer = object[o].finalizer /\ ~Finalized(x)
                 /\ object[o].life # "deleting"
    BY <2>1, AbsentFacts DEF user_creates, Finalized
  <2>2. ASSUME NEW s \in Specs, user_updates(o, s)
        PROVE  LET x == [object[o] EXCEPT !.spec = s] IN
                 /\ Change(o, x) /\ x.finalizer = object[o].finalizer
                 /\ Finalized(x) => Finalized(object[o])
                 /\ object[o].life # "deleting"
    BY <1>1, <2>2, ObjectFacts DEF user_updates, Finalized
  <2>3. CASE user_deletes(o) /\ object[o].finalizer = "on"
    <3>1. LET x == [object[o] EXCEPT !.life = "deleting"] IN
            /\ Change(o, x) /\ x.finalizer = object[o].finalizer /\ ~Finalized(x)
            /\ object[o].life # "deleting"
      BY <1>1, <2>3, ObjectFacts DEF user_deletes, Finalized
    <3>2. QED
      BY <3>1
  <2>4. CASE user_deletes(o) /\ object[o].finalizer # "on"
    <3>1. /\ Change(o, Absent) /\ Absent.finalizer = object[o].finalizer /\ ~Finalized(Absent)
          /\ object[o].life # "deleting"
      BY <1>1, <2>4, ObjectFacts, AbsentFacts DEF user_deletes, Finalized
    <3>2. QED
      BY <3>1
  <2>5. QED
    BY <2>1, <2>2, <2>3, <2>4 DEF UserNext
<1>3. /\ object'[o] = x /\ UNCHANGED <<cache, step, etcd>>
      /\ \A y \in Objects \ {o} : object'[y] = object[y]
  BY <1>2 DEF Change, TypeOK
<1>4. LagOf(o)'
  BY <1>2, <1>3, LagByObject DEF OperatorInv, LagOf
<1>5. CopiesLag'
  BY <1>3, <1>4, OthersLag DEF OperatorInv
<1>6. KeyIsManaged'
  BY <1>2, <1>3, StillManaged DEF OperatorInv
<1>7. QED
  BY <1>5, <1>6 DEF OperatorInv

\* A call of o takes effect and its reconciliation ends.
LEMMA EndKeeps ==
  ASSUME TypeOK, OperatorInv, NEW o \in Objects, Finish(o), Effect(o), UNCHANGED cache
  PROVE  OperatorInv'
<1>1. step'[o] = "none" /\ \A x \in Objects \ {o} : step'[x] = step[x]
  BY FinishTyped
<1>2. LagOf(o)
  BY LagByObject DEF OperatorInv
<1>3. CASE step[o] = "add_finalizer"
  <2>1. /\ object[o].life = "live" /\ object'[o].finalizer = "on" /\ etcd' = etcd
        /\ \A x \in Objects \ {o} : object'[x] = object[x]
    BY <1>3, EffectFacts
  <2>2. LagOf(o)'
    BY <1>1, <1>2, <1>3, <2>1 DEF LagOf
  <2>3. CopiesLag' /\ KeyIsManaged'
    BY <1>1, <2>1, <2>2, OthersLag, StillManaged DEF OperatorInv
  <2>4. QED
    BY <2>3 DEF OperatorInv
<1>4. CASE step[o] = "put"
  <2>1. object' = object /\ \A k \in Keys \ {key(o)} : etcd'[k] = etcd[k]
    BY <1>4, EffectFacts
  <2>2. LagOf(o)' /\ object[o].finalizer = "on"
    BY <1>1, <1>2, <1>4, <2>1 DEF LagOf
  <2>3. CopiesLag'
    BY <1>1, <2>1, <2>2, OthersLag DEF OperatorInv
  <2>4. ASSUME NEW k \in Keys, etcd'[k] # NoSpec
        PROVE  \E x \in Objects : key(x) = k /\ object'[x].finalizer = "on" /\ step'[x] # "remove_finalizer"
    <3>1. CASE k = key(o)
      BY <1>1, <2>1, <2>2, <3>1
    <3>2. CASE k # key(o)
      <4>1. PICK x \in Objects : key(x) = k /\ object[x].finalizer = "on" /\ step[x] # "remove_finalizer"
        BY <2>1, <2>4, <3>2 DEF OperatorInv, KeyIsManaged
      <4>2. QED
        BY <1>1, <2>1, <3>2, <4>1
    <3>3. QED
      BY <3>1, <3>2
  <2>5. KeyIsManaged'
    BY <2>4 DEF KeyIsManaged, key
  <2>6. QED
    BY <2>3, <2>5 DEF OperatorInv
<1>5. CASE step[o] = "delete"
  <2>1. object' = object /\ etcd'[key(o)] = NoSpec /\ \A k \in Keys \ {key(o)} : etcd'[k] = etcd[k]
    BY <1>5, EffectFacts
  <2>2. LagOf(o)'
    BY <1>1, <1>2, <1>5, <2>1 DEF LagOf
  <2>3. CopiesLag' /\ KeyIsManaged'
    BY <1>1, <2>1, <2>2, KeyTyped, OthersLag, StillManaged DEF OperatorInv
  <2>4. QED
    BY <2>3 DEF OperatorInv
<1>6. CASE step[o] = "remove_finalizer"
  <2>1. /\ etcd' = etcd /\ \A x \in Objects \ {o} : object'[x] = object[x]
        /\ object'[o] = Absent \/ object'[o] = object[o]
    BY <1>6, EffectFacts
  <2>2. LagOf(o)'
    BY <1>1, <1>2, <1>6, <2>1, AbsentFacts DEF LagOf, Finalized
  <2>3. CopiesLag' /\ KeyIsManaged'
    BY <1>1, <1>6, <2>1, <2>2, OthersLag, StillManaged DEF OperatorInv
  <2>4. QED
    BY <2>3 DEF OperatorInv
<1>7. QED
  BY <1>3, <1>4, <1>5, <1>6 DEF Effect

\* The reconciliation of o ends and nothing else happens.
LEMMA GiveUpKeeps ==
  ASSUME TypeOK, OperatorInv, NEW o \in Objects, Finish(o), UNCHANGED <<object, etcd, cache>>
  PROVE  OperatorInv'
<1>1. step'[o] = "none" /\ \A x \in Objects \ {o} : step'[x] = step[x]
  BY FinishTyped
<1>2. LagOf(o)'
  BY <1>1, LagByObject DEF OperatorInv, LagOf
<1>3. CopiesLag' /\ KeyIsManaged'
  BY <1>1, <1>2, OthersLag, StillManaged DEF OperatorInv
<1>4. QED
  BY <1>3 DEF OperatorInv

LEMMA ControllerKeeps ==
  ASSUME TypeOK, OperatorInv, NEW o \in Objects, ControllerNext(o) \/ error_policy(o)
  PROVE  OperatorInv'
<1>1. LagOf(o)
  BY LagByObject DEF OperatorInv
<1>2. CASE reconcile(o)
  <2>1. /\ step'[o] = finalizer(cache[o]) /\ \A x \in Objects \ {o} : step'[x] = step[x]
        /\ UNCHANGED <<object, cache, etcd>>
    BY <1>2 DEF reconcile, TypeOK
  <2>2. cache[o] \in Object
    BY DEF TypeOK
  <2>3. /\ finalizer(cache[o]) # "remove_finalizer"
        /\ finalizer(cache[o]) = "put" => Finalized(cache[o])
        /\ finalizer(cache[o]) = "delete" => cache[o].life = "deleting"
        /\ finalizer(cache[o]) = "add_finalizer" => cache[o].life = "live" /\ ~Finalized(cache[o])
    BY <2>2, ObjectFacts DEF finalizer, Finalized
  <2>4. LagOf(o)'
    BY <1>1, <2>1, <2>3 DEF LagOf, Finalized
  <2>5. CopiesLag' /\ KeyIsManaged'
    BY <2>1, <2>3, <2>4, OthersLag, StillManaged DEF OperatorInv
  <2>6. QED
    BY <2>5 DEF OperatorInv
<1>3. CASE add_finalizer(o)
  BY <1>3, EndKeeps, GiveUpKeeps DEF add_finalizer
<1>4. CASE remove_finalizer(o)
  BY <1>4, EndKeeps DEF remove_finalizer
<1>5. CASE put(o)
  BY <1>5, EndKeeps DEF put
<1>6. CASE delete(o)
  <2>1. /\ object' = object /\ cache' = cache /\ etcd'[key(o)] = NoSpec
        /\ \A k \in Keys \ {key(o)} : etcd'[k] = etcd[k]
    BY <1>6, EffectFacts DEF delete
  <2>2. step[o] = "delete" /\ step'[o] = "remove_finalizer" /\ \A x \in Objects \ {o} : step'[x] = step[x]
    BY <1>6 DEF delete, TypeOK
  <2>3. LagOf(o)'
    BY <1>1, <2>1, <2>2 DEF LagOf
  <2>4. CopiesLag' /\ KeyIsManaged'
    BY <2>1, <2>2, <2>3, KeyTyped, OthersLag, StillManaged DEF OperatorInv
  <2>5. QED
    BY <2>4 DEF OperatorInv
<1>7. CASE error_policy(o)
  BY <1>7, EndKeeps, GiveUpKeeps DEF error_policy
<1>8. QED
  BY <1>2, <1>3, <1>4, <1>5, <1>6, <1>7, ControllerActions

LEMMA NextKeeps == ASSUME TypeOK, OperatorInv, Next PROVE OperatorInv'
<1>1. CASE restart
  <2>1. \A o \in Objects : step'[o] = "none" /\ cache'[o] = object'[o] /\ object'[o] = object[o]
    BY <1>1 DEF restart
  <2>2. \A o \in Objects : LagOf(o)'
    BY <2>1 DEF LagOf, Finalized
  <2>3. CopiesLag'
    BY <2>2 DEF CopiesLag, LagOf
  <2>4. KeyIsManaged'
    BY <1>1, <2>1 DEF restart, OperatorInv, KeyIsManaged
  <2>5. QED
    BY <2>3, <2>4 DEF OperatorInv
<1>2. ASSUME NEW o \in Objects, watch_event(o) PROVE OperatorInv'
  <2>1. /\ cache'[o] = object[o] /\ \A x \in Objects \ {o} : cache'[x] = cache[x]
        /\ UNCHANGED <<object, step, etcd>>
    BY <1>2 DEF watch_event, TypeOK
  <2>2. LagOf(o)'
    BY <2>1, LagByObject DEF OperatorInv, LagOf, Finalized
  <2>3. CopiesLag'
    BY <2>1, <2>2, OthersLag DEF OperatorInv
  <2>4. KeyIsManaged'
    BY <2>1 DEF OperatorInv, KeyIsManaged
  <2>5. QED
    BY <2>3, <2>4 DEF OperatorInv
<1>3. QED
  BY <1>1, <1>2, UsersKeep, ControllerKeeps DEF Next

(* OperatorInv is inductive: a stale copy of an object is never older than   *)
(* the deletion of its predecessor, and every key has an object that has     *)
(* still to delete it.                                                       *)
THEOREM OperatorInductive == Spec => []OperatorInv
<1>1. Init => OperatorInv
  BY AbsentFacts DEF Init, OperatorInv, CopiesLag, KeyIsManaged, Finalized
<1>2. ASSUME TypeOK, OperatorInv, [Next]_vars PROVE OperatorInv'
  <2>1. CASE UNCHANGED vars
    BY <1>2, <2>1 DEF vars, OperatorInv, CopiesLag, KeyIsManaged
  <2>2. QED
    BY <1>2, <2>1, NextKeeps
<1>3. QED
  BY <1>1, <1>2, TypeCorrect, PTL DEF Spec

(* NoOrphanKey: whatever users do, whichever calls fail or lose their answer *)
(* and whenever the operator crashes, a key in etcd has an object of its     *)
(* kind and name with the finalizer on.                                      *)
THEOREM NoOrphan == Spec => []NoOrphanKey
<1>1. OperatorInv => NoOrphanKey
  BY DEF OperatorInv, KeyIsManaged, NoOrphanKey
<1>2. QED
  BY <1>1, OperatorInductive, PTL
=============================================================================
