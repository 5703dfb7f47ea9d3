----------------------------- MODULE MCOperator -----------------------------
(* Objects that can collide: two machines of one name in two namespaces, and *)
(* a switch and a VLAN of that name.                                         *)
EXTENDS Operator

CONSTANTS ns1, ns2, n1, s1, s2

Obj(k, ns) == [kind |-> k, namespace |-> ns, name |-> n1]
MCObjects  == {Obj("machine", ns1), Obj("machine", ns2), Obj("switch", ns1), Obj("vlan", ns1)}
=============================================================================
