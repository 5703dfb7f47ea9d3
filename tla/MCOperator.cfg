\* Two namespaces with a machine of one name, a switch and a VLAN of that name.
CONSTANTS
  ns1 = ns1
  ns2 = ns2
  n1 = n1
  s1 = s1
  s2 = s2
  Objects <- MCObjects
  Specs = {s1, s2}
  NoSpec = NoSpec
  MaxChanges = 3
  MaxErrors = 2
SPECIFICATION FairSpec
INVARIANTS
  TypeOK
  NoOrphanKey
PROPERTIES
  DeletionCompletes
  ObjectsAreSynced
CHECK_DEADLOCK FALSE
