\* Two nodes, every failure the controller can meet.
CONSTANTS
  d1 = d1
  d2 = d2
  Nodes = {d1, d2}
  MaxBreaks = 1
  Failures = {"error", "crash", "sigterm", "expiry", "keepalive", "canceled", "ended"}
SPECIFICATION FairSpec
INVARIANTS
  TypeOK
  TopologyTracksEtcd
  MutualAwareness
PROPERTIES
  DepartedIsForgotten
  LeavesWhenTold
CHECK_DEADLOCK FALSE
