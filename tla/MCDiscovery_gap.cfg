\* Two nodes and no failure: expected to violate CompleteTopology.
CONSTANTS
  d1 = d1
  d2 = d2
  Nodes = {d1, d2}
  MaxBreaks = 0
  Failures = {}
SPECIFICATION FairSpec
PROPERTIES
  CompleteTopology
CHECK_DEADLOCK FALSE
