CONSTANTS
  p1 = p1
  p2 = p2
  p3 = p3
  m1 = m1
  good = good
  garbled = garbled
  Peers = {p1, p2, p3}
  Machines = {m1}
  Replicas = {p1, p2}
  NoPeer = NoPeer
  MaxScore = 2
  Rank <- MCRank
  Text = {good, garbled}
  Parseable = {good}
  NoSpec = NoSpec
SPECIFICATION ClusterFairSpec
INVARIANTS
  ClusterTypeOK
  OwnerIsWinner
  NoDoubleRun
  OneRunner
PROPERTIES
  MinimalDisruption
  EventuallyOneRunner
