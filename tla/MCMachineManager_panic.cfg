CONSTANTS
  n1 = n1
  n2 = n2
  m1 = m1
  m2 = m2
  good = good
  newer = newer
  garbled = garbled
  binary = binary
  Peers = {n1, n2}
  Machines = {m1}
  Rank <- MCRank
  Score <- MCScore
  NoPeer = NoPeer
  NoSpec = NoSpec
  Local = n1
  Specs = {good, newer}
  Text = {good, newer}
  Parseable = {good, newer}
  MailboxCap = 2
  MaxTopology = 2
  MaxWrites = 2
  MaxBreaks = 0
SPECIFICATION Spec
INVARIANT ManagerSurvives
CHECK_DEADLOCK FALSE
