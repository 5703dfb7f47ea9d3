CONSTANTS
  n1 = n1
  n2 = n2
  m1 = m1
  m2 = m2
  good = good
  newer = newer
  garbled = garbled
  binary = binary
  Peers = {n1, n2}
  Machines = {m1, m2}
  Rank <- MCRank
  Score <- MCScore
  NoPeer = NoPeer
  NoSpec = NoSpec
  Local = n1
  Specs = {good}
  Text = {good}
  Parseable = {good}
  MailboxCap = 2
  MaxTopology = 3
  MaxWrites = 1
  MaxBreaks = 0
SPECIFICATION Spec
INVARIANT SpawnsOnConvergedTopology
CHECK_DEADLOCK FALSE
