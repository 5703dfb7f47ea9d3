\* Two peers, one of them without an IPv4 address.
CONSTANTS
  p1 = p1
  p2 = p2
  Peers = {p1, p2}
  Addressable = {p1}
  Lookups <- AnyLookup
  failure_threshold = 1
  max_failures = 3
  backoff_base = 2
  max_backoff_power = 2
  stale_peer_max_age = 3
  MaxAge = 4
  MaxConnections = 2
  None = None
SPECIFICATION FairSpec
INVARIANTS
  TypeOK
  FailureAccount
  NoPingToFailed
  TracksDiscovery
PROPERTIES
  BackoffEnds
  AnsweringIsConnected
  FailedIsCleanedUp
