\* Two restarts per window of three ticks; a word that saturates at 7.
CONSTANTS
  max_restarts = 2
  window = 3
  backoff = 1
  max_backoff = 10
  Word = 7
  MaxTime = 11
  MaxConsecutive = 5
SPECIFICATION Spec
INVARIANTS
  TypeOK
  RateLimited
PROPERTIES
  ExhaustedMeansDenied
  DeniedByAllowedOnly
  BackoffGrows
