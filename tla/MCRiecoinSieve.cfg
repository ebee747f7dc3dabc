\* The program may end with a bucket that is full.
SPECIFICATION Spec
CONSTANTS
  Targets <- SmallTargets
  primeTestTable <- SmallPrimes
  primorial = 6
  primorial_offset = 7
  primeTupleOffset <- Tuple
  riecoin_sieveSize = 16
  maxiter = 3
  riecoin_denseLimit = 6
  PENDING_SIZE = 4
  OFFSET_STACK_SIZE = 3
  num_entries_per_segment = 5
INVARIANTS
  SieveExact
  IndexesInBounds
CHECK_DEADLOCK FALSE
