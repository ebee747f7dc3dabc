\* A second merkle root at the height being mined.
SPECIFICATION Spec
CONSTANTS
  None = None
  MinerThreads = {t1, t2}
  VwqSize = 2
  WdqSize = 4
  TdqSize = 5
  MaxIter = 1
  PrimorialNumber = 1
  PrimeTestSize = 5
  NDense = 1
  NSparse = 2
  ModParts = 2
  NSieveWorkers = 2
  SieveSlack = 1
  WorkIndexes = 2
  MaxCandidates = 1
  Heights = {1, 2}
  Roots = {r1, r2}
  SeedLimit = 1
INVARIANT
  NewDataNotified
