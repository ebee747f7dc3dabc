\* Fair miner threads, an unfair server and connection.
SPECIFICATION FairSpec
CONSTANTS
  None = None
  MinerThreads = {t1, t2, t3}
  VwqSize = 1
  WdqSize = 4
  TdqSize = 4
  MaxIter = 2
  PrimorialNumber = 1
  PrimeTestSize = 3
  NDense = 1
  NSparse = 1
  ModParts = 1
  NSieveWorkers = 2
  SieveSlack = 1
  WorkIndexes = 1
  MaxCandidates = 2
  Heights = {1}
  Roots = {r1}
  SeedLimit = 1
PROPERTY
  RoundEnds
