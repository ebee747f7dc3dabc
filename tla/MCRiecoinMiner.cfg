\* Three miner threads: a master and up to two workers.  Three passes, so that tests of
\* one are in flight while the next is sieved, and more tests in a round than
\* testDoneQueue holds: a full and a left-over batch a pass.  The queues at their
\* smallest permitted sizes.  Headers of one height, told apart by their seed only; the
\* height published is that one or 0.
SPECIFICATION Spec
CONSTANTS
  None = None
  MinerThreads = {t1, t2, t3}
  VwqSize = 1
  WdqSize = 4
  TdqSize = 4
  MaxIter = 3
  PrimorialNumber = 1
  PrimeTestSize = 6
  NDense = 1
  NSparse = 3
  ModParts = 2
  NSieveWorkers = 2
  SieveSlack = 1
  WorkIndexes = 2
  MaxCandidates = 3
  Heights = {1}
  Roots = {r1}
  SeedLimit = 2
SYMMETRY Symmetry
INVARIANTS
  TypeOK
  OneMaster
  TestsAccounted
  JobsAccounted
  RestBetweenRounds
  NoSharedWrites
  SieveComplete
  AnswersNeverBlock
  TestsMatchHeader
PROPERTY
  ImplementsRound
