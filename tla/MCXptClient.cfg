\* A server that keeps to the protocol: new blocks, another root, logins for another
\* algorithm and rejected ones.  The connection is lost anywhere and connecting fails.
\* Two threads find shares.  A build where SIGPIPE is ignored; fair threads.
SPECIFICATION FairSpec
CONSTANTS
  r1 = r1
  r2 = r2
  Main = Main
  None = None
  MinerThreads = {t1, t2}
  Shares = {s1, s2}
  Heights = {1, 2}
  Roots = {r1, r2}
  Packets <- GoodPackets
  MaxPackets = 3
  HeaderLen = 1
  SizeLimit = 4
  Builds = {"bsd"}
  Conforming = TRUE
INVARIANTS
  SharesAccounted
  NoShareStranded
  NoWorkWithoutConnection
  WorkIsFromServer
PROPERTIES
  ImplementsFeed
  PacketsHandled
  SharesSettle
  Reconnects
