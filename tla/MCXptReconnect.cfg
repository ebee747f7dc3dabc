\* The Linux build when the connection cannot be made again.
SPECIFICATION FairSpec
CONSTANTS
  r1 = r1
  r2 = r2
  Main = Main
  None = None
  MinerThreads = {t1}
  Shares = {s1}
  Heights = {1, 2}
  Roots = {r1, r2}
  Packets <- FewPackets
  MaxPackets = 2
  HeaderLen = 2
  SizeLimit = 4
  Builds = {"posix"}
  Conforming = TRUE
PROPERTY
  Reconnects
CHECK_DEADLOCK FALSE
