\* A server that sends anything in any order; the Windows build, and the Linux one,
\* which a send() may end.
SPECIFICATION Spec
CONSTANTS
  r1 = r1
  r2 = r2
  Main = Main
  None = None
  MinerThreads = {t1}
  Shares = {s1}
  Heights = {1, 2}
  Roots = {r1, r2}
  Packets <- BadPackets
  MaxPackets = 3
  HeaderLen = 2
  SizeLimit = 4
  Builds = {"windows", "posix"}
  Conforming = FALSE
INVARIANTS
  TypeOK
PROPERTIES
  PacketsInOrder
  ConnectReportsErrors
CHECK_DEADLOCK FALSE
