\* Every number of hashes up to what 5 layers are enough for, and more.
SPECIFICATION Spec
CONSTANTS
  MaxHashes = 40
  Layers = 5
  SizeLimit = 8
  Slack = 10
INVARIANTS
  RootIsReference
  ArrayInBounds
CHECK_DEADLOCK FALSE
