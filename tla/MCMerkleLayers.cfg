\* Every number of hashes up to 20; 5 layers the loop goes through and 8 entries of
\* layerSize, as 10 and 16.
SPECIFICATION Spec
CONSTANTS
  MaxHashes = 20
  Layers = 5
  SizeLimit = 8
  Slack = 10
INVARIANT
  RootForAnnounced
CHECK_DEADLOCK FALSE
