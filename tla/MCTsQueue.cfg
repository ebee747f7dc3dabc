\* Two producers, two consumers and a thread that clears and measures, on a queue of
\* two places: both sleeps, both signals and the broadcast overlap.  Fair threads; no
\* symmetry, as some properties are temporal.
SPECIFICATION FairSpec
CONSTANTS
  None = None
  Pushers = {p1, p2}
  Poppers = {c1, c2}
  Clearers = {m1}
  Items = {i1}
  MaxSize = 2
INVARIANTS
  TypeOK
  NoLostItem
  NoLostRoom
PROPERTIES
  Linearizable
  PopProgress
  PushProgress
