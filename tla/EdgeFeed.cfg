\* One device, two goroutines that change the core, two versions in each of two
\* generations, two lost connections.  Everything may come to rest.
SPECIFICATION FairSpec
CONSTANTS
  Content = {c0, c1}
  Empty = c0
  Devices = {d1}
  Mutators = {m1, m2}
  MaxRevision = 2
  MaxGeneration = 2
  MaxDrops = 2
  NoSnapshot = NoSnapshot
INVARIANTS NoLostWakeup SameOrderSameContent
PROPERTIES DisplayNeverGoesBack Reception
CHECK_DEADLOCK FALSE
