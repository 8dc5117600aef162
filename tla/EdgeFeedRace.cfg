\* One device connecting while the core changes: no restart, no lost connection.
SPECIFICATION FairSpec
CONSTANTS
  Content = {c0, c1}
  Empty = c0
  Devices = {d1}
  Mutators = {m1}
  MaxRevision = 1
  MaxGeneration = 1
  MaxDrops = 0
  NoSnapshot = NoSnapshot
PROPERTY Convergence
CHECK_DEADLOCK FALSE
