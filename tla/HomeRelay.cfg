SPECIFICATION FairSpec
CONSTANTS
  e1 = e1
  e2 = e2
  t1 = t1
  t2 = t2
  Edges = {e1}
  TaskIDs = {t1}
  OwnerOf <- MCOwner
  Focusable = {t1}
  Devices = {d1}
  MaxConnections = 2
  MaxRevision = 1
  MaxGeneration = 2
  MaxActions = 1
  None = None
  Due = Due
  Closing = Closing
INVARIANTS NothingUnsaved 
PROPERTIES PublishesVersions Resync
CHECK_DEADLOCK FALSE
