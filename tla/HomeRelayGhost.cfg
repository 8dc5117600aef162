SPECIFICATION FairSpec
CONSTANTS
  e1 = e1
  e2 = e2
  t1 = t1
  t2 = t2
  Edges = {e1}
  TaskIDs = {t1}
  OwnerOf <- MCOwner
  Focusable = {t1}
  Devices = {}
  MaxConnections = 1
  MaxRevision = 1
  MaxGeneration = 1
  MaxActions = 0
  None = None
  Due = Due
  Closing = Closing

PROPERTY MergesConnected
CHECK_DEADLOCK FALSE
