SPECIFICATION Spec
CONSTANTS
  a1 = a1
  a2 = a2
  k1 = k1
  Requests <- MCRequests
  TaskIDs = {k1}
  NoID = NoID
  ActionIDs = {a1, a2}
  Feeds = {f1}
  Relay = home
  States = {"needs_input", "ready"}
  Sessions = {x1}
  Local = Local
  MaxRemembered = 1
  MaxRevision = 2
  MaxGeneration = 2
  MaxFrames = 3
  NoTask = NoTask
  NoFrame = NoFrame
  NoHandler = NoHandler
INVARIANTS AtMostOnce OkMeansPerformed  
CHECK_DEADLOCK FALSE
