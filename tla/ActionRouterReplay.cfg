SPECIFICATION Spec
CONSTANTS
  a1 = a1
  a2 = a2
  k1 = k1
  Requests <- MCFocus
  TaskIDs = {k1}
  NoID = NoID
  ActionIDs = {a1}
  Feeds = {f1}
  Relay = home
  States = {"needs_input", "ready"}
  Sessions = {x1}
  Local = Local
  MaxRemembered = 2
  MaxRevision = 3
  MaxGeneration = 1
  MaxFrames = 2
  NoTask = NoTask
  NoFrame = NoFrame
  NoHandler = NoHandler
PROPERTY StaleHasNoEffect
CHECK_DEADLOCK FALSE
