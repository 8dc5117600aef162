SPECIFICATION UISpec
CONSTANTS
  a = a
  b = b
  c = c
  TaskIDs = {a, b, c}
  NoTask = NoTask
  Snapshots <- MCSnapshots
  Focusable = {a}
  MaxTasks = 2
  FocusDepth = 1
  MaxEntered = 3
  None = None
INVARIANTS FeaturedIsMostUrgent QueueIsExact OneRequestPerTouch
PROPERTY FirstComeFirstShown
SYMMETRY Alike
CHECK_DEADLOCK FALSE
