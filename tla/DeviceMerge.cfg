SPECIFICATION FairSpec
CONSTANTS
  a = a
  b = b
  c = c
  SlotCount = 2
  Frames <- MCFrames
  TaskIDs = {a, b, c}
  Blank = Blank
  MaxTasks = 2
  QueueDepth = 2
  MaxMerges = 2
  None = None
INVARIANTS MergedIsCurrent ContributionIsNewest SnapshotsInOrder NewestCopyWins
PROPERTY StatusConverges
