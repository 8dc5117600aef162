SPECIFICATION Spec
CONSTANTS
  s1 = s1
  s2 = s2
  t1 = t1
  t2 = t2
  Adapters = {"codex", "pi"}
  LocalAdapter = "codex"
  Sessions = {s1, s2}
  Titles = {t1, t2}
  NoTitle = NoTitle
  SubagentCounts = {0, 1}
  AliasTitles = {t2}
  Batches <- MCBatches
  LeaseDuration = 1
  TerminalTTL = 1
  TerminalFIFO = 1
  EntropyMayFail = TRUE
  ClockMayStep = TRUE
  MaxNow = 2
  MaxMinted = 2
  MaxLeases = 1
  MaxSeq = 2
  MaxRevision = 3
  MaxGeneration = 2
  NoTask = NoTask
  NoLease = NoLease
  NoCall = NoCall
  NoSession = NoSession
INVARIANTS TypeOK RoutingExact OwnersLive AggregateIsFeatured AliasWins
PROPERTIES NoFabrication SnoozeEpisode WorkNeverDropped PublishesVersions
