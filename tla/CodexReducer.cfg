SPECIFICATION Spec
CONSTANTS
  s1 = s1
  s2 = s2
  a1 = a1
  Sessions = {s1, s2}
  Agents = {a1}
  NoAgent = NoAgent
  Titles = {}
  NoTitle = NoTitle
  Hooks = {h1, h2}
  Poller = Poller
  Events <- MCEvents
  Statuses = {"idle", "waitingOnApproval", "systemError"}
  MaxSeen = 2
  EntropyMayFail = TRUE
  MaxInputs = 4
  MaxCalls = 2
  MaxDismissals = 1
  None = None
INVARIANTS CoreFollowsReducer AppliedOnce AnswersAreCurrent ReductionIsLastWord
SYMMETRY MCSymmetry
CHECK_DEADLOCK FALSE
