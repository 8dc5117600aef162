SPECIFICATION Spec
CONSTANTS
  w1 = w1
  w2 = w2
  f1 = f1
  f2 = f2
  Workers = {w1, w2}
  Feeds = {f1, f2}
  MaxPendingCodes = 1
  CodeTTL = 1
  RoleAsked <- MCRoleAsked
  EntropyMayFail = TRUE
  WriteMayFail = TRUE
  MaxCodes = 2
  MaxCreds = 1
  MaxNow = 2
  MaxCrashes = 1
  NoCode = NoCode
  NoCred = NoCred
  Empty = Empty
  Torn = Torn
SYMMETRY MCSymmetry
INVARIANTS RevokedIsDropped Durable
 
\* Overlapping saves may leave a file that does not parse: the Edge then never
\* starts again.
CHECK_DEADLOCK FALSE
