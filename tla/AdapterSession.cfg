SPECIFICATION Spec
CONSTANTS
  Sessions = {s1, s2}
  States = {"running", "ready"}
  Terminal = {"ready"}
  MaxConns = 7
  MaxReports = 2
  MaxFaults = 3
  None = None
INVARIANTS CurrentLeaseOwns InStep
PROPERTY Converges
CHECK_DEADLOCK FALSE
