SPECIFICATION Spec
CONSTANTS
  Alerts = {a1, a2, a3}
  Requests = {r1, r2}
  Critical = 2
  RateLimit = 1
  MaxFailures = 1
SYMMETRY MCSymmetry
INVARIANTS TypeOK DedupWindows CachedPreferences UnreadIsShown
CHECK_DEADLOCK FALSE
