SPECIFICATION LimiterFairSpec
CONSTANTS
  Users = {u1}
  Addresses = {a1}
  Callers = {u1, Nobody}
  Slots = {s1, s2}
  Limit = 1
  Factor = 2
  Modes = {"fail_open", "fail_closed"}
  Failures = TRUE
  CountCap = 3
  Nobody = Nobody
INVARIANTS
  WindowHolds
PROPERTIES
  WindowsEnd
\* The bound stops requests at a window that a failure left without an end.
CHECK_DEADLOCK FALSE
