SPECIFICATION Spec
CONSTANTS
  Calls = {c1}
  Taps = {t1}
  Setters = {s1}
  MaxConnections = 1
  MaxCrashes = 0
PROPERTIES NeverRunsOnNewIdentity
CHECK_DEADLOCK FALSE
