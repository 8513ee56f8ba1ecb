SPECIFICATION Spec
CONSTANTS
  Tools = {t1, t2}
  Gated = {t1}
  Turns = {u1, u2}
  Repairs = {p1, p2}
  Boot = boot
  MaxSessions = 2
  FailureThreshold = 1
  MaxCalls = 1
  None = nil
CHECK_DEADLOCK FALSE
INVARIANTS NoUnapprovedCall
