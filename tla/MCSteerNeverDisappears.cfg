SPECIFICATION Spec
CONSTANTS
  Messages = {m1, m2}
  Ambient = {}
  FollowUps = {f1}
  Keys = {k1}
  MaxSteps = 1
  None = nil
INVARIANTS SteerNeverDisappears
