SPECIFICATION Spec
CONSTANTS
  None = nil
  Boots = {b1}
  Day = 3
  MaxEdits = 2
CHECK_DEADLOCK FALSE
INVARIANTS HomeStays
