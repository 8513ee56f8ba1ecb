SPECIFICATION Spec
CONSTANTS
  Own = own
  Person = person
  Borrowers = {c1, c2}
  MaxLogins = 2
  MaxOuts = 2
  None = nil
CHECK_DEADLOCK FALSE
INVARIANTS RunsAsEggy
