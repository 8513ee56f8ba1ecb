SPECIFICATION Spec
CONSTANTS
  Calls = {c1, c2, c3}
  Stoppers = {s1}
  Keys = {k1}
  EntryIds = {e1, e2, e3}
  None = nil
SYMMETRY Symmetry
INVARIANTS TypeOK OneOwner DecisionHolds
PROPERTIES EntriesSafe ImplementsConversations
