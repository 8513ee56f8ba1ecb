SPECIFICATION SumSpec
CONSTANTS
  Calls = {c1, c2}
  Taps = {t1, t2}
  Setters = {s1}
  MaxConnections = 1
  MaxCrashes = 1
  None = nil
  Ids = {a, b}
  Senders = {d1}
  Aliases = {fast, image}
  Default = fast
  Providers = {p}
  Tools = {x, y}
  ConfigWriters = {w1, w2}
  MaxWrites = 2
  Boots = {b1, b2}
  Day = 3
  MaxEdits = 2
  HomeIds = {a, b}
  Docs = {user, memory}
  MaxBoots = 3
  HomeMaxEdits = 2
  HomeMaxWrites = 1
  Accounts = {a, b}
  MaxRuns = 4
  MaxOwnerSteps = 2
  MaxLogins = 2
  AccountsIds = {a, b}
  AccountsSenders = {d1}
  Reqs = {r1, r2}
  MaxStarts = 4
  Entries = {n1}
  Kinds = {"expense", "divest"}
  Categories = {food, travel}
  Colors = {sky}
  MaxBatch = 2
  MaxEntryWrites = 2
  DocumentsEntries = {n1, n2, n3}
  DocumentsWriters = {w1, w2}
  MaxEntries = 2
  DocumentsMaxEdits = 2
  Owners = {a, b}
  MaxTurns = 2
  MaxSteps = 1
  Keep = 1
  MaxAged = 1
SYMMETRY Symmetry
CHECK_DEADLOCK FALSE
INVARIANTS SumTypeOK HomeSafe CutoverSafe AccountsSafe  EditsAddUp TracesSafe
PROPERTIES ApprovalsSafe 
