SPECIFICATION SumSpec
CONSTANTS
  Messages = {m1, m2, m3}
  Ambient = {m3}
  FollowUps = {f1, f2}
  Keys = {k1}
  MaxSteps = 1
  None = nil
  AdmissionCalls = {c1, c2}
  AdmissionKeys = {k1}
  Stoppers = {s1}
  EntryIds = {n1, n2}
  Jobs = {daily, once}
  Recurring = {daily}
  Workers = {w1, w2}
  MaxTime = 2
  Retention = 0
  MaxCrashes = 1
  MaxFaults = 1
  MaxDeliveries = 2
  Events = {e1, e2}
  QueueSize = 1
  MaxEdits = 2
  Tabs = {t1}
  Threads = {ta, tb}
  Texts = {hi, status}
  Commands = {status}
  BufferSize = 2
  MaxSends = 1
  MaxStreams = 2
  Preserved = 3
  BudgetChars = 8
  RecentSteps = 2
  Allowance = 16
  FoldChars = 9
  SummaryLimit = 5
  WindowMaxSteps = 5
  MaxSteers = 3
  Aliases = {base, deep}
  Default = base
  Reasoners = {deep}
  Readers = {base}
  Levels = {high}
  Adders = {x1, x2}
  MaxTurns = 1
  MaxRestarts = 1
CHECK_DEADLOCK FALSE
INVARIANTS SumTypeOK  NothingLost DaemonSafe RequestsSafe
PROPERTIES JobsSafe
