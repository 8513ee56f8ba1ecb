SPECIFICATION SumFairSpec
CONSTANTS
  Messages = {m1, m2}
  Ambient = {}
  FollowUps = {f1, f2}
  Keys = {k1}
  MaxSteps = 1
  None = nil
  AdmissionCalls = {c1, c2}
  AdmissionKeys = {k1}
  Stoppers = {s1}
  EntryIds = {n1, n2}
  Jobs = {daily, once}
  Recurring = {daily}
  Workers = {w1, w2}
  MaxTime = 1
  Retention = 0
  MaxCrashes = 1
  MaxFaults = 1
  MaxDeliveries = 1
  Events = {e1}
  QueueSize = 1
  MaxEdits = 1
  Tabs = {t1}
  Threads = {ta, tb}
  Texts = {hi, status}
  Commands = {status}
  BufferSize = 2
  MaxSends = 1
  MaxStreams = 2
  Preserved = 3
  BudgetChars = 8
  RecentSteps = 2
  Allowance = 16
  FoldChars = 9
  SummaryLimit = 5
  WindowMaxSteps = 1
  MaxSteers = 1
  Aliases = {base, deep}
  Default = base
  Reasoners = {deep}
  Readers = {base}
  Levels = {high}
  Adders = {x1}
  MaxTurns = 1
  MaxRestarts = 0
CHECK_DEADLOCK FALSE
PROPERTIES EveryMessageSettles EventuallyAnswered ClaimsEnd RestartHappens RevokedStreamEnds
