SPECIFICATION SumSpec
CONSTANTS
  Runs = {r1, r2}
  Ops = {o1}
  Worker = worker
  NoRun = none
  MaxGeneration = 2
  MaxQuestions = 1
  MaxTroubles = 1
  Texts = {"a", "b", "quoted", "plain", "broken", "long"}
  Curly = {"quoted"}
  Straight = "plain"
  Long = {"long"}
  Breaks = {"broken"}
  EditCalls <- SomeEdits
  Files <- SomeFiles
  Checks = {"build"}
  PageBytes = 2
  MaxCalls = 3
  MaxLegs = 3
  None = nil
  Skills = {s1}
  Servers = {m1}
  Hashes = {0, 1, 2}
  MaxChanges = 3
  Versions = {1, 2}
  MaxWork = 4
  MaxCrashes = 1
  Checkouts = {w1, w2}
  Calls = {c1, c2}
  WorkspacesMaxCalls = 3
  MaxRestarts = 1
SYMMETRY RunSymmetry
CONSTRAINT OneUpset
CHECK_DEADLOCK FALSE
INVARIANTS SumTypeOK RunningIsWorkedOn InstallsSafe SkillsSafe BindingIsThere
  
