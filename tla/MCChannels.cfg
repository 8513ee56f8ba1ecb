SPECIFICATION SumSpec
CONSTANTS
  Tools = {t1}
  Gated = {t1}
  Turns = {u1, u2}
  Repairs = {p1, p2}
  Boot = boot
  MaxSessions = 2
  FailureThreshold = 1
  MaxCalls = 1
  None = nil
  Issuers = {i1, i2}
  Requests = {r1, r2}
  MaxLogins = 3
  MaxMoves = 2
  Own = own
  Person = person
  Borrowers = {b1, b2}
  GoogleMaxLogins = 2
  MaxOuts = 2
  Guests = {g1, me}
  Self = me
  Calls = {c1, c2}
  Shared = {k1}
  MaxTime = 1
  MaxReplies = 1
  Photos = {ph1, ph2}
  Texts = {m1}
  Taps = {k1, k2}
  Questions = {q1}
  QueueSize = 1
  MaxLost = 1
  Members = {a, b}
  Users = {u, v}
  Lines = {l1, l2, l3}
  Chunks = 2
  RoomFor = 1
  MaxLinks = 4
  MaxWindows = 1
  Presses = {x1, x2}
  MaxMenus = 3
  MaxChanges = 1
SYMMETRY Symmetry
CONSTRAINT PhotosOrQuestions
CHECK_DEADLOCK FALSE
INVARIANTS SumTypeOK SessionsSafe LoginsSafe TelegramSafe  MenusSafe
  
