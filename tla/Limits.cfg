\* Three jobs of three projects against limits of one and two; one account's sessions, codes and attempts.
SPECIFICATION LimitsSpec
SYMMETRY SessionSymmetry
\* Time is bounded on both sides: at the end there may be nothing left to do.
CHECK_DEADLOCK FALSE
CONSTANTS
  j1 = j1
  j2 = j2
  j3 = j3
  house = house
  barn = barn
  shed = shed
  ann = ann
  inside = inside
  outside = outside
  Jobs = {j1, j2, j3}
  Projects = {house, barn, shed}
  Users = {ann}
  LocalProjects = {house, barn, shed}
  MaxAttempts = 2
  MaxRunning = 1
  MaxActive = 1
  MaxRecords = 2
  MaxGlobal = 2
  Lease = 1
  Deadline = 2
  Chunks = 1
  MaxClock = 4
  Workers = {inside}
  Remote = {}
  Scope <- Everywhere
  s1 = s1
  s2 = s2
  m1 = m1
  Sessions = {s1, s2}
  Mails = {m1}
  NoMail = NoMail
  GuessLimit = 2
  AttemptWindow = 2
  LockTime = 2
  CodeTtl = 1
  ResendCooldown = 1
  LastStep = 4
  MaxWrong = 4
  MaxMisses = 2
  MaxSecret = 1
  MaxPassword = 2
  MaxVersion = 1
INVARIANTS
  CapacityKept
  SessionsVouched
  GuessesBounded
