\* The coordination board, the notifications, the circuit breaker and the workspaces, one of them in each behaviour.
SPECIFICATION ServicesSpec
SYMMETRY ServicesSymmetry
\* Every tab of the board may be closed for good; clocks and generations are bounded.
CHECK_DEADLOCK FALSE
CONSTANTS
  ann = ann
  f1 = f1
  h1 = h1
  h2 = h2
  c3 = c3
  Fields = {f1}
  Tabs = {h1, h2}
  Accounts = {ann}
  Signed <- OneAccount
  Clients = {1, 2}
  NoClient = NoClient
  NoOp = NoOp
  PageSize = 1
  MaxPending = 2
  MaxLog = 2
  MaxRegisters = 1
  MaxAhead = 1
  MaxStamp = 2
  MaxLate = 1
  Hosts = {h1, h2}
  Readers = {ann}
  Streams = {h1, h2}
  NoReader = NoReader
  NoHost = NoHost
  NoStream = NoStream
  StreamLimit = 1
  Lease = 1
  Batch = 1
  MaxNotices = 2
  MaxTime = 2
  Calls = {h1, h2, c3}
  Threshold = 2
  Cooldown = 2
  Deadline = 1
  ProbeLease = 3
  LastTick = 5
  MaxGeneration = 4
  a1 = a1
  a2 = a2
  a3 = a3
  t1 = t1
  Artifacts = {a1, a2, a3}
  NoArtifact = NoArtifact
  Pages = {h1, h2}
  Tasks = {t1}
  MaxStored = 3
  MaxHistory = 2
  MaxFiles = 1
  LastSave = 3
INVARIANTS
  Converged
  EachOnce
  SlotsKept
  NewestTold
  ProbesApart
  HistoryWhole
PROPERTIES
  EditsSupersede
  EditsKept
  RecoveryProven
