\* Two jobs, a local and a remote worker, leases that lapse and answers that are lost.
SPECIFICATION FairSpec
CONSTANTS
  j1 = j1
  j2 = j2
  house = house
  ann = ann
  inside = inside
  outside = outside
  Jobs = {j1, j2}
  Projects = {house}
  Users = {ann}
  LocalProjects = {house}
  MaxAttempts = 2
  MaxRunning = 1
  MaxActive = 2
  MaxRecords = 2
  MaxGlobal = 2
  Lease = 2
  Deadline = 3
  Chunks = 1
  MaxClock = 5
  Workers = {inside, outside}
  Remote = {outside}
  Scope <- Everywhere
INVARIANTS
  OnePublication
PROPERTIES
  PublishedInTime
  Lifecycle
  EveryJobEnds
  StagingCleaned
