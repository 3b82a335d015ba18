\* Two instances, two users, one place: jobs are cancelled, lost, retried and outlive a day.
SPECIFICATION Spec
SYMMETRY RenderSymmetry
CONSTANTS
  r1 = r1
  r2 = r2
  ann = ann
  bob = bob
  house = house
  one = one
  two = two
  m1 = m1
  m2 = m2
  m3 = m3
  Jobs = {r1, r2}
  Users = {ann, bob}
  Everyone = Everyone
  Projects = {house}
  Artifacts = {m1, m2, m3}
  Nowhere = Nowhere
  NoArtifact = NoArtifact
  UserLimit = 1
  GlobalLimit = 1
  Budget <- OneEach
  MaxArtifacts = 2
  Timeout = 1
  Slack = 2
  DayLength = 2
  MaxClock = 5
  Instances = {one, two}
  Noone = Noone
  Grace = 1
  MaxHistory = 2
  MaxDelay = 1
  LastRequest = 3
INVARIANTS
  BudgetKept
  RoomReserved
  ImagesKept
PROPERTIES
  OutcomeKept
  WorkKept
