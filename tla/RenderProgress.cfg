\* Two jobs of one project accepted one after the other on two instances that crash and start again.
SPECIFICATION ProgressSpec
CONSTANTS
  r1 = r1
  r2 = r2
  ann = ann
  bob = bob
  house = house
  one = one
  two = two
  m1 = m1
  m2 = m2
  m3 = m3
  Jobs = {r1, r2}
  Users = {ann}
  Everyone = Everyone
  Projects = {house}
  Artifacts = {m1, m2}
  Nowhere = Nowhere
  NoArtifact = NoArtifact
  UserLimit = 2
  GlobalLimit = 2
  Budget <- TwoInAll
  MaxArtifacts = 3
  Timeout = 1
  Slack = 2
  DayLength = 6
  MaxClock = 5
  Instances = {one, two}
  Noone = Noone
  Grace = 1
  MaxHistory = 2
  MaxDelay = 0
  LastRequest = 1
PROPERTIES
  EveryJobEnds
