\* Saves, operations, snapshots and their restoration, two requests at a time; prepaid seats of a tenant.
SPECIFICATION SideBySideSpec
SYMMETRY SideBySideSymmetry
CONSTANTS
  owner = owner
  editor = editor
  wall = wall
  roof = roof
  present = present
  h1 = h1
  h2 = h2
  op1 = op1
  op2 = op2
  snap1 = snap1
  ann = ann
  bob = bob
  m1 = m1
  m2 = m2
  Users = {owner, editor}
  Owner = owner
  Editors = {editor}
  Nobody = Nobody
  Objects = {wall}
  Values = {present}
  Absent = Absent
  WholeProject = WholeProject
  LongestTtl = 1
  Handlers = {h1, h2}
  OpIds = {op1}
  SnapIds = {snap1}
  Nothing = Nothing
  Offered = {"save", "operation", "snapshot", "restore"}
  MaxRevision = 2
  MaxEvents = 2
  Keys = {h1, h2}
  Links = {m1, m2}
  NoLink = NoLink
  NoOrder = NoOrder
  Owners = {ann, bob}
  Founder = ann
  Seats = {1}
  BaseSeats = 2
  SeatLimit = 3
  Window = 1
  Term = 1
  LastDay = 2
  LastRevision = 2
INVARIANTS
  CopiesAreHistorical
  DesignEventsIncrease
  NewContentAnnounced
  OperationsOnce
  SnapshotsAreHistorical
  ChargedOnce
  BooksAgree
PROPERTIES
  Versioned
  Prepaid
