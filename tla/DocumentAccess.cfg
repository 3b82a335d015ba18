\* Leases under saves, operations and restores; rights that change under writes; rights that change under leases.
SPECIFICATION PartsSpec
CONSTANTS
  owner = owner
  editor = editor
  wall = wall
  present = present
  h1 = h1
  op1 = op1
  snap1 = snap1
  Users = {owner, editor}
  Owner = owner
  Editors = {editor}
  Nobody = Nobody
  Objects = {wall}
  Values = {present}
  Absent = Absent
  WholeProject = WholeProject
  LongestTtl = 2
  Handlers = {h1}
  OpIds = {op1}
  SnapIds = {snap1}
  Nothing = Nothing
  Offered = {"save", "label", "operation", "snapshot", "restore", "lock", "unlock", "invite", "setRole", "remove", "bind", "tenant"}
  MaxRevision = 2
  MaxEvents = 0
INVARIANTS
  OrphanedLeaseEnds
PROPERTIES
  LeasesProtect
  WritersMayWrite
