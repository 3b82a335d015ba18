\* A member demoted through the invitation route keeps the leases it held.
SPECIFICATION Spec
SYMMETRY HandlerSymmetry
CONSTANTS
  owner = owner
  editor = editor
  wall = wall
  roof = roof
  present = present
  h1 = h1
  h2 = h2
  op1 = op1
  op2 = op2
  snap1 = snap1
  Users = {owner, editor}
  Owner = owner
  Editors = {editor}
  Nobody = Nobody
  Objects = {wall}
  Values = {present}
  Absent = Absent
  WholeProject = WholeProject
  LongestTtl = 1
  Handlers = {h1}
  OpIds = {}
  SnapIds = {}
  Nothing = Nothing
  Offered = {"lock", "invite"}
  MaxRevision = 0
  MaxEvents = 2
INVARIANTS
  DemotionRemovesLocks
