\* A draft is discarded while the network is down.
SPECIFICATION Spec
SYMMETRY PageSymmetry
CHECK_DEADLOCK FALSE
CONSTANTS
  p1 = p1
  p2 = p2
  Pages = {p1}
  Offered = {"merge", "timeout", "discard", "offline reload"}
  MaxSchedules = 4
  MaxForeign = 1
  MaxLost = 2
  HasLocks = TRUE
INVARIANTS
  NoSilentOverwrite
