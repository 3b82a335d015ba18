\* A newer queued save replaces an older one.
SPECIFICATION Spec
SYMMETRY PageSymmetry
CHECK_DEADLOCK FALSE
CONSTANTS
  p1 = p1
  p2 = p2
  Pages = {p1}
  Offered = {}
  MaxSchedules = 2
  MaxForeign = 0
  MaxLost = 3
  HasLocks = TRUE
PROPERTIES
  SupersededStays
