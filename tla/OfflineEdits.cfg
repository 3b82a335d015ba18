\* Two pages without browser locks edit, lose the network, time out, retry, merge, are refused, close and recover; both send the queue.
SPECIFICATION Spec
SYMMETRY PageSymmetry
CHECK_DEADLOCK FALSE
CONSTANTS
  p1 = p1
  p2 = p2
  Pages = {p1, p2}
  Offered = {"close", "dismiss", "retry", "merge", "timeout", "refused"}
  MaxSchedules = 2
  MaxForeign = 1
  MaxLost = 2
  HasLocks = FALSE
INVARIANTS
  NoSilentOverwrite
  NothingForgotten
  BasesIncluded
  CompletedWasSaved
