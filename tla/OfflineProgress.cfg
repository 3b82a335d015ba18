\* Pages that close while they send, open without a network, reload the offline copy and give up drafts.
SPECIFICATION FairSpec
CHECK_DEADLOCK FALSE
CONSTANTS
  p1 = p1
  p2 = p2
  Pages = {p1, p2}
  Offered = {"close", "offline start", "offline reload", "discard", "refused", "retry"}
  MaxSchedules = 2
  MaxForeign = 0
  MaxLost = 1
  HasLocks = TRUE
PROPERTIES
  EveryItemSettles
