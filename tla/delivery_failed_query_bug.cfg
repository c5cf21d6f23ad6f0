SPECIFICATION Spec
CONSTANTS
  Topic = {t}
  Envelope = {}
  Remote = {r1, r2}
  Delay = 1
  Margin = 1
  MinInterval = 1
  Retention = 9
  PageLimit = 2
  Capacity = 2
  NodeFails = FALSE
  QueryFails = TRUE
  MaxTime = 4
  MaxPulls = 2
INVARIANT NothingMissedEver
CHECK_DEADLOCK FALSE
