SPECIFICATION Spec
CONSTANTS
  Topic = {t}
  Envelope = {e1}
  Remote = {r1, r2}
  Delay = 1
  Margin = 1
  MinInterval = 1
  Retention = 2
  PageLimit = 1
  Capacity = 1
  NodeFails = TRUE
  QueryFails = TRUE
  MaxTime = 3
  MaxPulls = 2
INVARIANTS
  TypeOK
  PolledFollowsSwitch
  OneTransport
  NothingMissed
SYMMETRY Symmetry
CHECK_DEADLOCK FALSE
