SPECIFICATION Spec
CONSTANTS
  Device = {c, a, b}
  Creator = c
  NoOne = NoOne
  Founder = {c, a}
  Committer = {c}
  Unchecked = {}
  Sender = {c}
  PendingMax = 3
  StallThreshold = 2
  StallMax = 3
  MaxEpoch = 3
  MaxApp = 1
INVARIANTS NothingOvertaken
CHECK_DEADLOCK FALSE
