SPECIFICATION Spec
CONSTANTS
  Device = {c, a, b}
  Creator = c
  NoOne = NoOne
  Founder = {c, a, b}
  Committer = {c, a}
  Unchecked = {b}
  Sender = {}
  PendingMax = 3
  StallThreshold = 2
  StallMax = 3
  MaxEpoch = 3
  MaxApp = 1
INVARIANT CreatorNeverEvicted HonestFollowCreator
PROPERTY ImplementsCommitHistory
CHECK_DEADLOCK FALSE
