SPECIFICATION Spec
CONSTANTS
  Device = {c, a, b}
  Creator = c
  NoOne = NoOne
  Founder = {c, a}
  Committer = {c}
  Unchecked = {}
  Sender = {c, a}
  PendingMax = 2
  StallThreshold = 2
  StallMax = 3
  MaxEpoch = 3
  MaxApp = 1
INVARIANTS
  TypeOK
  NoticeOncePerStall
  BufferAhead
  NoticeTruthful
PROPERTIES
  EpochNeverBack
  OnlyFailureLoses
CHECK_DEADLOCK FALSE
