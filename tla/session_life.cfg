SPECIFICATION Spec
CONSTANTS
  Convo = {g, j}
  Mine = {g}
  Legacy = {j}
  Talk = {j}
  NoConvo = NoConvo
  NoGroup = NoGroup
  MaxEpoch = 3
  MaxWork = 3
  MaxOpen = 2
INVARIANT TypeOK CacheBacked RestIsDurable SealsFresh ExactlyOnce
PROPERTY CheckpointNeverBack ImplementsOneTimeKeys
CHECK_DEADLOCK FALSE
