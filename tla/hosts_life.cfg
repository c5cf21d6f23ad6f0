SPECIFICATION Spec
CONSTANTS
  MaxCalls = 6
  MaxEvents = 2
  MaxRuns = 3
  OutMax = 4
  Texts <- SomeTexts
INVARIANTS
  TypeOK
  NothingHeld
  ErrorIsOwn
  IngestRight
  AddressKept
  PassIsTrue
PROPERTIES
  ImplementsAbi
  LinesAnswered
CHECK_DEADLOCK FALSE
