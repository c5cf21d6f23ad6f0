SPECIFICATION Spec
CONSTANTS
  MaxCalls = 6
  MaxEvents = 1
  MaxRuns = 2
  OutMax = 4
  Texts <- SomeTexts
INVARIANT
  AddressStable
CHECK_DEADLOCK FALSE
