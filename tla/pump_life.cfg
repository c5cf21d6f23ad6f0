SPECIFICATION Spec
CONSTANTS
  App = App
  Pump = Pump
  Worker = Worker
  Free = Free
  MaxPayloads = 3
  MaxEvents = 2
INVARIANTS
  TypeOK
  ClosedIsQuiet
PROPERTIES
  ShutdownCompletes
  PumpDrains
  EventsReachCallback
CHECK_DEADLOCK FALSE
