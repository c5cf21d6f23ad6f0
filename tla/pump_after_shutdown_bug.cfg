SPECIFICATION Spec
CONSTANTS
  App = App
  Pump = Pump
  Worker = Worker
  Free = Free
  MaxPayloads = 3
  MaxEvents = 2
PROPERTY NoCallbackAfterShutdown
CHECK_DEADLOCK FALSE
