SPECIFICATION Spec
CONSTANTS
  PumpMin = 1
  PumpTimeout = 1
  CycleSleep = 5
  SensorSleep = 6
  Debounce = 1
  BootOffset = 1
  SOIL_DRY = water
  MANUAL_TRIGGER = water
  SOIL_WET = nothing
  None = nothing
  Messages = {water, nothing}
  Senders = {"sensor"}
  Receiver = "irrigation"
  QueueSize = 2
  LcdRows = 2
  InitTransfers = 4
  MaxFailures = 3
  RetryInterval = 3
  Texts = {on, off}
  Blank = Blank
  Nul = Nul
  Garbage = Garbage
INVARIANTS IrrTypeOK PumpBounded RequestServed DispTypeOK FrontIsShown 
PROPERTIES WaterComes PumpStops IsPumpService CatchesUp
