SPECIFICATION Spec
CONSTANTS
  PumpMin = 1
  PumpTimeout = 5
  CycleSleep = 5
  SensorSleep = 6
  Debounce = 1
  BootOffset = 1
  SOIL_DRY = water
  MANUAL_TRIGGER = water
  SOIL_WET = nothing
  None = nothing
  Messages = {water, nothing}
  Senders = {"sensor"}
  Receiver = "irrigation"
  QueueSize = 1
INVARIANT NoFlood
