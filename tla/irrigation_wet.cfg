SPECIFICATION IrrFairSpec
CONSTANTS
  PumpMin = 1
  PumpTimeout = 1
  CycleSleep = 5
  SensorSleep = 6
  Debounce = 1
  BootOffset = 1
  SOIL_DRY = water
  MANUAL_TRIGGER = water
  SOIL_WET = nothing
  None = nothing
  Messages = {water, nothing}
  Senders = {"sensor"}
  Receiver = "irrigation"
  QueueSize = 2
PROPERTY WetStaysOff
