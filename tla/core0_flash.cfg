SPECIFICATION Core0Spec
CONSTANTS
  NumTasks = 2
  Quantum = 2
  Timeout = 7
  TickMod = 9
  MaxUptime = 9
  SleepMs = {10}
  Sleepers = {0, 1}
  Exiters = {}
  Faulters = {}
  Prompt = {0, 1}
  LoggerTask = 0
  LogFrames = 1
  FlashQueueSize = 2
  FlushEvery = 3
  MaxMessages = 2
  MaxRestarts = 0
PROPERTY IdleLoopDrains
