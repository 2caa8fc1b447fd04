SPECIFICATION SemSpec
CONSTANTS
  NumTasks = 3
  Quantum = 2
  Timeout = 32
  TickMod = 34
  MaxUptime = 34
  SleepMs = {}
  Sleepers = {}
  Exiters = {}
  Faulters = {}
  Prompt = {0, 1, 2}
  SemMaxWaiting = 3
  SemValue = 1
  Users = {0, 1, 2}
  MaxHold = 1
INVARIANTS SemTypeOK MutualExclusion WaitersAccounted BoundedWait
