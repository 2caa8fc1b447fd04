SPECIFICATION FairSpec
CONSTANTS
  NumTasks = 2
  Quantum = 2
  Timeout = 5
  TickMod = 10
  MaxUptime = 10
  SleepMs = {5, 20}
  Sleepers = {0}
  Exiters = {}
  Faulters = {1}
  Prompt = {0}
PROPERTY WatchdogRevives
