SPECIFICATION SemSpec
CONSTANTS
  NumTasks = 3
  Quantum = 2
  Timeout = 3
  TickMod = 5
  MaxUptime = 5
  SleepMs = {5}
  Sleepers = {1}
  Exiters = {}
  Faulters = {}
  Prompt = {0, 1, 2}
  SemMaxWaiting = 3
  SemValue = 1
  Users = {0, 1}
  MaxHold = 1
INVARIANTS MutualExclusion CounterMatchesQueue
CONSTRAINT WhileOrderly
