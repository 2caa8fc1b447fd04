SPECIFICATION Spec
CONSTANTS
  NumTasks = 3
  Quantum = 2
  Timeout = 9
  TickMod = 12
  MaxUptime = 12
  SleepMs = {5, 30}
  Sleepers = {0, 1}
  Exiters = {2}
  Faulters = {2}
  Prompt = {0, 1, 2}
INVARIANTS BoundedSilence
PROPERTIES HealthyNeverRestarted WakesOnTime
