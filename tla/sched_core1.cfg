SPECIFICATION FairSpec
CONSTANTS
  NumTasks = 3
  Quantum = 2
  Timeout = 9
  TickMod = 12
  MaxUptime = 12
  SleepMs = {20}
  Sleepers = {0, 1}
  Exiters = {}
  Faulters = {1}
  Prompt = {0, 2}
INVARIANTS TypeOK OneRunning OnlyRunnableExecutes BoundedSilence
PROPERTIES NoStarvation EverySleepEnds
