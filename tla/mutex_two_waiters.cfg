SPECIFICATION Spec
CONSTANTS
  MaxTasks = 4
  NumTasks = 3
  Priority <- PriorityRising
  TickModulus = 2
  SleepTimes = {1}
  MaxNesting = 0
  Lockers = {0, 1, 2}
  MaxDepth = 1
INVARIANTS
  FreeMutexHasNoSleepers
