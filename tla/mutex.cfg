SPECIFICATION FairSpec
CONSTANTS
  MaxTasks = 4
  NumTasks = 3
  Priority <- PriorityUnlockerLow
  TickModulus = 1
  SleepTimes = {0}
  MaxNesting = 0
  Lockers = {0, 1}
  MaxDepth = 2
INVARIANTS
  TypeOK
  HighestReadyRuns
  MutualExclusion
  FreeMutexHasNoSleepers
  WaiterIsBlocked
PROPERTIES
  TopLockerGetsIn
