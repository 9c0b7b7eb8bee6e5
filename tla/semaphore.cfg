SPECIFICATION FairSpec
CONSTANTS
  MaxTasks = 4
  NumTasks = 3
  Priority <- PriorityRising
  TickModulus = 1
  SleepTimes = {0}
  MaxNesting = 0
  Takers = {2}
  Givers = {0, 1}
  InitialCount = 1
INVARIANTS
  TypeOK
  HighestReadyRuns
  WaiterIsBlocked
  NoTakeWithoutGive
PROPERTIES
  ImplementsSignal
  IsrWakesTaker
