SPECIFICATION FairSpec
CONSTANTS
  MaxTasks = 2
  NumTasks = 2
  Priority <- PriorityOneHigh
  TickModulus = 4
  SleepTimes = {0, 1}
  MaxNesting = 1
INVARIANTS
  TypeOK
  OnlyTaskZeroIsLost
  OnlyHigherLedsAreUndone
PROPERTIES
  StartsAsModelled
  SleeperWakesOrFault
  HighestRunsOrFault
\* A HardFault stops the system for ever.
CHECK_DEADLOCK FALSE
