SPECIFICATION KernelFairSpec
CONSTANTS
  MaxTasks = 4
  NumTasks = 2
  Priority <- PriorityEqual
  TickModulus = 4
  SleepTimes = {0, 1}
  MaxNesting = 1
PROPERTIES
  EqualPrioritiesTakeTurns
