SPECIFICATION KernelSpec
CONSTANTS
  MaxTasks = 4
  NumTasks = 2
  Priority <- PriorityOneHigh
  TickModulus = 8
  SleepTimes = {6}
  MaxNesting = 0
PROPERTIES
  NoEarlyWake
