SPECIFICATION Spec
CONSTANTS
  MaxTasks = 4
  NumTasks = 2
  Priority <- PriorityOneHigh
  TickModulus = 1
  SleepTimes = {}
  MaxNesting = 0
  Takers = {1}
  Givers = {0}
  InitialCount = 0
PROPERTIES
  GivesAreCounted
