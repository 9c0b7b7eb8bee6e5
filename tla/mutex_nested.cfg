SPECIFICATION Spec
CONSTANTS
  MaxTasks = 4
  NumTasks = 2
  Priority <- PriorityOneHigh
  TickModulus = 2
  SleepTimes = {1}
  MaxNesting = 0
  Lockers = {0, 1}
  MaxDepth = 2
INVARIANTS
  NestedExclusion
