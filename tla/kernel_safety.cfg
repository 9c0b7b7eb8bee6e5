SPECIFICATION KernelSpec
CONSTANTS
  MaxTasks = 4
  NumTasks = 3
  Priority <- PriorityZeroLow
  TickModulus = 4
  SleepTimes = {0, 1, 3}
  MaxNesting = 1
INVARIANTS
  KernelTypeOK
  ContextIntegrity
  HighestReadyRuns
  CriticalIsExclusive
  NoOversleep
PROPERTIES
  NoEarlyWake
