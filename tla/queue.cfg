SPECIFICATION FairSpec
CONSTANTS
  MaxTasks = 4
  NumTasks = 2
  Priority <- PriorityOneHigh
  TickModulus = 1
  SleepTimes = {0}
  MaxNesting = 0
  Receivers = {1}
  Senders = {0}
  Capacity = 2
  Item = {a, b}
  NoItem = none
INVARIANTS
  TypeOK
  RingIsConsistent
  NoneBlockedWhileData
  WaiterIsBlocked
PROPERTIES
  ImplementsFifo
  TopReceiverIsServed
