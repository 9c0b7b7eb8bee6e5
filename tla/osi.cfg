SPECIFICATION Spec
CONSTANTS
  Text = {"f", "r"}
  Literals <- ShortLiterals
  BufferSize = 3
  MaxTyped = 7
INVARIANTS
  TypeOK
  LinesAreAsTyped
  GoesDownAsTold
  ScreenShowsLine
\* A HardFault stops the system for ever.
CHECK_DEADLOCK FALSE
