SPECIFICATION FairSpec
CONSTANTS
  AngleCount = 64
  OutageAngles = {9}
  MaxOutages = 1
  Coord <- Byte
INVARIANTS
  TypeOK
  OnScreen
  DrawsWhatIsSent
  StaysInStep
  NearTheLine
PROPERTIES
  GetsBackInStep
