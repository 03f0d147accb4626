SPECIFICATION FairSpec
CONSTANTS
  ReadSize = 2
  AppendSizes = {0, 3}
  Priorities = {5}
  MaxSize = 3
  MaxFaults = 2
  MaxCalls = 2
INVARIANTS
  OpenFailsClean
  NothingLost
  ShortReadIsEnd
  WrittenInPlace
PROPERTIES
  CallsReturn
CHECK_DEADLOCK FALSE
