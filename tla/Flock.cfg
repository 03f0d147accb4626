SPECIFICATION FairSpec
CONSTANTS
  Procs = {p, q}
  NumThreads = 2
  NumDescriptors = 2
INVARIANTS
  HolderIsProtected
  DescriptorsAccounted
PROPERTIES
  IsRwLock
  NotStuck
CHECK_DEADLOCK FALSE
