SPECIFICATION Spec
CONSTANTS
  kBlockSize = 8
  kHeaderSize = 2
  kRecyclableHeaderSize = 3
  LengthModulus = 8
  LogNumberModulus = 4
  log_number_ = 5
  RecycleSettings = {FALSE}
  manual_flush_ = TRUE
  RecordLengths = {1, 3}
  MaxRecords = 3
  InitialOffsets = {0, 2, 4, 9}
  reader_log_number = 1
  ChecksumSettings = {TRUE}
  OverflowChecks = FALSE
  OffsetModulus = 64
  MaxPosition = 0
  MaxPad = 0
  DestFailures = {}
  EagerWriteBack = FALSE
  ConcurrentReader = FALSE
  ReadErrors = FALSE
  MaxDamage = 0
  MaxReads = 5
INVARIANTS
  NothingBelowInitialOffset
CHECK_DEADLOCK FALSE
