SPECIFICATION Spec
CONSTANTS
  kBlockSize = 9
  kHeaderSize = 2
  kRecyclableHeaderSize = 6
  LengthModulus = 9
  LogNumberModulus = 4
  log_number_ = 5
  RecycleSettings = {FALSE}
  manual_flush_ = TRUE
  RecordLengths = {1, 2}
  MaxRecords = 3
  InitialOffsets = {0}
  reader_log_number = 1
  ChecksumSettings = {TRUE}
  OverflowChecks = FALSE
  OffsetModulus = 64
  MaxPosition = 0
  MaxPad = 1
  DestFailures = {"append", "flush", "close"}
  EagerWriteBack = FALSE
  ConcurrentReader = FALSE
  ReadErrors = TRUE
  MaxDamage = 0
  MaxReads = 3
INVARIANTS
  RecoveredInOrder
CHECK_DEADLOCK FALSE
