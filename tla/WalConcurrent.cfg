SPECIFICATION PersistentSpec
CONSTANTS
  kBlockSize = 5
  kHeaderSize = 2
  kRecyclableHeaderSize = 3
  LengthModulus = 5
  LogNumberModulus = 4
  log_number_ = 5
  RecycleSettings = {FALSE}
  manual_flush_ = TRUE
  RecordLengths = {1, 2, 7}
  MaxRecords = 2
  InitialOffsets = {0}
  reader_log_number = 1
  ChecksumSettings = {TRUE}
  OverflowChecks = FALSE
  OffsetModulus = 64
  MaxPosition = 0
  MaxPad = 0
  DestFailures = {}
  EagerWriteBack = TRUE
  ConcurrentReader = TRUE
  ReadErrors = FALSE
  MaxDamage = 0
  MaxReads = 1
INVARIANTS
  RecoveredIsPrefix
  NoPhantomRecord
PROPERTIES
  CallReturns
  EndIsReached
CHECK_DEADLOCK FALSE
