SPECIFICATION PersistentSpec
CONSTANTS
  kBlockSize = 8
  kHeaderSize = 2
  kRecyclableHeaderSize = 3
  LengthModulus = 8
  LogNumberModulus = 4
  log_number_ = 5
  RecycleSettings = {FALSE}
  manual_flush_ = TRUE
  RecordLengths = {5, 6}
  MaxRecords = 2
  InitialOffsets = {0}
  reader_log_number = 1
  ChecksumSettings = {TRUE}
  OverflowChecks = FALSE
  OffsetModulus = 64
  MaxPosition = 0
  MaxPad = 0
  DestFailures = {}
  EagerWriteBack = FALSE
  ConcurrentReader = FALSE
  ReadErrors = FALSE
  MaxDamage = 1
  MaxReads = 1
PROPERTIES
  SalvageGoesOn
CHECK_DEADLOCK FALSE
