SPECIFICATION PersistentSpec
CONSTANTS
  kBlockSize = 8
  kHeaderSize = 2
  kRecyclableHeaderSize = 3
  LengthModulus = 8
  LogNumberModulus = 4
  log_number_ = 5
  RecycleSettings = {FALSE, TRUE}
  manual_flush_ = TRUE
  RecordLengths = {0, 4, 5}
  MaxRecords = 3
  InitialOffsets = {0}
  reader_log_number = 1
  ChecksumSettings = {FALSE, TRUE}
  OverflowChecks = FALSE
  OffsetModulus = 64
  MaxPosition = 0
  MaxPad = 0
  DestFailures = {}
  EagerWriteBack = FALSE
  ConcurrentReader = FALSE
  ReadErrors = FALSE
  MaxDamage = 1
  MaxReads = 1
INVARIANTS
  CompleteLog
  RecyclableRejected
  OffsetsLocate
  BlockOffsetTracksLog
  DamageIsContained
PROPERTIES
  EndIsReached
CHECK_DEADLOCK FALSE
