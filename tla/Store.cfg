SPECIFICATION StoreSpec
CONSTANTS
  kBlockSize = 16
  kHeaderSize = 2
  kRecyclableHeaderSize = 3
  LengthModulus = 16
  LogNumberModulus = 4
  log_number_ = 5
  RecycleSettings = {FALSE}
  manual_flush_ = TRUE
  RecordLengths = {1, 3}
  MaxRecords = 3
  InitialOffsets = {0}
  reader_log_number = 1
  ChecksumSettings = {TRUE}
  OverflowChecks = FALSE
  OffsetModulus = 64
  MaxPosition = 0
  ConcurrentReader = TRUE
  ReadErrors = FALSE
  MaxReads = 3
  MaxPad = 8
  DestFailures = {"flush", "close"}
  EagerWriteBack = TRUE
  MaxDamage = 0
  Alignment = 8
  preallocation_block_size_ = 4
  InitialCapacity = 16
  max_buffer_size_ = 6
  WriteFailures = TRUE
INVARIANTS
  OnePageRecovery
  OnePageRoundTrip
CHECK_DEADLOCK FALSE
