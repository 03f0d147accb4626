SPECIFICATION Spec
CONSTANTS
  kBlockSize = 7
  kHeaderSize = 3
  kRecyclableHeaderSize = 4
  LengthModulus = 7
  LogNumberModulus = 4
  log_number_ = 5
  RecycleSettings = {FALSE, TRUE}
  manual_flush_ = TRUE
  RecordLengths = {0, 1, 3, 4, 9}
  MaxRecords = 3
  InitialOffsets = {0, 2, 6}
  reader_log_number = 1
  ChecksumSettings = {FALSE, TRUE}
  OverflowChecks = FALSE
  OffsetModulus = 64
  MaxPosition = 14
  Checksums <- AllChecksums
  Alphabet <- SomeBytes
  MaxMessage = 3
INVARIANTS
  WriterTypeOK
  OffsetWithinBlock
  LengthFieldExact
  EmptyFragmentEndsBlock
  ReaderTypeOK
  BufferWithinFile
  BufferEndsAtFilePosition
  DamageChangesChecksum
  TablesMatchPolynomials
  ChecksumVerifies
CHECK_DEADLOCK FALSE
