SPECIFICATION Spec
CONSTANTS
  Alignment = 4
  preallocation_block_size_ = 3
  InitialCapacity = 4
  max_buffer_size_ = 10
  AppendLengths = {0, 3, 5, 13}
  MaxAppends = 3
  MaxBytes = 30
  MaxReopened = 6
INVARIANTS
  FileTypeOK
  DirectWritesAligned
  PreallocationCovers
  SizeCountsAccepted
  FirstPageExact
  PanicTakesNothing
  OldBytesKept
PROPERTIES
  Refines
CHECK_DEADLOCK FALSE
