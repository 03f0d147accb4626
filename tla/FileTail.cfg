SPECIFICATION Spec
CONSTANTS
  Alignment = 4
  preallocation_block_size_ = 3
  InitialCapacity = 8
  max_buffer_size_ = 8
  AppendLengths = {3, 5}
  MaxAppends = 4
  MaxBytes = 30
  MaxReopened = 6
INVARIANTS
  BufferHoldsTail
CHECK_DEADLOCK FALSE
