------------------------------ MODULE LogReader ------------------------------
(***************************************************************************)
(* The log reader (src/db/log_reader.rs): readRecord reads the file block  *)
(* by block into buffer_ and hands back one record per call.               *)
(*                                                                         *)
(* The reader takes several steps to serve a call, one per pass of the     *)
(* loop of readPhysicalRecord; what each fread delivers is a parameter of  *)
(* the step (Fetch), so the file may grow or change between two of them.   *)
(*                                                                         *)
(* Every arm of readRecord's own loop returns or breaks, so the loop body  *)
(* runs once and in_fragmented_record is FALSE wherever it is tested; the  *)
(* recovery mode and recycled_ are then tested only on paths that do the   *)
(* same either way, and the mode is not a parameter of the model.          *)
(*                                                                         *)
(* Bytes that were not written as a header may decode to any type and any  *)
(* length; a checksum is taken to match only what it was computed from.    *)
(***************************************************************************)
EXTENDS LogFormat

CONSTANTS
  InitialOffsets,     \* the initial offsets that callers give to Reader::new
  reader_log_number,  \* its log_number_, a u32
  ChecksumSettings,   \* the values that callers give to checksum_
  OverflowChecks,     \* arithmetic overflow panics (debug build) or wraps
  OffsetModulus,      \* 2^64: offsets are u64
  MaxPosition         \* bound: how far into the file ReaderSpec follows the reader

ASSUME LogReaderAssumption ==
  /\ OffsetModulus \in Nat \ {0}
  /\ MaxPosition \in Nat
  /\ InitialOffsets \subseteq 0 .. OffsetModulus - 1
  /\ reader_log_number \in 0 .. LogNumberModulus - 1
  /\ ChecksumSettings \subseteq BOOLEAN
  /\ OverflowChecks \in BOOLEAN

VARIABLES
  checksum_,               \* verify checksums
  rpc,                     \* "idle", "physical" (in a call) or "panicked"
  eof_, read_error_, recycled_,
  initial_offset_,
  buffer_,                 \* what is left of the current block
  end_of_buffer_offset_,   \* offset of the first byte past buffer_
  last_record_offset_,
  physical_record_offset,  \* of the call being served
  fpos,                    \* position of the file
  reply,                   \* what the last call returned, "none" during a call
  record, scratch          \* the out parameters of the call

rvars == <<checksum_, rpc, eof_, read_error_, recycled_, initial_offset_, buffer_,
           end_of_buffer_offset_, last_record_offset_, physical_record_offset,
           fpos, reply, record, scratch>>

ReaderInit ==
  /\ checksum_ \in ChecksumSettings
  /\ rpc = "idle"
  /\ eof_ = FALSE
  /\ read_error_ = FALSE
  /\ recycled_ = FALSE
  /\ initial_offset_ \in InitialOffsets
  /\ buffer_ = <<>>
  /\ end_of_buffer_offset_ = 0
  /\ last_record_offset_ = 0
  /\ physical_record_offset = 0
  /\ fpos = 0
  /\ reply = "none"
  /\ record = <<>>
  /\ scratch = <<>>

Return(ok) ==
  /\ rpc' = "idle"
  /\ reply' = IF ok THEN "record" ELSE "nothing"

-----------------------------------------------------------------------------
(* SkipToInitialBlock.  The code writes kBlockSize - 6 where kHeaderSize   *)
(* is 7.                                                                   *)
block_start_location ==
  LET initial_offset_in_block == initial_offset_ % kBlockSize
  IN  initial_offset_ - initial_offset_in_block
        + (IF initial_offset_in_block > kBlockSize - (kHeaderSize - 1)
           THEN kBlockSize ELSE 0)

SkipsNow == last_record_offset_ < initial_offset_

(* A skip of at least one block is taken to have failed when its status is *)
(* ok, and readRecord gives up before it clears its out parameters.  The   *)
(* status is always ok: fseek fails with -1 where skip tests for a number  *)
(* above 0, so the position of the file may not have moved.                *)
SkipFails ==
  /\ rpc = "idle"
  /\ SkipsNow
  /\ block_start_location > 0
  /\ end_of_buffer_offset_' = block_start_location
  /\ fpos' \in {fpos, fpos + block_start_location}
  /\ Return(FALSE)
  /\ UNCHANGED <<eof_, read_error_, recycled_, initial_offset_, buffer_, last_record_offset_,
                 physical_record_offset, record, scratch>>

(* The offset of the record that the call will return, when what is        *)
(* buffered ends at offset end.                                            *)
BlockStartOffset(end) == IF end < kBlockSize THEN 0 ELSE end - kBlockSize   \* slip
RecordOffset(end)     == (end - Len(buffer_)) % OffsetModulus

(* The call enters the loop.  The offset of its record is taken from what  *)
(* is in buffer_ before anything is read.                                  *)
ReadRecord ==
  /\ rpc = "idle"
  /\ SkipsNow => block_start_location = 0
  /\ LET end == IF SkipsNow THEN 0 ELSE end_of_buffer_offset_
     IN  /\ end_of_buffer_offset_' = end
         /\ physical_record_offset' = RecordOffset(end)
         /\ rpc' = IF OverflowChecks /\ Len(buffer_) > end THEN "panicked" ELSE "physical"
  /\ record' = <<>>
  /\ scratch' = <<>>
  /\ reply' = "none"
  /\ UNCHANGED <<eof_, read_error_, recycled_, initial_offset_, buffer_, last_record_offset_, fpos>>

-----------------------------------------------------------------------------
(* What the bytes at the start of buffer_ decode to.                       *)
Written(size) ==
  /\ Len(buffer_) >= size
  /\ buffer_[1].b = "head"
  /\ \A i \in 1..size : buffer_[i] = HeadByte(buffer_[1].hdr, i)

(* The type is the last byte of the short header.                          *)
TypesFrom(byte) ==
  CASE byte = ZeroByte -> {kZeroType}
    [] byte.b = "head" /\ byte.at = kHeaderSize -> {byte.hdr.type}
    [] OTHER -> kZeroType .. kMaxRecordType + 1

(* Headers that are not what the writer wrote; their checksum matches      *)
(* nothing.                                                                *)
Garbled(types, lengths) ==
  [type : types, length : lengths,
   log : {reader_log_number, (reader_log_number + 1) % LogNumberModulus},
   crc : {<<>>}]

Headers ==
  IF Len(buffer_) < kHeaderSize THEN {} ELSE
  CASE Written(kHeaderSize) ->
         LET h == buffer_[1].hdr
         IN  IF IsRecyclable(h.type) /\ ~Written(kRecyclableHeaderSize)
             THEN Garbled({h.type}, {h.length})
             ELSE {h}
    [] SubSeq(buffer_, 1, kHeaderSize) = Zeros(kHeaderSize) ->
         Garbled({kZeroType}, {0})
    [] OTHER -> Garbled(TypesFrom(buffer_[kHeaderSize]), 0 .. LengthModulus - 1)

TooShort(h) == Len(buffer_) < HeaderSizeOf(h.type)

(* The reader is about to call readMore.                                   *)
NeedsMore ==
  /\ rpc = "physical"
  /\ Len(buffer_) < kHeaderSize \/ \E h \in Headers : TooShort(h)

BufferStart == RecordOffset(end_of_buffer_offset_)

MarkRecycled(h) ==
  recycled_' = (recycled_ \/ (IsRecyclable(h.type) /\ BufferStart = 0))

(* readPhysicalRecord has a whole header in buffer_, h of Headers.         *)
Parses(h) ==
  /\ rpc = "physical"
  /\ ~TooShort(h)
  /\ MarkRecycled(h)

IsOld(h)    == IsRecyclable(h.type) /\ h.log # reader_log_number
SizeOf(h)   == HeaderSizeOf(h.type) + h.length
Overruns(h) == SizeOf(h) > Len(buffer_)
IsZero(h)   == h.type = kZeroType /\ h.length = 0
Fragment(h) == SubSeq(buffer_, HeaderSizeOf(h.type) + 1, SizeOf(h))

(* The bytes the reader's checksum covers.                                 *)
ReaderCrc(h) ==
  <<FieldByte(h.type)>>
    \o (IF IsRecyclable(h.type) THEN <<FieldByte(h.log)>> ELSE <<>>)
    \o Fragment(h)

ChecksumIgnored(h) == FALSE                               \* slip
ChecksumFails(h) == checksum_ /\ ~Overruns(h) /\ ReaderCrc(h) # h.crc

(* A record of an earlier user of the file: its bytes stay in buffer_.     *)
OldRecord(h) ==
  /\ Parses(h)
  /\ IsOld(h)
  /\ Return(FALSE)
  /\ UNCHANGED <<eof_, read_error_, initial_offset_, buffer_, end_of_buffer_offset_,
                 last_record_offset_, physical_record_offset, fpos, record, scratch>>

BlockKept(h) ==                             \* slip: buffer_ is not cleared
  /\ Parses(h)
  /\ ~IsOld(h)
  /\ Overruns(h) \/ IsZero(h) \/ ChecksumFails(h)
  /\ Return(FALSE)
  /\ UNCHANGED <<eof_, read_error_, initial_offset_, buffer_, end_of_buffer_offset_,
                 last_record_offset_, physical_record_offset, fpos, record, scratch>>

DropFile(h) ==                              \* slip: damage ends the log
  /\ Parses(h)
  /\ ~IsOld(h)
  /\ Overruns(h) \/ IsZero(h) \/ ChecksumFails(h)
  /\ buffer_' = <<>>
  /\ eof_' = TRUE
  /\ Return(FALSE)
  /\ UNCHANGED <<read_error_, initial_offset_, end_of_buffer_offset_, last_record_offset_,
                 physical_record_offset, fpos, record, scratch>>

(* A record that does not fit, an empty record of type zero, or a wrong    *)
(* checksum: the rest of the block is dropped.                             *)
DropBlock(h) ==
  /\ Parses(h)
  /\ ~IsOld(h)
  /\ Overruns(h) \/ IsZero(h) \/ ChecksumFails(h)
  /\ buffer_' = <<>>
  /\ Return(FALSE)
  /\ UNCHANGED <<eof_, read_error_, initial_offset_, end_of_buffer_offset_, last_record_offset_,
                 physical_record_offset, fpos, record, scratch>>

(* What follows the physical record in buffer_.                            *)
RestIsCleared(h) == <<>>                                  \* slip
NotTakenOut(h)   == buffer_                               \* slip
Rest(h)          == SubSeq(buffer_, SizeOf(h) + 1, Len(buffer_))

(* A good physical record is taken out of buffer_.                         *)
Consumes(h) ==
  /\ Parses(h)
  /\ ~(IsOld(h) \/ Overruns(h) \/ IsZero(h) \/ ChecksumFails(h))
  /\ buffer_' = Rest(h)
  /\ UNCHANGED <<eof_, read_error_, initial_offset_, end_of_buffer_offset_,
                 physical_record_offset, fpos>>

StartsBelow(h) == BufferStart < initial_offset_

BelowInitialOffset(h) ==
  /\ StartsBelow(h)
  /\ Consumes(h)
  /\ Return(FALSE)
  /\ UNCHANGED <<last_record_offset_, record, scratch>>

FullRecord(h) ==
  /\ ~StartsBelow(h)
  /\ h.type \in {kFullType, kRecyclableFullType}
  /\ Consumes(h)
  /\ record' = Fragment(h)
  /\ last_record_offset_' = physical_record_offset
  /\ Return(TRUE)
  /\ UNCHANGED scratch

(* The first fragment and each middle one end the call.                    *)
FirstOrMiddle(h) ==
  /\ ~StartsBelow(h)
  /\ h.type \in {kFirstType, kMiddleType, Recyclable(kFirstType), Recyclable(kMiddleType)}
  /\ Consumes(h)
  /\ scratch' = Fragment(h)
  /\ Return(FALSE)
  /\ UNCHANGED <<last_record_offset_, record>>

(* scratch.append empties the fragment before record gets it, and the      *)
(* offset recorded is the initial value of prospective_record_offset.      *)
LastFragmentReturned(h) ==                 \* slip: the fragment as the record
  /\ ~StartsBelow(h)
  /\ h.type \in {kLastType, kRecyclableLastType}
  /\ Consumes(h)
  /\ record' = Fragment(h)
  /\ Return(TRUE)
  /\ UNCHANGED <<last_record_offset_, scratch>>
LastFragment(h) ==
  /\ ~StartsBelow(h)
  /\ h.type \in {kLastType, kRecyclableLastType}
  /\ Consumes(h)
  /\ scratch' = Fragment(h)
  /\ last_record_offset_' = 0
  /\ Return(TRUE)
  /\ UNCHANGED record

UnknownType(h) ==
  /\ ~StartsBelow(h)
  /\ h.type \notin RecordTypes \ {kZeroType}
  /\ Consumes(h)
  /\ Return(FALSE)
  /\ UNCHANGED <<last_record_offset_, record, scratch>>

Appending(data) == buffer_ \o data             \* slip: buffer_ not cleared before
Refilled(data)  == data

FullBlocksOnly(data) ==                              \* slip: short reads not counted
  end_of_buffer_offset_ + (IF Len(data) = kBlockSize THEN kBlockSize ELSE 0)
BlockCounted(data)   == end_of_buffer_offset_ + kBlockSize                 \* slip
EndAfter(data)       == end_of_buffer_offset_ + Len(data)

NeverAtEnd(data) == FALSE                                 \* slip
AtEnd(data)      == Len(data) < kBlockSize

(* readMore: fread fills buffer_ with data.  A short read is the end of    *)
(* the file if feof says so and an error otherwise.                        *)
Fetch(data, error) ==
  /\ NeedsMore
  /\ ~eof_ /\ ~read_error_
  /\ fpos' = fpos + Len(data)
  /\ end_of_buffer_offset_' = EndAfter(data)
  /\ IF error
     THEN buffer_' = <<>> /\ read_error_' = TRUE /\ Return(FALSE) /\ UNCHANGED eof_
     ELSE /\ buffer_' = Refilled(data)
          /\ eof_' = AtEnd(data)
          /\ UNCHANGED <<rpc, reply, read_error_>>
  /\ \/ Len(buffer_) < kHeaderSize /\ UNCHANGED recycled_
     \/ \E h \in Headers : TooShort(h) /\ MarkRecycled(h)
  /\ UNCHANGED <<initial_offset_, last_record_offset_, physical_record_offset, record,
                 scratch>>

(* readMore after the end of the file or an error: what is left is too     *)
(* short for a header and is dropped.                                      *)
Exhausted ==
  /\ NeedsMore
  /\ eof_ \/ read_error_
  /\ buffer_' = <<>>
  /\ Return(FALSE)
  /\ \/ Len(buffer_) < kHeaderSize /\ UNCHANGED recycled_
     \/ \E h \in Headers : TooShort(h) /\ MarkRecycled(h)
  /\ UNCHANGED <<eof_, read_error_, initial_offset_, end_of_buffer_offset_, last_record_offset_,
                 physical_record_offset, fpos, record, scratch>>

(* The steps of a call that do not touch the file.                         *)
Serve(h) ==
  \/ OldRecord(h)
  \/ DropBlock(h)
  \/ BelowInitialOffset(h)
  \/ FullRecord(h)
  \/ FirstOrMiddle(h)
  \/ LastFragment(h)
  \/ UnknownType(h)

ReaderStep == Exhausted \/ (\E h \in Headers : Serve(h))

(* A file about which nothing is known: at most n bytes are delivered.     *)
FetchAnything ==
  \E n \in 0..kBlockSize :
    \E data \in [1..n -> {ZeroByte, JunkByte}] :
      \E error \in {FALSE, n < kBlockSize} : Fetch(data, error)

ReaderNext ==
  /\ \/ fpos < MaxPosition /\ (SkipFails \/ ReadRecord)
     \/ ReaderStep
     \/ FetchAnything
  /\ UNCHANGED checksum_

ReaderSpec == ReaderInit /\ [][ReaderNext]_rvars

-----------------------------------------------------------------------------
(* Type invariant of the log reader.                                       *)
ReaderTypeOK ==
  /\ checksum_ \in ChecksumSettings
  /\ rpc \in {"idle", "physical", "panicked"}
  /\ eof_ \in BOOLEAN
  /\ read_error_ \in BOOLEAN
  /\ recycled_ \in BOOLEAN
  /\ Len(buffer_) \in 0..kBlockSize
  /\ end_of_buffer_offset_ \in Nat
  /\ last_record_offset_ \in 0 .. OffsetModulus - 1
  /\ physical_record_offset \in 0 .. OffsetModulus - 1
  /\ fpos \in Nat
  /\ reply \in {"none", "record", "nothing"}

(* end_of_buffer_offset_ - buffer_.len() is computed on u64 in three       *)
(* places, unchecked: for a reader that starts at offset 0 it never        *)
(* underflows, whatever the file holds and whatever errors it gives.       *)
BufferWithinFile ==
  initial_offset_ = 0 => Len(buffer_) <= end_of_buffer_offset_

(* Offsets are counted from what was fetched: for a reader that starts at  *)
(* offset 0 the end of its buffer is where its file stands, across short   *)
(* reads, dropped blocks and read errors.                                  *)
BufferEndsAtFilePosition ==
  initial_offset_ = 0 => end_of_buffer_offset_ = fpos

=============================================================================
